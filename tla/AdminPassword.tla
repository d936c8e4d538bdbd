--------------------------- MODULE AdminPassword ---------------------------
(***************************************************************************)
(* The administrator's password: in config.yaml and config.local.yaml, in  *)
(* the file reset_admin_password, and in the memory of the process.        *)
(* app/config.py loads it, the startup of app/main.py hashes or resets it, *)
(* PUT /admin/api/admin/password changes it, and both write it back to     *)
(* config.yaml by truncating the file and dumping it again.  The handlers  *)
(* do not await, so only a crash or a failing write comes in between.      *)
(***************************************************************************)
EXTENDS Naturals

CONSTANTS Plain,          \* passwords people type
          Length,         \* password -> characters
          Bytes,          \* password -> bytes, in UTF-8
          Default,        \* admin.password when no file sets it
          Empty,          \* a file that was truncated
          Nothing         \* no password, no file

HashLength == 60          \* of every bcrypt hash
MinLength  == 6           \* required of a new password
MaxBytes   == 72          \* bcrypt raises ValueError for longer ones

\* What a file or the memory holds: a password hashed so many times.
Text == [word : Plain, hashes : 0..2]

ASSUME PasswordAssumption ==
    /\ Length \in [Plain -> Nat]
    /\ Bytes \in [Plain -> Nat]
    /\ \A p \in Plain : Length[p] <= Bytes[p]
    /\ Default \in Plain
    /\ Length[Default] < HashLength
    /\ Nothing \notin Plain \cup Text
    /\ Empty \notin Text \cup {Nothing}

VARIABLES file,           \* admin.password of config.yaml; Empty once the
                          \* file was truncated, Nothing if there is no file
          local,          \* that of config.local.yaml, or Nothing
          resetFile,      \* reset_admin_password, or Nothing
          memory,         \* cfg.admin.password, Nothing while down
          phase,          \* "down", "loaded" (startup runs) or "up"
          writing,        \* "no", "opening", or "cut" once truncated
          promised,       \* history: the password that should open the console
          kept            \* history: the promise was written to config.yaml

passwordVars == <<file, local, resetFile, memory, phase, writing, promised,
                  kept>>

AsTyped(p)    == [word |-> p, hashes |-> 0]
Hash(t)       == [t EXCEPT !.hashes = @ + 1]
TextLength(t) == IF t.hashes > 0 THEN HashLength ELSE Length[t.word]

\* What hash_password takes.
Hashable(p) == Bytes[p] <= MaxBytes

\* (Mutation) `<=' for `<': hashes are hashed again.
LooksPlainOrHashed(t) == TextLength(t) <= HashLength

\* Startup takes what is shorter than a hash for a plain password.
LooksPlain(t) == TextLength(t) < HashLength

\* verify_password: bcrypt for a hash of one password, else plain comparison.
Verify(p, t) == t.word = p /\ t.hashes <= 1

\* load_config: config.local.yaml over config.yaml over the defaults.
Merged == IF local # Nothing THEN local
          ELSE IF file \in {Nothing, Empty} THEN AsTyped(Default)
          ELSE file

PasswordInit ==
    /\ file \in {Nothing} \cup {AsTyped(p) : p \in Plain}
                \cup {Hash(AsTyped(p)) : p \in {q \in Plain : Hashable(q)}}
    /\ local \in {Nothing} \cup {AsTyped(p) : p \in Plain}
    /\ resetFile = Nothing
    /\ memory = Nothing
    /\ phase = "down"
    /\ writing = "no"
    /\ promised = Merged.word
    /\ kept = TRUE

\* The operator asks for a new password at the next start.
PutResetFile(p) ==
    /\ resetFile = Nothing
    /\ resetFile' = p
    /\ UNCHANGED <<file, local, memory, phase, writing, promised, kept>>

----------------------------------------------------------------------------
\* Startup.

LoadConfig ==
    /\ phase = "down"
    /\ phase' = "loaded"
    /\ memory' = Merged
    /\ UNCHANGED <<file, local, resetFile, writing, promised, kept>>

\* The file is deleted first; hashing a password that is too long then stops
\* the startup.
TakeReset ==
    /\ phase = "loaded"
    /\ writing = "no"
    /\ resetFile # Nothing
    /\ resetFile' = Nothing
    /\ IF ~Hashable(resetFile)
       THEN /\ phase' = "down"
            /\ memory' = Nothing
            /\ UNCHANGED <<writing, promised, kept>>
       ELSE /\ memory' = Hash(AsTyped(resetFile))
            /\ writing' = "opening"
            /\ promised' = resetFile
            /\ kept' = FALSE
            /\ UNCHANGED phase
    /\ UNCHANGED <<file, local>>

\* A short password of many bytes stops the startup too, and every later one.
HashAtStartup ==
    /\ phase = "loaded"
    /\ writing = "no"
    /\ resetFile = Nothing
    /\ LooksPlain(memory)
    /\ IF ~Hashable(memory.word)
       THEN /\ phase' = "down"
            /\ memory' = Nothing
            /\ UNCHANGED writing
       ELSE /\ memory' = Hash(memory)
            /\ writing' = "opening"
            /\ UNCHANGED phase
    /\ UNCHANGED <<file, local, resetFile, promised, kept>>

StartAsLoaded ==
    /\ phase = "loaded"
    /\ writing = "no"
    /\ resetFile = Nothing
    /\ ~LooksPlain(memory)
    /\ phase' = "up"
    /\ UNCHANGED <<file, local, resetFile, memory, writing, promised, kept>>

----------------------------------------------------------------------------
\* change_admin_password: 403 for a wrong old password, 422 for a short new
\* one, 500 for one that bcrypt refuses, all without effect; otherwise the new
\* password is in use before it is written.

Change(old, new) ==
    /\ phase = "up"
    /\ writing = "no"
    /\ Verify(old, memory)
    /\ Length[new] >= MinLength
    /\ Hashable(new)
    /\ memory' = Hash(AsTyped(new))
    /\ writing' = "opening"
    /\ promised' = new
    /\ kept' = FALSE
    /\ UNCHANGED <<file, local, resetFile, phase>>

\* Writing the file, at startup (which goes on whatever happens) and in the
\* handler (which answers 200, or 500 if an exception was raised).
Truncate ==
    /\ writing = "opening"
    /\ file # Nothing
    /\ file' = Empty
    /\ writing' = "cut"
    /\ kept' = FALSE
    /\ UNCHANGED <<local, resetFile, memory, phase, promised>>

Dump ==
    /\ writing = "cut"
    /\ file' = memory
    /\ writing' = "no"
    /\ phase' = "up"
    /\ kept' = TRUE
    /\ UNCHANGED <<local, resetFile, memory, promised>>

\* There is no file to write to: nothing is written, and that is no error.
SkipWrite ==
    /\ writing = "opening"
    /\ file = Nothing
    /\ writing' = "no"
    /\ phase' = "up"
    /\ UNCHANGED <<file, local, resetFile, memory, promised, kept>>

\* The file cannot be opened (docker-compose.yml mounts it read-only), or the
\* dump fails after the truncation (a full disk).  An answer 500 promises
\* nothing, although the new password stays in memory.
WriteFails ==
    /\ writing # "no"
    /\ file # Nothing
    /\ writing' = "no"
    /\ phase' = "up"
    /\ promised' = IF phase = "up" THEN Nothing ELSE promised
    /\ UNCHANGED <<file, local, resetFile, memory, kept>>

\* The process ends or is killed.  A promise that was not written ends too.
ProcessEnds ==
    /\ phase # "down"
    /\ phase' = "down"
    /\ memory' = Nothing
    /\ writing' = "no"
    /\ promised' = IF kept THEN promised ELSE Nothing
    /\ UNCHANGED <<file, local, resetFile, kept>>

PasswordNext ==
    \/ \E p \in Plain : PutResetFile(p)
    \/ LoadConfig
    \/ TakeReset
    \/ HashAtStartup
    \/ StartAsLoaded
    \/ \E old, new \in Plain : Change(old, new)
    \/ Truncate
    \/ Dump
    \/ SkipWrite
    \/ WriteFails
    \/ ProcessEnds

PasswordSpec == PasswordInit /\ [][PasswordNext]_passwordVars

----------------------------------------------------------------------------
PasswordTypeOK ==
    /\ file \in Text \cup {Empty, Nothing}
    /\ local \in Text \cup {Nothing}
    /\ resetFile \in Plain \cup {Nothing}
    /\ memory \in Text \cup {Nothing}
    /\ memory = Nothing <=> phase = "down"
    /\ phase \in {"down", "loaded", "up"}
    /\ writing \in {"no", "opening", "cut"}
    /\ promised \in Plain \cup {Nothing}
    /\ kept \in BOOLEAN

\* While the program runs, one password opens the console: the configured one,
\* until a change that was answered 200 or a reset replaces it - through any
\* number of restarts, provided that the write succeeded and that no
\* config.local.yaml overrides the file (DOCS.md: "The new password is
\* bcrypt-hashed and persisted").
OnlyPromisedPasswordWorks ==
    (phase = "up" /\ writing = "no" /\ promised # Nothing /\ local = Nothing)
        => \A p \in Plain : Verify(p, memory) <=> p = promised

=============================================================================
