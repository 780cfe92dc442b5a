------------------------------ MODULE SecretStore ------------------------------
(***************************************************************************)
(* Secrets of a project: the OS keyring holds the values, a file holds the *)
(* names of what was stored, and an operation resolves what its plugins    *)
(* need, once.  `secret set` and `secret delete` change the keyring first  *)
(* and then read, change and rewrite the file, which nothing locks.        *)
(*                                                                         *)
(* A value is the number of the command that stored it; 0 is none, a       *)
(* negative one comes from the environment or from the user.               *)
(***************************************************************************)
EXTENDS Operations, Integers

CONSTANTS
    SecNames,       \* names of secrets
    SecOverridden,  \* those that LIGHTRAIL_SECRET_<NAME> gives a value
    SecContexts,    \* the contexts that one `up` prepares at the same time
    SecCommands,    \* bound: commands in all
    SecFaults,      \* subset of {"keyring", "file", "die"}
    SecBudget       \* bound: faults in all

ASSUME SecAssumption ==
    /\ SecNames # {} /\ SecOverridden \subseteq SecNames /\ SecCommands \in Nat /\ SecBudget \in Nat
    /\ SecFaults \subseteq {"keyring", "file", "die"}

VARIABLES
    secKeyring,  \* the value of each name, or 0
    secFile,     \* the index of names: absent, empty, torn or whole
    secSelf,     \* the command that each process runs
    secSure,     \* history: what the last command about a name has made sure
    secRun, secLeft

secVars == <<secKeyring, secFile, secSelf, secSure, secRun, secLeft>>

SecUnread(is) == [is |-> is, names |-> {}]
SecWhole(names) == [is |-> "whole", names |-> names]
SecIdle ==
    [at |-> "idle", task |-> "set", name |-> CHOOSE n \in SecNames : TRUE, number |-> 0,
     names |-> {}, alone |-> FALSE, terminal |-> FALSE,
     holder |-> 0, found |-> 0, cache |-> 0, asked |-> 0, given |-> [c \in SecContexts |-> 0]]

SecInit ==
    /\ secKeyring = [n \in SecNames |-> 0] /\ secFile = SecUnread("absent")
    /\ secSelf = [o \in Op |-> SecIdle] /\ secSure = [n \in SecNames |-> "unknown"]
    /\ secRun = 0 /\ secLeft = SecBudget

SecAt(o, where) == secSelf[o].at = where
SecGo(o, where) == secSelf' = [secSelf EXCEPT ![o].at = where]
\* A command is over; what it has given its plugins is remembered.
SecEnd(o) == secSelf' = [secSelf EXCEPT ![o] = [SecIdle EXCEPT !.asked = secSelf[o].asked,
                                                              !.given = secSelf[o].given]]
SecFault(fault) == fault \in SecFaults /\ secLeft > 0 /\ secLeft' = secLeft - 1
SecWrites(o) == secSelf[o].at \notin {"idle", "resolving"}

SecBegin(o) ==
    /\ SecAt(o, "idle") /\ secRun < SecCommands /\ secRun' = secRun + 1
    /\ \E n \in SecNames, task \in {"set", "delete", "up"}, terminal \in BOOLEAN :
        /\ terminal => task = "up"
        /\ secSelf' = [p \in Op |->
              IF p = o
              THEN [SecIdle EXCEPT !.at = IF task = "up" THEN "resolving" ELSE "keyring",
                       !.task = task, !.name = n, !.number = secRun + 1, !.terminal = terminal,
                       !.alone = \A q \in Op : ~SecWrites(q)]
              ELSE [secSelf[p] EXCEPT !.alone = @ /\ task = "up"]]
        /\ secSure' = IF task = "up" THEN secSure ELSE [secSure EXCEPT ![n] = "unknown"]
    /\ UNCHANGED <<secKeyring, secFile, secLeft>>

------------------------------------------------------------------------------
(* secret set, secret delete.                                              *)

SecKeyring(o) ==
    /\ SecAt(o, "keyring")
    /\ \/ /\ secKeyring' = [secKeyring EXCEPT ![secSelf[o].name] =
                               IF secSelf[o].task = "set" THEN secSelf[o].number ELSE 0]
          /\ SecGo(o, "loading") /\ UNCHANGED secLeft
       \/ SecFault("keyring") /\ SecEnd(o) /\ UNCHANGED secKeyring
    /\ UNCHANGED <<secFile, secSure, secRun>>

\* Mutant of SecLoad: the command knows the index from its start.
SecLoadNothing(o) ==
    /\ SecAt(o, "loading")
    /\ secSelf' = [secSelf EXCEPT ![o].at = "opening",
                      ![o].names = IF secSelf[o].task = "set" THEN {secSelf[o].name} ELSE {}]
    /\ UNCHANGED <<secKeyring, secFile, secSure, secRun, secLeft>>

\* An index that is not there is empty; one that does not parse is an error.
SecLoad(o) ==
    /\ SecAt(o, "loading")
    /\ IF secFile.is \in {"empty", "torn"} THEN SecEnd(o)
       ELSE secSelf' = [secSelf EXCEPT ![o].at = "opening",
                           ![o].names = IF secSelf[o].task = "set"
                                        THEN secFile.names \union {secSelf[o].name}
                                        ELSE secFile.names \ {secSelf[o].name}]
    /\ UNCHANGED <<secKeyring, secFile, secSure, secRun, secLeft>>

\* The index is written in place: truncated ...
SecOpen(o) ==
    /\ SecAt(o, "opening")
    /\ \/ secFile' = SecUnread("empty") /\ SecGo(o, "writing") /\ UNCHANGED secLeft
       \/ SecFault("file") /\ SecEnd(o) /\ UNCHANGED secFile
    /\ UNCHANGED <<secKeyring, secSure, secRun>>

\* ... and then filled; over what another writer has put there since, it may
\* leave the end of that.
SecWrite(o) ==
    /\ SecAt(o, "writing")
    /\ LET mine == SecWhole(secSelf[o].names) IN
       \/ /\ secFile' \in {mine} \union
                (IF secFile \in {mine, SecUnread("empty")} THEN {} ELSE {SecUnread("torn")})
          /\ SecEnd(o) /\ UNCHANGED secLeft
          /\ secSure' = IF secSelf[o].alone
                        THEN [secSure EXCEPT ![secSelf[o].name] =
                                 IF secSelf[o].task = "set" THEN "stored" ELSE "deleted"]
                        ELSE secSure
       \/ /\ SecFault("file") /\ SecEnd(o)
          /\ secFile' \in {secFile, SecUnread("torn")} /\ UNCHANGED secSure
    /\ UNCHANGED <<secKeyring, secRun>>

------------------------------------------------------------------------------
(* up: the contexts of an operation share one cache, whose mutex is held    *)
(* while a value is looked up and asked for.                               *)

SecTakeMutex(o) ==
    /\ SecAt(o, "resolving") /\ secSelf[o].holder = 0
    /\ \E c \in SecContexts :
        secSelf[o].given[c] = 0 /\ secSelf' = [secSelf EXCEPT ![o].holder = c]
    /\ UNCHANGED <<secKeyring, secFile, secSure, secRun, secLeft>>

\* What a context is given ends its hold; the last one ends the preparation.
SecGive(o, value, cache) ==
    LET given == [secSelf[o].given EXCEPT ![secSelf[o].holder] = value]
        self == [secSelf[o] EXCEPT !.given = given, !.cache = cache, !.holder = 0, !.found = 0]
        over == [SecIdle EXCEPT !.asked = self.asked, !.given = given]
    IN  secSelf' = [secSelf EXCEPT ![o] = IF \A c \in SecContexts : given[c] # 0 THEN over ELSE self]

SecCached(o) ==
    /\ SecAt(o, "resolving") /\ secSelf[o].holder # 0 /\ secSelf[o].cache # 0
    /\ SecGive(o, secSelf[o].cache, secSelf[o].cache)
    /\ UNCHANGED <<secKeyring, secFile, secSure, secRun, secLeft>>

\* The environment, the keyring, the user, in this order.
SecResolve(o) ==
    /\ SecAt(o, "resolving") /\ secSelf[o].holder # 0
    /\ secSelf[o].cache = 0 /\ secSelf[o].found = 0
    /\ LET n == secSelf[o].name IN
       \/ /\ n \in SecOverridden /\ UNCHANGED secLeft
          /\ secSelf' = [secSelf EXCEPT ![o].found = -1]
       \/ /\ n \notin SecOverridden /\ secKeyring[n] # 0 /\ UNCHANGED secLeft
          /\ secSelf' = [secSelf EXCEPT ![o].found = secKeyring[n]]
       \/ /\ n \notin SecOverridden /\ secKeyring[n] = 0 /\ UNCHANGED secLeft
          /\ IF secSelf[o].terminal
             THEN secSelf' = [secSelf EXCEPT ![o].found = -2 - secSelf[o].asked, ![o].asked = @ + 1]
             ELSE SecEnd(o)
       \/ n \notin SecOverridden /\ SecFault("keyring") /\ SecEnd(o)
    /\ UNCHANGED <<secKeyring, secFile, secSure, secRun>>

\* Mutant of SecKeep: the value is not kept.
SecKeepNot(o) ==
    /\ SecAt(o, "resolving") /\ secSelf[o].found # 0
    /\ SecGive(o, secSelf[o].found, 0)
    /\ UNCHANGED <<secKeyring, secFile, secSure, secRun, secLeft>>

SecKeep(o) ==
    /\ SecAt(o, "resolving") /\ secSelf[o].found # 0
    /\ SecGive(o, secSelf[o].found, secSelf[o].found)
    /\ UNCHANGED <<secKeyring, secFile, secSure, secRun, secLeft>>

SecDie(o) ==
    /\ ~SecAt(o, "idle") /\ SecFault("die") /\ SecEnd(o)
    /\ UNCHANGED <<secKeyring, secFile, secSure, secRun>>

SecNext ==
    \E o \in Op :
        \/ SecBegin(o) \/ SecKeyring(o) \/ SecLoad(o) \/ SecOpen(o) \/ SecWrite(o)
        \/ SecTakeMutex(o) \/ SecCached(o) \/ SecResolve(o) \/ SecKeep(o) \/ SecDie(o)

SecSpec == SecInit /\ [][SecNext]_secVars

------------------------------------------------------------------------------
SecTypeOK ==
    /\ secKeyring \in [SecNames -> 0..SecCommands]
    /\ secFile.is \in {"absent", "empty", "torn", "whole"} /\ secFile.names \subseteq SecNames
    /\ secSure \in [SecNames -> {"unknown", "stored", "deleted"}]
    /\ secRun \in 0..SecCommands /\ secLeft \in 0..SecBudget
    /\ \A o \in Op :
        /\ secSelf[o].at \in {"idle", "keyring", "loading", "opening", "writing", "resolving"}
        /\ secSelf[o].name \in SecNames /\ secSelf[o].names \subseteq SecNames
        /\ secSelf[o].holder \in SecContexts \union {0}

\* What a `secret set` or `secret delete` that ran alone has answered stays true
\* until a command names that secret again, whatever other commands do to other
\* secrets at the same time, as far as the index can be read at all; and one
\* operation gives all its plugins one value of a secret and asks for it once,
\* even if the secret is set anew meanwhile (OperationSecretCache).
SecAnswersAreTrue ==
    /\ \A n \in SecNames :
        /\ secSure[n] = "stored" =>
            secKeyring[n] # 0 /\ (secFile.is = "whole" => n \in secFile.names)
        /\ secSure[n] = "deleted" =>
            secKeyring[n] = 0 /\ (secFile.is = "whole" => n \notin secFile.names)
    /\ \A o \in Op :
        /\ secSelf[o].asked <= 1
        /\ \A c, d \in SecContexts : secSelf[o].given[c] \in {0, secSelf[o].given[d]}
                                     \/ secSelf[o].given[d] = 0
==============================================================================
