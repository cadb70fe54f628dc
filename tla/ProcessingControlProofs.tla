----------------------- MODULE ProcessingControlProofs -----------------------
(***************************************************************************)
(* What the control plane keeps for any queues, any number of commands,    *)
(* revisions and failed calls.  Everything rests on the chain: of all      *)
(* commands at most its head has gone past the reading of the row, so that *)
(* the row is what this one command wrote, and the runtime what it has     *)
(* applied so far.                                                         *)
(***************************************************************************)
EXTENDS ProcessingControl, TLAPS

\* It has read the row, and is not answered.
Running(c) == cmd[c].phase \notin {"idle", "queued"}

\* It is under way between the row and the runtime.
Applying(c) == cmd[c].phase \in {"off", "start", "restore"}

\* The queues whose workers may be anything at the moment.
Touched(c) ==
    IF cmd[c].phase = "restore"
    THEN ChangedQueues(cmd[c].before.settings, cmd[c].after.settings)
    ELSE cmd[c].start

\* The settings that a command is making live.
Target(c) == IF cmd[c].recovering THEN cmd[c].before.settings ELSE cmd[c].after.settings

-----------------------------------------------------------------------------
(* A command in progress is in the chain, and one that runs is its head;    *)
(* one that waits is as it came.                                            *)
InChain ==
    /\ \A c \in Commands : cmd[c].phase # "idle" => \E i \in DOMAIN chain : chain[i] = c
    /\ \A c \in Commands : Running(c) => Head(chain) = c
    /\ \A c \in Commands : cmd[c].phase = "queued" => cmd[c].op \in Ops /\ ~cmd[c].recovering
    /\ ~up => \A c \in Commands : cmd[c].phase = "idle"

(* What a command asked for is what it is about to write, or has written.   *)
Asked ==
    \A c \in Commands : cmd[c].phase \in {"persist", "gates"} =>
        /\ cmd[c].op \in Ops
        /\ cmd[c].after = [revision |-> cmd[c].before.revision + 1,
                           settings |-> Candidate(cmd[c].op, cmd[c].before.settings)]

(* The row is what the running command has read or written.                 *)
RowIsItsOwn ==
    /\ lost <= stored.revision
    /\ \A c \in Commands :
        /\ cmd[c].phase = "persist" =>
               /\ cmd[c].before = stored
               /\ cmd[c].op.kind # "legacy" => cmd[c].expected = stored.revision
        /\ cmd[c].phase \in {"gates", "off", "start", "restore", "resume"} => lost < stored.revision
        /\ cmd[c].phase \in {"gates", "restore", "resume"} => stored = cmd[c].after
        /\ Applying(c) =>
               stored = IF cmd[c].recovering /\ cmd[c].restored
                        THEN [revision |-> cmd[c].after.revision + 1, settings |-> cmd[c].before.settings]
                        ELSE cmd[c].after

(* What a command still has to do: the queues it has not got to are among   *)
(* those whose workers the change is about.                                 *)
Remaining ==
    \A c \in Commands :
        /\ cmd[c].phase \in {"persist", "gates", "restore"} => ~cmd[c].recovering
        /\ cmd[c].phase \in {"off", "start"} =>
               cmd[c].start \subseteq ChangedQueues(cmd[c].before.settings, cmd[c].after.settings)
        /\ cmd[c].phase = "off" => cmd[c].off \subseteq cmd[c].start

Live(settings, queues) ==
    /\ gate = settings.gate
    /\ \A q \in queues : workers[q] = Wanted(settings, q) /\ applied[q] = Wanted(settings, q)

(* The runtime is the row's when nobody changes it, and what the running    *)
(* command has made of it when somebody does; unless a recovery failed.     *)
RuntimeAsFar ==
    up /\ lost = 0 =>
        /\ (\A c \in Commands : cmd[c].phase \in {"idle", "queued", "persist", "resume"}) =>
               Live(stored.settings, Queues)
        /\ \A c \in Commands :
            /\ cmd[c].phase = "gates" => Live(cmd[c].before.settings, Queues)
            /\ Applying(c) => Live(Target(c), Queues \ Touched(c))

IInv == TypeOK /\ InChain /\ Asked /\ RowIsItsOwn /\ Remaining /\ RuntimeAsFar
        /\ FailedRecoveryTold
-----------------------------------------------------------------------------
Phases == {"idle", "queued", "persist", "gates", "off", "start", "restore", "resume"}

Command == [phase: Phases, op: Ops \cup {NoOp}, expected: Nat, before: States,
            after: States, off: SUBSET Queues, start: SUBSET Queues,
            recovering: BOOLEAN, restored: BOOLEAN]

Application == [status: {"APPLIED", "APPLIED_WITH_WARNINGS", "DEGRADED"}, desired: Nat,
                known: BOOLEAN]

\* Nobody is past the reading of the row.
AtRest == \A d \in Commands : cmd[d].phase \in {"idle", "queued"}

LEMMA TypesOfCommands ==
  /\ TypeOK => cmd \in [Commands -> Command]
  /\ TypeOK' => cmd' \in [Commands -> Command]'
BY DEF TypeOK, Command, Phases

LEMMA AskedCommand ==
  \A r \in Command, o \in Ops, e \in Nat :
    LET new == [r EXCEPT !.phase = "queued", !.op = o, !.expected = e]
    IN  new \in Command /\ new.phase = "queued" /\ new.op = o /\ (new.recovering <=> r.recovering)
BY DEF Command, Phases

\* What each way of going on does to the state of a command.
LEMMA ToGates ==
  \A t \in [Commands -> Command], c \in Commands :
    LET u == [t EXCEPT ![c].phase = "gates", ![c].expected = 0] IN
    /\ u \in [Commands -> Command]
    /\ \A d \in Commands \ {c} : u[d] = t[d]
    /\ u[c].phase = "gates"
    /\ u[c].op = t[c].op /\ u[c].before = t[c].before
    /\ u[c].after = t[c].after /\ u[c].recovering = t[c].recovering
<1> SUFFICES ASSUME NEW t \in [Commands -> Command], NEW c \in Commands
             PROVE  LET u == [t EXCEPT ![c].phase = "gates", ![c].expected = 0] IN
                    /\ u \in [Commands -> Command]
                    /\ \A d \in Commands \ {c} : u[d] = t[d]
                    /\ u[c].phase = "gates"
                    /\ u[c].op = t[c].op /\ u[c].before = t[c].before
                    /\ u[c].after = t[c].after /\ u[c].recovering = t[c].recovering
  OBVIOUS
<1> DEFINE u == [t EXCEPT ![c].phase = "gates", ![c].expected = 0]
<1>1. [t[c] EXCEPT !.phase = "gates", !.expected = 0] \in Command
  BY DEF Command, Phases
<1>2. u \in [Commands -> Command]
  BY <1>1
<1>3. \A d \in Commands \ {c} : u[d] = t[d]
  OBVIOUS
<1>4. u[c].phase = "gates"
  BY DEF Command
<1>5. u[c].op = t[c].op /\ u[c].before = t[c].before
  BY DEF Command
<1>6. u[c].after = t[c].after /\ u[c].recovering = t[c].recovering
  BY DEF Command
<1> QED BY <1>2, <1>3, <1>4, <1>5, <1>6

LEMMA ToRestore ==
  \A t \in [Commands -> Command], c \in Commands :
    LET u == [t EXCEPT ![c].phase = "restore"] IN
    /\ u \in [Commands -> Command]
    /\ \A d \in Commands \ {c} : u[d] = t[d]
    /\ u[c].phase = "restore"
    /\ u[c].before = t[c].before /\ u[c].after = t[c].after
    /\ u[c].recovering = t[c].recovering /\ u[c].restored = t[c].restored
<1> SUFFICES ASSUME NEW t \in [Commands -> Command], NEW c \in Commands
             PROVE  LET u == [t EXCEPT ![c].phase = "restore"] IN
                    /\ u \in [Commands -> Command]
                    /\ \A d \in Commands \ {c} : u[d] = t[d]
                    /\ u[c].phase = "restore"
                    /\ u[c].before = t[c].before /\ u[c].after = t[c].after
                    /\ u[c].recovering = t[c].recovering /\ u[c].restored = t[c].restored
  OBVIOUS
<1> DEFINE u == [t EXCEPT ![c].phase = "restore"]
<1>1. [t[c] EXCEPT !.phase = "restore"] \in Command
  BY DEF Command, Phases
<1>2. u \in [Commands -> Command]
  BY <1>1
<1>3. \A d \in Commands \ {c} : u[d] = t[d]
  OBVIOUS
<1>4. u[c].phase = "restore"
  BY DEF Command
<1>5. u[c].before = t[c].before /\ u[c].after = t[c].after
  BY DEF Command
<1>6. u[c].recovering = t[c].recovering /\ u[c].restored = t[c].restored
  BY DEF Command
<1> QED BY <1>2, <1>3, <1>4, <1>5, <1>6

LEMMA StartNext ==
  \A t \in [Commands -> Command], c \in Commands, q \in Queues :
    LET u == [t EXCEPT ![c].start = @ \ {q}] IN
    /\ u \in [Commands -> Command]
    /\ \A d \in Commands \ {c} : u[d] = t[d]
    /\ u[c].start = t[c].start \ {q}
    /\ u[c].before = t[c].before /\ u[c].after = t[c].after /\ u[c].phase = t[c].phase
    /\ u[c].recovering = t[c].recovering /\ u[c].restored = t[c].restored
<1> SUFFICES ASSUME NEW t \in [Commands -> Command], NEW c \in Commands, NEW q \in Queues
             PROVE  LET u == [t EXCEPT ![c].start = @ \ {q}] IN
                    /\ u \in [Commands -> Command]
                    /\ \A d \in Commands \ {c} : u[d] = t[d]
                    /\ u[c].start = t[c].start \ {q}
                    /\ u[c].before = t[c].before /\ u[c].after = t[c].after /\ u[c].phase = t[c].phase
                    /\ u[c].recovering = t[c].recovering /\ u[c].restored = t[c].restored
  OBVIOUS
<1> DEFINE u == [t EXCEPT ![c].start = @ \ {q}]
<1>1. [t[c] EXCEPT !.start = @ \ {q}] \in Command
  BY DEF Command, Phases
<1>2. u \in [Commands -> Command]
  BY <1>1
<1>3. \A d \in Commands \ {c} : u[d] = t[d]
  OBVIOUS
<1>4. u[c].start = t[c].start \ {q}
  BY DEF Command
<1>5. u[c].before = t[c].before /\ u[c].after = t[c].after /\ u[c].phase = t[c].phase
  BY DEF Command
<1>6. u[c].recovering = t[c].recovering /\ u[c].restored = t[c].restored
  BY DEF Command
<1> QED BY <1>2, <1>3, <1>4, <1>5, <1>6

LEMMA DefaultsType ==
  /\ Defaults \in Settings /\ Empty \in States
  /\ NoCommand \in Command
BY ConcurrencyAssumption DEF Defaults, Settings, Empty, States, NoCommand, Command, Phases

\* A command asks for settings, and only two kinds of it touch the gates.
LEMMA CandidateType ==
  ASSUME NEW op \in Ops, NEW s \in Settings
  PROVE  /\ Candidate(op, s) \in Settings
         /\ op.kind \notin {"service", "legacy"} => Candidate(op, s).gate = s.gate
<1>1. CASE op \in [kind: {"concurrency"}, queue: Queues, value: 0..MaxConcurrency]
  BY <1>1 DEF Candidate, Settings
<1>2. CASE op \in [kind: {"pause"}, queue: Queues, value: BOOLEAN]
  BY <1>2 DEF Candidate, Settings
<1>3. CASE op \in [kind: {"step"}, value: BOOLEAN]
  BY <1>3 DEF Candidate, Settings
<1>4. CASE op \in [kind: {"service"}, value: 0..1]
  BY <1>4 DEF Candidate, Settings
<1>5. CASE op \in [kind: {"legacy"}, value: 0..(MaxConcurrency + 1)]
  <2>1. Clamp(op.value) \in 0..MaxConcurrency
    BY <1>5, ConcurrencyAssumption DEF Clamp
  <2>2. Candidate(op, s) = [Defaults EXCEPT !.conc = [q \in Queues |-> Clamp(op.value)]]
    BY <1>5 DEF Candidate
  <2> QED BY <1>5, <2>1, <2>2, DefaultsType DEF Settings
<1> QED BY <1>1, <1>2, <1>3, <1>4, <1>5 DEF Ops

LEMMA WantedType ==
  ASSUME NEW s \in Settings, NEW q \in Queues
  PROVE  Wanted(s, q) \in 0..MaxConcurrency
BY ConcurrencyAssumption DEF Wanted, Concurrency, Settings

\* A queue a change is not about has as many workers after it as before.
LEMMA SameWorkers ==
  ASSUME NEW a \in Settings, NEW b \in Settings, NEW q \in Queues \ ChangedQueues(a, b)
  PROVE  Wanted(a, q) = Wanted(b, q)
BY DEF ChangedQueues, Wanted

-----------------------------------------------------------------------------
\* Of all commands one runs.
LEMMA OneRuns ==
  ASSUME InChain, NEW c \in Commands, NEW d \in Commands, Running(c), Running(d)
  PROVE  c = d
BY DEF InChain

\* The head of the chain, and all others wait or are idle.
LEMMA OthersRest ==
  ASSUME TypeOK, InChain, NEW c \in Commands, cmd[c].phase # "idle",
         Running(c) \/ Head(chain) = c, NEW d \in Commands, d # c
  PROVE  cmd[d].phase \in {"idle", "queued"}
BY DEF InChain, Running

\* A command that is answered leaves the chain to the others.
LEMMA EndLeaves ==
  ASSUME TypeOK, InChain, NEW c \in Commands, cmd[c].phase # "idle",
         Running(c) \/ Head(chain) = c, End(c), UNCHANGED up
  PROVE  /\ chain' \in Seq(Commands) /\ cmd' \in [Commands -> Command]
         /\ InChain' /\ AtRest'
<1>0. /\ cmd \in [Commands -> Command] /\ chain \in Seq(Commands)
      /\ cmd' = [cmd EXCEPT ![c] = NoCommand] /\ chain' = Tail(chain)
  BY TypesOfCommands DEF TypeOK, End
<1>1. /\ Head(chain) = c /\ chain # << >>
  BY <1>0 DEF InChain, Running
<1>2. /\ cmd' \in [Commands -> Command]
      /\ cmd'[c].phase = "idle"
      /\ \A d \in Commands \ {c} : cmd'[d] = cmd[d]
  BY <1>0, DefaultsType DEF NoCommand
<1>3. AtRest'
  BY <1>2, OthersRest DEF AtRest
<1>4. chain' \in Seq(Commands)
  BY <1>0, <1>1
<1>5. ASSUME NEW d \in Commands, cmd'[d].phase # "idle"
      PROVE  \E i \in DOMAIN chain' : chain'[i] = d
  <2>1. d # c /\ cmd[d].phase # "idle"
    BY <1>2, <1>5
  <2>2. PICK i \in DOMAIN chain : chain[i] = d
    BY <2>1 DEF InChain
  <2>3. i # 1
    BY <1>0, <1>1, <2>1, <2>2
  <2>4. i - 1 \in DOMAIN chain' /\ chain'[i - 1] = chain[i]
    BY <1>0, <1>1, <2>2, <2>3
  <2> QED BY <2>2, <2>4
<1>6. ~up' => \A d \in Commands : cmd'[d].phase = "idle"
  BY <1>2 DEF InChain
<1> QED BY <1>2, <1>3, <1>4, <1>5, <1>6 DEF InChain, AtRest, Running

\* A command that goes on stays the head of the chain.
LEMMA GoesOn ==
  ASSUME TypeOK, InChain, NEW c \in Commands, cmd[c].phase # "idle",
         Running(c) \/ Head(chain) = c, UNCHANGED <<chain, up>>,
         cmd' \in [Commands -> Command], Running(c)',
         \A d \in Commands \ {c} : cmd'[d] = cmd[d]
  PROVE  /\ InChain'
         /\ \A d \in Commands \ {c} : cmd'[d].phase \in {"idle", "queued"}
<1>1. \A d \in Commands \ {c} : cmd[d].phase \in {"idle", "queued"}
  BY OthersRest
<1>2. Head(chain) = c
  BY DEF InChain
<1> QED BY <1>1, <1>2 DEF InChain, Running

\* What holds of commands that run holds when none does.
LEMMA RestHolds ==
  ASSUME AtRest', lost' <= stored'.revision,
         up' /\ lost' = 0 => Live(stored.settings, Queues)'
  PROVE  Asked' /\ RowIsItsOwn' /\ Remaining' /\ RuntimeAsFar'
BY DEF AtRest, Asked, RowIsItsOwn, Remaining, RuntimeAsFar, Applying

-----------------------------------------------------------------------------
LEMMA InitHolds ==
  ASSUME Init
  PROVE  IInv
<1>0. cmd \in [Commands -> Command] /\ chain \in Seq(Commands)
  BY DefaultsType DEF Init
<1>1. TypeOK
  <2>1. stored \in States /\ up \in BOOLEAN
    BY DefaultsType DEF Init
  <2>4. faults \in 0..MaxFaults /\ lost \in Nat /\ gate \in 0..1
    BY BoundsAssumption DEF Init
  <2>2. workers \in [Queues -> 0..MaxConcurrency] /\ applied \in [Queues -> 0..MaxConcurrency]
    BY ConcurrencyAssumption DEF Init
  <2>3. lastApply \in [status: {"APPLIED", "APPLIED_WITH_WARNINGS", "DEGRADED"}, desired: Nat, known: BOOLEAN]
    BY DEF Init, NoApply
  <2> QED BY <1>0, <2>1, <2>2, <2>3, <2>4 DEF TypeOK, Command, Phases
<1>2. \A c \in Commands : cmd[c].phase = "idle"
  BY DEF Init, NoCommand
<1> QED
  BY <1>1, <1>2 DEF Init, IInv, InChain, Running, Asked, RowIsItsOwn, Remaining, RuntimeAsFar,
     Applying, FailedRecoveryTold, Empty

LEMMA SendKeeps ==
  ASSUME IInv, NEW c \in Commands, Send(c)
  PROVE  IInv'
<1>1. PICK op \in Ops, expected \in 0..stored.revision :
         cmd' = [cmd EXCEPT ![c] = [NoCommand EXCEPT !.phase = "queued", !.op = op, !.expected = expected]]
  BY DEF Send
<1>2. /\ up /\ cmd[c].phase = "idle" /\ chain' = Append(chain, c)
      /\ UNCHANGED <<stored, live, lastApply, up, lost, faults>>
      /\ TypeOK /\ cmd \in [Commands -> Command] /\ chain \in Seq(Commands)
      /\ stored.revision \in Nat
  BY TypesOfCommands DEF Send, IInv, TypeOK, States
<1> DEFINE new == [NoCommand EXCEPT !.phase = "queued", !.op = op, !.expected = expected]
<1>n. new \in Command /\ new.phase = "queued" /\ new.op \in Ops /\ ~new.recovering
  <2>1. expected \in Nat /\ NoCommand \in Command
    BY <1>2, DefaultsType
  <2>2. ~NoCommand.recovering
    BY DEF NoCommand
  <2>3. /\ new \in Command /\ new.phase = "queued" /\ new.op = op
        /\ new.recovering <=> NoCommand.recovering
    BY <2>1, AskedCommand
  <2> QED BY <2>2, <2>3
<1>m. cmd' = [cmd EXCEPT ![c] = new]
  BY <1>1
<1> HIDE DEF new
<1>3. /\ cmd' \in [Commands -> Command]
      /\ cmd'[c].phase = "queued" /\ cmd'[c].op \in Ops /\ ~cmd'[c].recovering
      /\ \A d \in Commands \ {c} : cmd'[d] = cmd[d]
  BY <1>2, <1>m, <1>n
<1>4. TypeOK'
  BY <1>2, <1>3 DEF TypeOK, live, Command, Phases
<1>5. InChain'
  <2>1. ASSUME NEW d \in Commands, cmd'[d].phase # "idle"
        PROVE  \E i \in DOMAIN chain' : chain'[i] = d
    <3>1. CASE d = c
      BY <3>1, <1>2
    <3>2. CASE d # c
      <4>1. PICK i \in DOMAIN chain : chain[i] = d
        BY <3>2, <2>1, <1>3 DEF IInv, InChain
      <4> QED BY <4>1, <1>2
    <3> QED BY <3>1, <3>2
  <2>2. ASSUME NEW d \in Commands, Running(d)'
        PROVE  Head(chain') = d
    <3>1. d # c /\ Running(d)
      BY <2>2, <1>3 DEF Running
    <3>2. Head(chain) = d /\ chain # << >>
      BY <3>1, <1>2 DEF IInv, InChain, Running
    <3> QED BY <3>2, <1>2
  <2> QED BY <2>1, <2>2, <1>2, <1>3 DEF IInv, InChain
<1>6. Asked' /\ RowIsItsOwn' /\ Remaining'
  BY <1>2, <1>3 DEF IInv, Asked, RowIsItsOwn, Remaining, Applying
<1>7. RuntimeAsFar'
  <2>1. \A d \in Commands : /\ cmd'[d].phase \in {"idle", "queued", "persist", "resume"}
                              => cmd[d].phase \in {"idle", "queued", "persist", "resume"}
                           /\ cmd'[d].phase # "queued" => cmd'[d] = cmd[d]
    BY <1>2, <1>3
  <2> QED BY <2>1, <1>2, <1>3 DEF IInv, RuntimeAsFar, Live, Applying, Target, Touched, live
<1>8. FailedRecoveryTold'
  BY <1>2 DEF IInv, FailedRecoveryTold, ApplyState
<1> QED BY <1>4, <1>5, <1>6, <1>7, <1>8 DEF IInv

LEMMA ReadKeeps ==
  ASSUME IInv, NEW c \in Commands, Read(c)
  PROVE  IInv'
<1>0. /\ cmd[c].phase = "queued" /\ Head(chain) = c
      /\ UNCHANGED <<stored, live, lastApply, up, lost, faults>>
      /\ TypeOK /\ InChain /\ cmd \in [Commands -> Command] /\ stored \in States
  BY TypesOfCommands DEF Read, Turn, IInv, TypeOK
<1>1. \A d \in Commands \ {c} : cmd[d].phase \in {"idle", "queued"}
  BY <1>0, OthersRest
<1>2. up /\ lost = 0 => Live(stored.settings, Queues)
  BY <1>0, <1>1 DEF IInv, RuntimeAsFar
<1>3. FailedRecoveryTold'
  BY <1>0 DEF IInv, FailedRecoveryTold, ApplyState
<1>4. CASE End(c)
  <2>1. /\ chain' \in Seq(Commands) /\ cmd' \in [Commands -> Command]
        /\ InChain' /\ AtRest'
    BY <1>0, <1>4, EndLeaves
  <2>2. TypeOK'
    BY <1>0, <2>1 DEF TypeOK, live, Command, Phases
  <2>3. Asked' /\ RowIsItsOwn' /\ Remaining' /\ RuntimeAsFar'
    BY <1>0, <1>2, <2>1, RestHolds DEF IInv, RowIsItsOwn, Live, live
  <2> QED BY <1>3, <2>1, <2>2, <2>3 DEF IInv
<1>5. CASE /\ UNCHANGED chain
           /\ ~(cmd[c].op.kind # "legacy" /\ cmd[c].expected # stored.revision)
           /\ cmd' = [cmd EXCEPT ![c].phase = "persist", ![c].before = stored,
                       ![c].after = [revision |-> stored.revision + 1,
                                     settings |-> Candidate(cmd[c].op, stored.settings)]]
  <2> DEFINE after == [revision |-> stored.revision + 1,
                       settings |-> Candidate(cmd[c].op, stored.settings)]
  <2>1. cmd[c].op \in Ops /\ ~cmd[c].recovering
    BY <1>0 DEF InChain
  <2>2. after \in States
    BY <1>0, <2>1, CandidateType DEF States
  <2>e. cmd' = [cmd EXCEPT ![c].phase = "persist", ![c].before = stored, ![c].after = after]
    BY <1>5
  <2> HIDE DEF after
  <2>3. /\ cmd' \in [Commands -> Command]
        /\ \A d \in Commands \ {c} : cmd'[d] = cmd[d]
        /\ cmd'[c].phase = "persist" /\ cmd'[c].before = stored /\ cmd'[c].after = after
        /\ cmd'[c].op = cmd[c].op /\ cmd'[c].expected = cmd[c].expected
        /\ cmd'[c].recovering = cmd[c].recovering
    <3>1. [cmd[c] EXCEPT !.phase = "persist", !.before = stored, !.after = after] \in Command
      BY <1>0, <2>2 DEF Command, Phases
    <3>2. cmd' \in [Commands -> Command] /\ \A d \in Commands \ {c} : cmd'[d] = cmd[d]
      BY <1>0, <2>e, <3>1
    <3>3. cmd'[c].phase = "persist" /\ cmd'[c].before = stored /\ cmd'[c].after = after
      BY <1>0, <2>e DEF Command
    <3>4. /\ cmd'[c].op = cmd[c].op /\ cmd'[c].expected = cmd[c].expected
          /\ cmd'[c].recovering = cmd[c].recovering
      BY <1>0, <2>e DEF Command
    <3> QED BY <3>2, <3>3, <3>4
  <2>4. InChain' /\ \A d \in Commands \ {c} : cmd'[d].phase \in {"idle", "queued"}
    BY <1>0, <1>5, <2>3, GoesOn DEF Running
  <2>5. TypeOK'
    BY <1>0, <1>5, <2>3 DEF TypeOK, live, Command, Phases
  <2>6. Asked' /\ Remaining'
    BY <1>0, <2>1, <2>3, <2>4 DEF Asked, Remaining, after
  <2>7. RowIsItsOwn'
    BY <1>0, <1>5, <2>3, <2>4 DEF IInv, RowIsItsOwn, Applying
  <2>8. RuntimeAsFar'
    BY <1>0, <1>2, <2>3, <2>4 DEF RuntimeAsFar, Applying, Live, live
  <2> QED BY <1>3, <2>4, <2>5, <2>6, <2>7, <2>8 DEF IInv
<1> QED BY <1>4, <1>5 DEF Read

LEMMA PersistKeeps ==
  ASSUME IInv, NEW c \in Commands, Persist(c)
  PROVE  IInv'
<1>0. /\ cmd[c].phase = "persist" /\ Running(c)
      /\ UNCHANGED <<live, lastApply, up, lost>>
      /\ TypeOK /\ InChain /\ cmd \in [Commands -> Command] /\ stored \in States
      /\ cmd[c].before = stored /\ ~cmd[c].recovering
      /\ lost <= stored.revision /\ lost \in Nat /\ stored.revision \in Nat
  BY TypesOfCommands DEF Persist, IInv, TypeOK, Running, RowIsItsOwn, Remaining, States
<1>1. /\ cmd[c].op \in Ops /\ cmd[c].after \in States
      /\ cmd[c].after = [revision |-> stored.revision + 1,
                         settings |-> Candidate(cmd[c].op, stored.settings)]
  BY <1>0 DEF IInv, Asked, Command
<1>2. \A d \in Commands \ {c} : cmd[d].phase \in {"idle", "queued"}
  BY <1>0, OthersRest
<1>3. up /\ lost = 0 => Live(stored.settings, Queues)
  BY <1>0, <1>2 DEF IInv, RuntimeAsFar
<1>4. CASE /\ stored' = cmd[c].after
           /\ cmd' = [cmd EXCEPT ![c].phase = "gates", ![c].expected = 0]
           /\ UNCHANGED <<chain, faults>>
  <2>3. /\ cmd' \in [Commands -> Command]
        /\ \A d \in Commands \ {c} : cmd'[d] = cmd[d]
        /\ cmd'[c].phase = "gates" /\ cmd'[c].op = cmd[c].op
        /\ cmd'[c].before = stored /\ cmd'[c].after = cmd[c].after
        /\ cmd'[c].recovering = cmd[c].recovering
    BY <1>0, <1>4, ToGates
  <2>4. InChain' /\ \A d \in Commands \ {c} : cmd'[d].phase \in {"idle", "queued"}
    BY <1>0, <1>4, <2>3, GoesOn DEF Running
  <2>5. TypeOK'
    BY <1>0, <1>1, <1>4, <2>3 DEF TypeOK, live, Command, Phases
  <2>6. Asked' /\ Remaining'
    BY <1>0, <1>1, <2>3, <2>4 DEF Asked, Remaining
  <2>7. RowIsItsOwn' /\ lost' < stored'.revision
    BY <1>0, <1>1, <1>4, <2>3, <2>4 DEF RowIsItsOwn, Applying
  <2>8. RuntimeAsFar'
    BY <1>0, <1>3, <2>3, <2>4 DEF RuntimeAsFar, Applying, Live, live
  <2>9. FailedRecoveryTold'
    BY <1>0, <1>1, <1>4 DEF FailedRecoveryTold
  <2> QED BY <2>4, <2>5, <2>6, <2>7, <2>8, <2>9 DEF IInv
<1>5. CASE Fault /\ End(c) /\ UNCHANGED stored
  <2>1. /\ chain' \in Seq(Commands) /\ cmd' \in [Commands -> Command]
        /\ InChain' /\ AtRest'
    BY <1>0, <1>5, EndLeaves
  <2>2. TypeOK'
    BY <1>0, <1>5, <2>1, BoundsAssumption DEF TypeOK, live, Command, Phases, Fault
  <2>3. Asked' /\ RowIsItsOwn' /\ Remaining' /\ RuntimeAsFar'
    BY <1>0, <1>3, <1>5, <2>1, RestHolds DEF Live, live
  <2>4. FailedRecoveryTold'
    BY <1>0, <1>5 DEF IInv, FailedRecoveryTold, ApplyState
  <2> QED BY <2>1, <2>2, <2>3, <2>4 DEF IInv
<1> QED BY <1>4, <1>5 DEF Persist

-----------------------------------------------------------------------------
(* The three ends of an application: published, recovered, or failed and    *)
(* to be recovered.                                                         *)
LEMMA PublishedKeeps ==
  ASSUME TypeOK, InChain, NEW c \in Commands, Running(c), Published(c),
         UNCHANGED <<stored, up, lost>>, stored = cmd[c].after, lost < stored.revision,
         up' /\ lost' = 0 => Live(stored.settings, Queues)'
  PROVE  /\ lastApply' \in Application /\ chain' \in Seq(Commands) /\ cmd' \in [Commands -> Command]
         /\ InChain' /\ Asked' /\ RowIsItsOwn' /\ Remaining' /\ RuntimeAsFar'
         /\ FailedRecoveryTold'
<1>0. /\ cmd \in [Commands -> Command] /\ chain \in Seq(Commands)
      /\ stored \in States /\ stored.revision \in Nat /\ lost \in Nat
  BY TypesOfCommands DEF TypeOK, States
<1>1. lastApply' \in Application
  BY <1>0 DEF Published, Application
<1>2. FailedRecoveryTold'
  BY <1>0 DEF FailedRecoveryTold
<1>3. CASE End(c)
  <2>1. /\ chain' \in Seq(Commands) /\ cmd' \in [Commands -> Command]
        /\ InChain' /\ AtRest'
    BY <1>3, EndLeaves DEF Running
  <2>2. Asked' /\ RowIsItsOwn' /\ Remaining' /\ RuntimeAsFar'
    BY <1>0, <2>1, RestHolds
  <2> QED BY <1>1, <1>2, <2>1, <2>2
<1>4. CASE /\ cmd' = [cmd EXCEPT ![c].phase = "resume", ![c].op = NoOp,
                                 ![c].off = {}, ![c].start = {}]
           /\ UNCHANGED chain
  <2>1. /\ cmd' \in [Commands -> Command]
        /\ \A d \in Commands \ {c} : cmd'[d] = cmd[d]
        /\ cmd'[c].phase = "resume" /\ cmd'[c].after = cmd[c].after
    <3>1. [cmd[c] EXCEPT !.phase = "resume", !.op = NoOp, !.off = {}, !.start = {}] \in Command
      BY <1>0 DEF Command, Phases
    <3>2. cmd' \in [Commands -> Command] /\ \A d \in Commands \ {c} : cmd'[d] = cmd[d]
      BY <1>0, <1>4, <3>1
    <3>3. cmd'[c].phase = "resume" /\ cmd'[c].after = cmd[c].after
      BY <1>0, <1>4 DEF Command
    <3> QED BY <3>2, <3>3
  <2>2. InChain' /\ \A d \in Commands \ {c} : cmd'[d].phase \in {"idle", "queued"}
    BY <1>0, <1>4, <2>1, GoesOn DEF Running
  <2>3. Asked' /\ Remaining'
    BY <2>1, <2>2 DEF Asked, Remaining
  <2>4. RowIsItsOwn'
    BY <1>0, <2>1, <2>2 DEF RowIsItsOwn, Applying
  <2>5. RuntimeAsFar'
    BY <2>1, <2>2 DEF RuntimeAsFar, Applying
  <2> QED BY <1>0, <1>1, <1>2, <1>4, <2>1, <2>2, <2>3, <2>4, <2>5
<1> QED BY <1>3, <1>4 DEF Published

LEMMA RecoveredKeeps ==
  ASSUME TypeOK, InChain, NEW c \in Commands, NEW ok \in BOOLEAN, Running(c), Recovered(c, ok),
         UNCHANGED <<stored, up>>, stored.revision = Desired(c), lost < stored.revision,
         up' /\ lost' = 0 /\ ok => Live(stored.settings, Queues)'
  PROVE  /\ lastApply' \in Application /\ chain' \in Seq(Commands) /\ cmd' \in [Commands -> Command]
         /\ lost' \in Nat
         /\ InChain' /\ Asked' /\ RowIsItsOwn' /\ Remaining' /\ RuntimeAsFar'
         /\ FailedRecoveryTold'
<1>0. stored.revision \in Nat /\ lost \in Nat
  BY DEF TypeOK, States
<1>1. /\ lastApply' = [status |-> IF ok THEN "APPLIED" ELSE "DEGRADED",
                       desired |-> stored.revision, known |-> TRUE]
      /\ lost' = IF ok THEN lost ELSE stored.revision
  BY DEF Recovered
<1>2. lastApply' \in Application /\ lost' \in Nat /\ lost' <= stored.revision
  BY <1>0, <1>1 DEF Application
<1>3. /\ chain' \in Seq(Commands) /\ cmd' \in [Commands -> Command]
      /\ InChain' /\ AtRest'
  BY EndLeaves DEF Running, Recovered
<1>4. up' /\ lost' = 0 => Live(stored.settings, Queues)'
  BY <1>0, <1>1
<1>5. Asked' /\ RowIsItsOwn' /\ Remaining' /\ RuntimeAsFar'
  BY <1>2, <1>3, <1>4, RestHolds
<1>6. FailedRecoveryTold'
  <2>1. CASE ok
    BY <2>1, <1>0, <1>1 DEF FailedRecoveryTold
  <2>2. CASE ~ok
    BY <2>2, <1>0, <1>1 DEF FailedRecoveryTold, ApplyState
  <2> QED BY <2>1, <2>2
<1> QED BY <1>2, <1>3, <1>5, <1>6

LEMMA FailedKeeps ==
  ASSUME IInv, NEW c \in Commands, cmd[c].phase \in {"off", "start"}, Failed(c),
         UNCHANGED <<stored, gate, up>>,
         \A q \in Queues \ cmd[c].start : workers'[q] = workers[q] /\ applied'[q] = applied[q]
  PROVE  /\ lastApply' \in Application /\ chain' \in Seq(Commands) /\ cmd' \in [Commands -> Command]
         /\ lost' \in Nat
         /\ InChain' /\ Asked' /\ RowIsItsOwn' /\ Remaining' /\ RuntimeAsFar'
         /\ FailedRecoveryTold'
<1>0. /\ cmd \in [Commands -> Command] /\ chain \in Seq(Commands) /\ TypeOK /\ InChain
      /\ stored.revision \in Nat /\ lost \in Nat /\ lastApply \in Application
      /\ Running(c) /\ Applying(c) /\ lost < stored.revision
      /\ stored = IF cmd[c].recovering /\ cmd[c].restored
                  THEN [revision |-> cmd[c].after.revision + 1, settings |-> cmd[c].before.settings]
                  ELSE cmd[c].after
      /\ cmd[c].start \subseteq ChangedQueues(cmd[c].before.settings, cmd[c].after.settings)
  BY TypesOfCommands DEF IInv, TypeOK, States, Running, Applying, RowIsItsOwn, Remaining, Application
<1>1. CASE /\ ~cmd[c].recovering
           /\ cmd' = [cmd EXCEPT ![c].phase = "restore"]
           /\ UNCHANGED <<chain, lastApply, lost>>
  <2>1. /\ cmd' \in [Commands -> Command]
        /\ \A d \in Commands \ {c} : cmd'[d] = cmd[d]
        /\ cmd'[c].phase = "restore" /\ cmd'[c].after = cmd[c].after
        /\ cmd'[c].before = cmd[c].before /\ ~cmd'[c].recovering
    BY <1>0, <1>1, ToRestore
  <2>2. InChain' /\ \A d \in Commands \ {c} : cmd'[d].phase \in {"idle", "queued"}
    BY <1>0, <1>1, <2>1, GoesOn DEF Running
  <2>3. Asked' /\ Remaining'
    BY <2>1, <2>2 DEF Asked, Remaining
  <2>4. RowIsItsOwn'
    BY <1>0, <1>1, <2>1, <2>2 DEF RowIsItsOwn, Applying
  <2>5. RuntimeAsFar'
    <3>1. up /\ lost = 0 => Live(cmd[c].after.settings, Queues \ cmd[c].start)
      BY <1>0, <1>1 DEF IInv, RuntimeAsFar, Touched, Target
    <3>2. ChangedQueues(cmd[c].before.settings, cmd[c].after.settings)'
          = ChangedQueues(cmd[c].before.settings, cmd[c].after.settings)
      BY <2>1 DEF ChangedQueues
    <3>3. up' /\ lost' = 0 => Live(Target(c), Queues \ Touched(c))'
      BY <1>0, <1>1, <2>1, <3>1, <3>2 DEF Live, Touched, Target
    <3> QED BY <2>1, <2>2, <3>3 DEF RuntimeAsFar, Applying
  <2>6. FailedRecoveryTold'
    BY <1>1 DEF IInv, FailedRecoveryTold, ApplyState
  <2> QED BY <1>0, <1>1, <2>1, <2>2, <2>3, <2>4, <2>5, <2>6
<1>2. CASE cmd[c].recovering /\ Recovered(c, FALSE)
  <2>1. stored.revision = Desired(c)
    BY <1>0, <1>2 DEF Desired
  <2> QED BY <1>0, <1>2, <2>1, RecoveredKeeps
<1> QED BY <1>1, <1>2 DEF Failed

LEMMA GatesKeeps ==
  ASSUME IInv, NEW c \in Commands, Gates(c)
  PROVE  IInv'
<1> DEFINE before == cmd[c].before.settings
           after == cmd[c].after.settings
           queues == ChangedQueues(before, after)
<1>0. /\ cmd \in [Commands -> Command] /\ TypeOK /\ InChain
      /\ cmd[c].phase = "gates" /\ Running(c) /\ ~cmd[c].recovering
      /\ UNCHANGED <<stored, workers, applied, up, lost, faults>>
      /\ stored = cmd[c].after /\ lost < stored.revision
      /\ stored.revision \in Nat /\ lost \in Nat
  BY TypesOfCommands DEF Gates, IInv, TypeOK, States, Running, RowIsItsOwn, Remaining
<1>1. cmd[c].op \in Ops /\ before \in Settings /\ after = Candidate(cmd[c].op, before)
  <2>1. /\ cmd[c].op \in Ops
        /\ cmd[c].after = [revision |-> cmd[c].before.revision + 1,
                           settings |-> Candidate(cmd[c].op, cmd[c].before.settings)]
    BY <1>0 DEF IInv, Asked
  <2>2. cmd[c].before \in States
    BY <1>0 DEF Command
  <2> QED BY <2>1, <2>2 DEF States
<1>2. after \in Settings /\ queues \subseteq Queues
  BY <1>1, CandidateType DEF ChangedQueues
<1>3. up /\ lost = 0 => Live(before, Queues)
  BY <1>0 DEF IInv, RuntimeAsFar
<1>4. gate' = IF cmd[c].op.kind \in {"service", "legacy"} THEN after.gate ELSE gate
  BY DEF Gates
<1>5. gate' \in 0..1
  BY <1>0, <1>2, <1>4 DEF TypeOK, Settings
<1>6. up /\ lost = 0 => gate' = after.gate
  BY <1>1, <1>3, <1>4, CandidateType DEF Live
<1>7. \A q \in Queues \ queues : Wanted(before, q) = Wanted(after, q)
  BY <1>1, <1>2, SameWorkers
<1>8. CASE queues = {} /\ Published(c)
  <2>1. up' /\ lost' = 0 => Live(stored.settings, Queues)'
    BY <1>0, <1>3, <1>6, <1>7, <1>8 DEF Live
  <2>2. /\ lastApply' \in Application /\ chain' \in Seq(Commands) /\ cmd' \in [Commands -> Command]
        /\ InChain' /\ Asked' /\ RowIsItsOwn' /\ Remaining' /\ RuntimeAsFar'
        /\ FailedRecoveryTold'
    BY <1>0, <1>8, <2>1, PublishedKeeps
  <2>3. TypeOK'
    BY <1>0, <1>5, <2>2 DEF TypeOK, Command, Phases, Application
  <2> QED BY <2>2, <2>3 DEF IInv
<1>9. CASE /\ cmd' = [cmd EXCEPT ![c].phase = "off", ![c].op = NoOp,
                                 ![c].off = queues, ![c].start = queues]
           /\ UNCHANGED <<chain, lastApply>>
  <2>1. /\ cmd' \in [Commands -> Command]
        /\ \A d \in Commands \ {c} : cmd'[d] = cmd[d]
        /\ cmd'[c].phase = "off" /\ cmd'[c].off = queues /\ cmd'[c].start = queues
        /\ cmd'[c].before = cmd[c].before /\ cmd'[c].after = cmd[c].after
        /\ ~cmd'[c].recovering
    <3>1. PICK s \in SUBSET Queues : s = queues
      BY <1>2
    <3>2. [cmd[c] EXCEPT !.phase = "off", !.op = NoOp, !.off = s, !.start = s] \in Command
      BY <1>0 DEF Command, Phases
    <3>3. cmd' = [cmd EXCEPT ![c].phase = "off", ![c].op = NoOp, ![c].off = s, ![c].start = s]
      BY <1>9, <3>1
    <3> HIDE DEF queues, before, after
    <3>4. cmd' \in [Commands -> Command] /\ \A d \in Commands \ {c} : cmd'[d] = cmd[d]
      BY <1>0, <3>2, <3>3
    <3>5. cmd'[c].phase = "off" /\ cmd'[c].off = s /\ cmd'[c].start = s
      BY <1>0, <3>3 DEF Command
    <3>6. /\ cmd'[c].before = cmd[c].before /\ cmd'[c].after = cmd[c].after
          /\ cmd'[c].recovering = cmd[c].recovering
      BY <1>0, <3>3 DEF Command
    <3> QED BY <1>0, <3>1, <3>4, <3>5, <3>6
  <2>2. InChain' /\ \A d \in Commands \ {c} : cmd'[d].phase \in {"idle", "queued"}
    BY <1>0, <1>9, <2>1, GoesOn DEF Running
  <2>3. TypeOK'
    BY <1>0, <1>5, <1>9, <2>1 DEF TypeOK, Command, Phases
  <2>4. ChangedQueues(cmd[c].before.settings, cmd[c].after.settings)' = queues
    BY <2>1 DEF ChangedQueues
  <2>5. Asked' /\ Remaining'
    BY <2>1, <2>2, <2>4 DEF Asked, Remaining
  <2>6. RowIsItsOwn'
    BY <1>0, <2>1, <2>2 DEF RowIsItsOwn, Applying
  <2>7. up' /\ lost' = 0 => Live(Target(c), Queues \ Touched(c))'
    BY <1>0, <1>3, <1>6, <1>7, <2>1 DEF Live, Target, Touched
  <2>8. RuntimeAsFar'
    BY <2>1, <2>2, <2>7 DEF RuntimeAsFar, Applying
  <2>9. FailedRecoveryTold'
    BY <1>0 DEF FailedRecoveryTold
  <2> QED BY <2>2, <2>3, <2>5, <2>6, <2>8, <2>9 DEF IInv
<1> QED BY <1>8, <1>9 DEF Gates

LEMMA OffKeeps ==
  ASSUME IInv, NEW c \in Commands, Off(c)
  PROVE  IInv'
<1>0. /\ cmd \in [Commands -> Command] /\ TypeOK /\ InChain
      /\ cmd[c].phase = "off" /\ Running(c) /\ Applying(c)
      /\ cmd[c].off \subseteq cmd[c].start
      /\ UNCHANGED <<stored, gate, up>>
  BY TypesOfCommands DEF Off, IInv, TypeOK, Running, Applying, Remaining
<1>1. PICK q \in cmd[c].off :
        \/ /\ workers' = [workers EXCEPT ![q] = 0]
           /\ applied' = [applied EXCEPT ![q] = 0]
           /\ cmd' = [cmd EXCEPT ![c].off = @ \ {q},
                          ![c].phase = IF cmd[c].off = {q} THEN "start" ELSE @]
           /\ UNCHANGED <<chain, lastApply, lost, faults>>
        \/ /\ Fault
           /\ Failed(c)
           /\ UNCHANGED <<workers, applied>>
  BY DEF Off
<1>2. q \in Queues /\ q \in cmd[c].start
  BY <1>0 DEF Command
<1>3. CASE /\ workers' = [workers EXCEPT ![q] = 0]
           /\ applied' = [applied EXCEPT ![q] = 0]
           /\ cmd' = [cmd EXCEPT ![c].off = @ \ {q},
                          ![c].phase = IF cmd[c].off = {q} THEN "start" ELSE @]
           /\ UNCHANGED <<chain, lastApply, lost, faults>>
  <2>1. PICK p \in {"off", "start"} : cmd' = [cmd EXCEPT ![c].off = @ \ {q}, ![c].phase = p]
    <3>1. CASE cmd[c].off = {q}
      BY <3>1, <1>3
    <3>2. CASE cmd[c].off # {q}
      BY <3>2, <1>0, <1>3
    <3> QED BY <3>1, <3>2
  <2>2. /\ cmd' \in [Commands -> Command]
        /\ \A d \in Commands \ {c} : cmd'[d] = cmd[d]
        /\ cmd'[c].phase = p /\ cmd'[c].off = cmd[c].off \ {q} /\ cmd'[c].start = cmd[c].start
        /\ cmd'[c].before = cmd[c].before /\ cmd'[c].after = cmd[c].after
        /\ cmd'[c].recovering = cmd[c].recovering /\ cmd'[c].restored = cmd[c].restored
    <3>1. [cmd[c] EXCEPT !.off = @ \ {q}, !.phase = p] \in Command
      BY <1>0, <1>2 DEF Command, Phases
    <3>2. cmd' \in [Commands -> Command] /\ \A d \in Commands \ {c} : cmd'[d] = cmd[d]
      BY <1>0, <2>1, <3>1
    <3>3. cmd'[c].phase = p /\ cmd'[c].off = cmd[c].off \ {q} /\ cmd'[c].start = cmd[c].start
      BY <1>0, <2>1 DEF Command
    <3>4. cmd'[c].before = cmd[c].before /\ cmd'[c].after = cmd[c].after
      BY <1>0, <2>1 DEF Command
    <3>5. cmd'[c].recovering = cmd[c].recovering /\ cmd'[c].restored = cmd[c].restored
      BY <1>0, <2>1 DEF Command
    <3> QED BY <3>2, <3>3, <3>4, <3>5
  <2>3. InChain' /\ \A d \in Commands \ {c} : cmd'[d].phase \in {"idle", "queued"}
    BY <1>0, <1>3, <2>2, GoesOn DEF Running
  <2>4. TypeOK'
    <3>1. workers' \in [Queues -> 0..MaxConcurrency] /\ applied' \in [Queues -> 0..MaxConcurrency]
      BY <1>0, <1>2, <1>3, ConcurrencyAssumption DEF TypeOK
    <3> QED BY <1>0, <1>3, <2>2, <3>1 DEF TypeOK, Command, Phases
  <2>5. ChangedQueues(cmd[c].before.settings, cmd[c].after.settings)'
        = ChangedQueues(cmd[c].before.settings, cmd[c].after.settings)
    BY <2>2 DEF ChangedQueues
  <2>6. Asked' /\ Remaining'
    BY <1>0, <2>2, <2>3, <2>5 DEF IInv, Asked, Remaining
  <2>7. RowIsItsOwn'
    BY <1>0, <1>3, <2>2, <2>3 DEF IInv, RowIsItsOwn, Applying
  <2>8. up' /\ lost' = 0 => Live(Target(c), Queues \ Touched(c))'
    <3>1. up /\ lost = 0 => Live(Target(c), Queues \ cmd[c].start)
      BY <1>0 DEF IInv, RuntimeAsFar, Touched
    <3>2. \A r \in Queues \ cmd[c].start : workers'[r] = workers[r] /\ applied'[r] = applied[r]
      BY <1>0, <1>2, <1>3 DEF TypeOK
    <3> QED BY <1>0, <1>3, <2>2, <3>1, <3>2 DEF Live, Target, Touched
  <2>9. RuntimeAsFar'
    BY <2>2, <2>3, <2>8 DEF RuntimeAsFar, Applying
  <2>10. FailedRecoveryTold'
    BY <1>0, <1>3 DEF IInv, FailedRecoveryTold, ApplyState
  <2> QED BY <2>3, <2>4, <2>6, <2>7, <2>9, <2>10 DEF IInv
<1>4. CASE Fault /\ Failed(c) /\ UNCHANGED <<workers, applied>>
  <2>1. /\ lastApply' \in Application /\ chain' \in Seq(Commands) /\ cmd' \in [Commands -> Command]
        /\ lost' \in Nat
        /\ InChain' /\ Asked' /\ RowIsItsOwn' /\ Remaining' /\ RuntimeAsFar'
        /\ FailedRecoveryTold'
    BY <1>0, <1>4, FailedKeeps
  <2>2. TypeOK'
    BY <1>0, <1>4, <2>1, BoundsAssumption DEF TypeOK, Command, Phases, Application, Fault
  <2> QED BY <2>1, <2>2 DEF IInv
<1> QED BY <1>1, <1>3, <1>4

LEMMA StartKeeps ==
  ASSUME IInv, NEW c \in Commands, Start(c)
  PROVE  IInv'
<1>0. /\ cmd \in [Commands -> Command] /\ TypeOK /\ InChain
      /\ cmd[c].phase = "start" /\ Running(c) /\ Applying(c)
      /\ UNCHANGED <<stored, gate, up>>
      /\ lost < stored.revision /\ lost \in Nat /\ stored.revision \in Nat
      /\ stored = IF cmd[c].recovering /\ cmd[c].restored
                  THEN [revision |-> cmd[c].after.revision + 1, settings |-> cmd[c].before.settings]
                  ELSE cmd[c].after
      /\ cmd[c].before \in States /\ cmd[c].after \in States /\ cmd[c].restored \in BOOLEAN
  BY TypesOfCommands DEF Start, IInv, TypeOK, States, Running, Applying, RowIsItsOwn, Command
<1>1. PICK target \in Settings : target = Target(c)
  BY <1>0 DEF Target, States
<1>2. PICK q \in cmd[c].start :
        \/ /\ workers' = [workers EXCEPT ![q] = Wanted(target, q)]
           /\ applied' = [applied EXCEPT ![q] = Wanted(target, q)]
           /\ \/ /\ cmd[c].start # {q}
                 /\ cmd' = [cmd EXCEPT ![c].start = @ \ {q}]
                 /\ UNCHANGED <<chain, lastApply, lost>>
              \/ /\ cmd[c].start = {q} /\ ~cmd[c].recovering
                 /\ Published(c)
                 /\ UNCHANGED lost
              \/ /\ cmd[c].start = {q} /\ cmd[c].recovering
                 /\ Recovered(c, cmd[c].restored)
           /\ UNCHANGED faults
        \/ /\ Fault
           /\ \E n \in 0..MaxConcurrency :
                  /\ n < Wanted(target, q)
                  /\ workers' = [workers EXCEPT ![q] = n]
           /\ Failed(c)
           /\ UNCHANGED applied
  BY <1>1 DEF Start, Target
<1>3. q \in Queues /\ Wanted(target, q) \in 0..MaxConcurrency
  BY <1>0, WantedType DEF Command
<1>4. up /\ lost = 0 => Live(target, Queues \ cmd[c].start)
  BY <1>0, <1>1 DEF IInv, RuntimeAsFar, Touched
<1>5. CASE /\ workers' = [workers EXCEPT ![q] = Wanted(target, q)]
           /\ applied' = [applied EXCEPT ![q] = Wanted(target, q)]
           /\ \/ /\ cmd[c].start # {q}
                 /\ cmd' = [cmd EXCEPT ![c].start = @ \ {q}]
                 /\ UNCHANGED <<chain, lastApply, lost>>
              \/ /\ cmd[c].start = {q} /\ ~cmd[c].recovering
                 /\ Published(c)
                 /\ UNCHANGED lost
              \/ /\ cmd[c].start = {q} /\ cmd[c].recovering
                 /\ Recovered(c, cmd[c].restored)
           /\ UNCHANGED faults
  <2>1. workers' \in [Queues -> 0..MaxConcurrency] /\ applied' \in [Queues -> 0..MaxConcurrency]
    BY <1>0, <1>3, <1>5 DEF TypeOK
  <2>2. up' /\ lost = 0 =>
          /\ gate' = target.gate
          /\ \A r \in Queues \ (cmd[c].start \ {q}) :
               workers'[r] = Wanted(target, r) /\ applied'[r] = Wanted(target, r)
    BY <1>0, <1>3, <1>4, <1>5 DEF TypeOK, Live
  <2>3. CASE /\ cmd[c].start # {q}
             /\ cmd' = [cmd EXCEPT ![c].start = @ \ {q}]
             /\ UNCHANGED <<chain, lastApply, lost>>
    <3>1. /\ cmd' \in [Commands -> Command]
          /\ \A d \in Commands \ {c} : cmd'[d] = cmd[d]
          /\ cmd'[c].phase = "start" /\ cmd'[c].start = cmd[c].start \ {q}
          /\ cmd'[c].before = cmd[c].before /\ cmd'[c].after = cmd[c].after
          /\ cmd'[c].recovering = cmd[c].recovering /\ cmd'[c].restored = cmd[c].restored
      BY <1>0, <1>3, <2>3, StartNext
    <3>2. InChain' /\ \A d \in Commands \ {c} : cmd'[d].phase \in {"idle", "queued"}
      BY <1>0, <2>3, <3>1, GoesOn DEF Running
    <3>3. TypeOK'
      BY <1>0, <1>5, <2>1, <2>3, <3>1 DEF TypeOK, Command, Phases
    <3>4. ChangedQueues(cmd[c].before.settings, cmd[c].after.settings)'
          = ChangedQueues(cmd[c].before.settings, cmd[c].after.settings)
      BY <3>1 DEF ChangedQueues
    <3>5. Asked' /\ Remaining'
      BY <1>0, <3>1, <3>2, <3>4 DEF IInv, Asked, Remaining
    <3>6. RowIsItsOwn'
      BY <1>0, <2>3, <3>1, <3>2 DEF IInv, RowIsItsOwn, Applying
    <3>7. Target(c)' = target /\ Touched(c)' = cmd[c].start \ {q}
      BY <1>1, <3>1 DEF Target, Touched
    <3>8. up' /\ lost' = 0 => Live(Target(c), Queues \ Touched(c))'
      BY <2>2, <2>3, <3>7 DEF Live
    <3>9. RuntimeAsFar'
      BY <3>1, <3>2, <3>8 DEF RuntimeAsFar, Applying
    <3>10. FailedRecoveryTold'
      BY <1>0, <2>3 DEF IInv, FailedRecoveryTold, ApplyState
    <3> QED BY <3>2, <3>3, <3>5, <3>6, <3>9, <3>10 DEF IInv
  <2>4. CASE cmd[c].start = {q} /\ ~cmd[c].recovering /\ Published(c) /\ UNCHANGED lost
    <3>1. target = stored.settings /\ stored = cmd[c].after
      BY <1>0, <1>1, <2>4 DEF Target
    <3>2. up' /\ lost' = 0 => Live(stored.settings, Queues)'
      BY <1>0, <2>2, <2>4, <3>1 DEF Live
    <3>3. /\ lastApply' \in Application /\ chain' \in Seq(Commands) /\ cmd' \in [Commands -> Command]
          /\ InChain' /\ Asked' /\ RowIsItsOwn' /\ Remaining' /\ RuntimeAsFar'
          /\ FailedRecoveryTold'
      BY <1>0, <2>4, <3>1, <3>2, PublishedKeeps
    <3>4. TypeOK'
      BY <1>0, <1>5, <2>1, <2>4, <3>3 DEF TypeOK, Command, Phases, Application
    <3> QED BY <3>3, <3>4 DEF IInv
  <2>5. CASE cmd[c].start = {q} /\ cmd[c].recovering /\ Recovered(c, cmd[c].restored)
    <3>1. PICK ok \in BOOLEAN : ok = cmd[c].restored
      BY <1>0
    <3>2. Recovered(c, ok)
      BY <2>5, <3>1
    <3>3. stored.revision = Desired(c)
      BY <1>0, <2>5 DEF Desired
    <3>4. up' /\ lost' = 0 /\ ok => Live(stored.settings, Queues)'
      <4> SUFFICES ASSUME up', lost' = 0, ok
                   PROVE  Live(stored.settings, Queues)'
        OBVIOUS
      <4>1. lost = 0
        BY <3>2 DEF Recovered
      <4>2. stored.settings = target
        BY <1>0, <1>1, <2>5, <3>1 DEF Target
      <4> QED BY <1>0, <2>2, <2>5, <4>1, <4>2 DEF Live
    <3>5. /\ lastApply' \in Application /\ chain' \in Seq(Commands) /\ cmd' \in [Commands -> Command]
          /\ lost' \in Nat
          /\ InChain' /\ Asked' /\ RowIsItsOwn' /\ Remaining' /\ RuntimeAsFar'
          /\ FailedRecoveryTold'
      BY <1>0, <3>2, <3>3, <3>4, RecoveredKeeps
    <3>6. TypeOK'
      BY <1>0, <1>5, <2>1, <3>5 DEF TypeOK, Command, Phases, Application
    <3> QED BY <3>5, <3>6 DEF IInv
  <2> QED BY <1>5, <2>3, <2>4, <2>5
<1>6. CASE /\ Fault
           /\ \E n \in 0..MaxConcurrency : workers' = [workers EXCEPT ![q] = n]
           /\ Failed(c)
           /\ UNCHANGED applied
  <2>1. workers' \in [Queues -> 0..MaxConcurrency]
    BY <1>0, <1>3, <1>6 DEF TypeOK
  <2>2. \A r \in Queues \ cmd[c].start : workers'[r] = workers[r] /\ applied'[r] = applied[r]
    BY <1>0, <1>6 DEF TypeOK
  <2>3. /\ lastApply' \in Application /\ chain' \in Seq(Commands) /\ cmd' \in [Commands -> Command]
        /\ lost' \in Nat
        /\ InChain' /\ Asked' /\ RowIsItsOwn' /\ Remaining' /\ RuntimeAsFar'
        /\ FailedRecoveryTold'
    BY <1>0, <1>6, <2>2, FailedKeeps
  <2>4. TypeOK'
    BY <1>0, <1>6, <2>1, <2>3, BoundsAssumption DEF TypeOK, Command, Phases, Application, Fault
  <2> QED BY <2>3, <2>4 DEF IInv
<1> QED BY <1>2, <1>5, <1>6

LEMMA RestoreKeeps ==
  ASSUME IInv, NEW c \in Commands, Restore(c)
  PROVE  IInv'
<1> DEFINE before == cmd[c].before.settings
           after == cmd[c].after.settings
           queues == ChangedQueues(before, after)
<1>0. /\ cmd \in [Commands -> Command] /\ TypeOK /\ InChain
      /\ cmd[c].phase = "restore" /\ Running(c) /\ Applying(c) /\ ~cmd[c].recovering
      /\ UNCHANGED <<workers, applied, lastApply, chain, up, lost>>
      /\ stored = cmd[c].after /\ lost < stored.revision
      /\ stored.revision \in Nat /\ lost \in Nat
      /\ before \in Settings /\ after \in Settings /\ gate' = before.gate
  BY TypesOfCommands
     DEF Restore, IInv, TypeOK, States, Running, Applying, RowIsItsOwn, Remaining, Command
<1>1. queues \subseteq Queues
  BY DEF ChangedQueues
<1>2. PICK ok \in BOOLEAN :
        /\ \/ ok /\ stored' = BeforeImage(c) /\ UNCHANGED faults
           \/ ~ok /\ Fault /\ UNCHANGED stored
        /\ cmd' = [cmd EXCEPT ![c].phase = "off", ![c].recovering = TRUE,
                       ![c].restored = ok, ![c].off = queues, ![c].start = queues]
  BY DEF Restore
<1>3. /\ cmd' \in [Commands -> Command]
      /\ \A d \in Commands \ {c} : cmd'[d] = cmd[d]
      /\ cmd'[c].phase = "off" /\ cmd'[c].off = queues /\ cmd'[c].start = queues
      /\ cmd'[c].before = cmd[c].before /\ cmd'[c].after = cmd[c].after
      /\ cmd'[c].recovering /\ (cmd'[c].restored <=> ok)
  <2>1. PICK s \in SUBSET Queues : s = queues
    BY <1>1
  <2>2. [cmd[c] EXCEPT !.phase = "off", !.recovering = TRUE, !.restored = ok, !.off = s, !.start = s]
        \in Command
    BY <1>0 DEF Command, Phases
  <2>3. cmd' = [cmd EXCEPT ![c].phase = "off", ![c].recovering = TRUE, ![c].restored = ok,
                          ![c].off = s, ![c].start = s]
    BY <1>2, <2>1
  <2> HIDE DEF queues, before, after
  <2>4. cmd' \in [Commands -> Command] /\ \A d \in Commands \ {c} : cmd'[d] = cmd[d]
    BY <1>0, <2>2, <2>3
  <2>5. cmd'[c].phase = "off" /\ cmd'[c].off = s /\ cmd'[c].start = s
    BY <1>0, <2>3 DEF Command
  <2>6. cmd'[c].before = cmd[c].before /\ cmd'[c].after = cmd[c].after
    BY <1>0, <2>3 DEF Command
  <2>7. cmd'[c].recovering /\ (cmd'[c].restored <=> ok)
    BY <1>0, <2>3 DEF Command
  <2> QED BY <2>1, <2>4, <2>5, <2>6, <2>7
<1>4. /\ stored' = IF ok THEN [revision |-> cmd[c].after.revision + 1, settings |-> before]
                   ELSE cmd[c].after
      /\ stored' \in States /\ lost' < stored'.revision
      /\ faults' \in 0..MaxFaults
  BY <1>0, <1>2, BoundsAssumption DEF BeforeImage, Fault, States, TypeOK
<1>5. InChain' /\ \A d \in Commands \ {c} : cmd'[d].phase \in {"idle", "queued"}
  BY <1>0, <1>3, GoesOn DEF Running
<1>6. TypeOK'
  <2>1. gate' \in 0..1
    BY <1>0 DEF Settings
  <2> QED BY <1>0, <1>3, <1>4, <2>1 DEF TypeOK, Command, Phases
<1>7. ChangedQueues(cmd[c].before.settings, cmd[c].after.settings)' = queues
  BY <1>3 DEF ChangedQueues
<1>8. Asked' /\ Remaining'
  BY <1>3, <1>5, <1>7 DEF Asked, Remaining
<1>9. RowIsItsOwn'
  BY <1>0, <1>3, <1>4, <1>5 DEF RowIsItsOwn, Applying
<1>10. up' /\ lost' = 0 => Live(Target(c), Queues \ Touched(c))'
  <2>1. up /\ lost = 0 => Live(after, Queues \ queues)
    BY <1>0 DEF IInv, RuntimeAsFar, Target, Touched
  <2>2. \A q \in Queues \ queues : Wanted(before, q) = Wanted(after, q)
    BY <1>0, SameWorkers
  <2>3. Target(c)' = before /\ Touched(c)' = queues
    BY <1>3 DEF Target, Touched
  <2> QED BY <1>0, <2>1, <2>2, <2>3 DEF Live
<1>11. RuntimeAsFar'
  BY <1>3, <1>5, <1>10 DEF RuntimeAsFar, Applying
<1>12. FailedRecoveryTold'
  BY <1>0, <1>4 DEF FailedRecoveryTold
<1> QED BY <1>5, <1>6, <1>8, <1>9, <1>11, <1>12 DEF IInv

LEMMA ResumedKeeps ==
  ASSUME IInv, NEW c \in Commands, Resumed(c)
  PROVE  IInv'
<1>0. /\ cmd \in [Commands -> Command] /\ TypeOK /\ InChain
      /\ cmd[c].phase = "resume" /\ Running(c) /\ End(c)
      /\ UNCHANGED <<stored, live, up, lost>>
      /\ lost < stored.revision /\ stored.revision \in Nat /\ lost \in Nat
  BY TypesOfCommands DEF Resumed, IInv, TypeOK, States, Running, RowIsItsOwn
<1>1. \A d \in Commands \ {c} : cmd[d].phase \in {"idle", "queued"}
  BY <1>0, OthersRest
<1>2. up /\ lost = 0 => Live(stored.settings, Queues)
  BY <1>0, <1>1 DEF IInv, RuntimeAsFar
<1>3. /\ chain' \in Seq(Commands) /\ cmd' \in [Commands -> Command]
      /\ InChain' /\ AtRest'
  BY <1>0, EndLeaves
<1>4. Asked' /\ RowIsItsOwn' /\ Remaining' /\ RuntimeAsFar'
  BY <1>0, <1>2, <1>3, RestHolds DEF Live, live
<1>5. lastApply' \in Application /\ faults' \in 0..MaxFaults
  <2>1. CASE UNCHANGED <<lastApply, faults>>
    BY <2>1, <1>0 DEF TypeOK, Application
  <2>2. CASE Fault /\ lastApply' = [lastApply EXCEPT !.status = "APPLIED_WITH_WARNINGS"]
    <3>1. lastApply' \in Application
      BY <2>2, <1>0 DEF TypeOK, Application
    <3>2. faults' \in 0..MaxFaults
      BY <2>2, <1>0, BoundsAssumption DEF TypeOK, Fault
    <3> QED BY <3>1, <3>2
  <2> QED BY <2>1, <2>2 DEF Resumed
<1>6. TypeOK'
  BY <1>0, <1>3, <1>5 DEF TypeOK, live, Command, Phases, Application
<1>7. FailedRecoveryTold'
  BY <1>0 DEF FailedRecoveryTold
<1> QED BY <1>3, <1>4, <1>6, <1>7 DEF IInv

(* A crash forgets everything but the row; a boot reads it.                 *)
LEMMA CrashKeeps ==
  ASSUME IInv, Crash
  PROVE  IInv'
<1>1. /\ up' = FALSE /\ stored' = stored /\ lost' = lost /\ lost <= stored.revision
      /\ cmd' \in [Commands -> Command] /\ chain' \in Seq(Commands)
      /\ \A c \in Commands : cmd'[c].phase = "idle"
  BY DefaultsType DEF Crash, IInv, RowIsItsOwn, NoCommand
<1>2. lastApply' \in Application /\ faults' \in 0..MaxFaults
  BY BoundsAssumption DEF Crash, NoApply, Application, Fault, IInv, TypeOK
<1>3. /\ workers' \in [Queues -> 0..MaxConcurrency] /\ applied' \in [Queues -> 0..MaxConcurrency]
      /\ gate' \in 0..1
  BY ConcurrencyAssumption DEF Crash
<1>4. TypeOK'
  BY <1>1, <1>2, <1>3 DEF IInv, TypeOK, Command, Phases, Application
<1> QED BY <1>1, <1>4 DEF IInv, InChain, Running, Asked, RowIsItsOwn, Remaining, RuntimeAsFar, Applying,
     FailedRecoveryTold

LEMMA BootKeeps ==
  ASSUME IInv, Boot
  PROVE  IInv'
<1>1. /\ TypeOK /\ stored \in States /\ up' = TRUE /\ lost' = 0
      /\ gate' = stored.settings.gate
      /\ UNCHANGED <<stored, lastApply, chain, cmd, faults>>
      /\ \A c \in Commands : cmd[c].phase = "idle"
  BY DEF IInv, TypeOK, Boot, InChain
<1>2. /\ workers' \in [Queues -> 0..MaxConcurrency] /\ applied' \in [Queues -> 0..MaxConcurrency]
      /\ gate' \in 0..1
  BY <1>1, WantedType DEF Boot, States, Settings
<1>3. TypeOK'
  BY <1>1, <1>2 DEF TypeOK
<1>4. Live(stored.settings, Queues)'
  BY <1>1 DEF Live, Boot
<1>5. lost' <= stored'.revision /\ stored.revision \in Nat
  BY <1>1 DEF States
<1> QED
  BY <1>1, <1>3, <1>4, <1>5 DEF IInv, InChain, Running, Asked, RowIsItsOwn, Remaining, RuntimeAsFar,
     Applying, FailedRecoveryTold

LEMMA StepKeeps ==
  ASSUME IInv, [Next]_vars
  PROVE  IInv'
<1>1. CASE UNCHANGED vars
  BY <1>1 DEF vars, IInv, TypeOK, InChain, Running, Asked, RowIsItsOwn, Remaining, RuntimeAsFar, Live,
     Applying, Target, Touched, FailedRecoveryTold, ApplyState
<1>2. CASE Next
  BY <1>2, SendKeeps, ReadKeeps, PersistKeeps, GatesKeeps, OffKeeps, StartKeeps, RestoreKeeps,
     ResumedKeeps, CrashKeeps, BootKeeps DEF Next, Step
<1> QED BY <1>1, <1>2

-----------------------------------------------------------------------------
(* The chain, the row and the runtime fit each other in every state.        *)
THEOREM Invariant == Spec => []IInv
<1>1. Init => IInv
  BY InitHolds
<1>2. IInv /\ [Next]_vars => IInv'
  BY StepKeeps
<1> QED BY <1>1, <1>2, PTL DEF Spec

(* The control plane's variables keep their types, the settings among them: *)
(* whatever a command sends, the row holds settings.                        *)
THEOREM TypeCorrect == Spec => []TypeOK
<1>1. IInv => TypeOK
  BY DEF IInv
<1> QED BY <1>1, Invariant, PTL

(* Between commands the gates and the workers are what the row says, for    *)
(* any number of queues, commands and failures, unless a recovery failed.   *)
THEOREM RuntimeIsTheRow == Spec => []RuntimeFollowsStored
<1>1. IInv => RuntimeFollowsStored
  <2> SUFFICES ASSUME IInv, up, chain = << >>, lost = 0
               PROVE  RuntimeIsDesired
    BY DEF RuntimeFollowsStored
  <2>1. \A c \in Commands : cmd[c].phase = "idle"
    BY DEF IInv, InChain
  <2>2. Live(stored.settings, Queues)
    BY <2>1 DEF IInv, RuntimeAsFar
  <2>3. workers \in [Queues -> 0..MaxConcurrency] /\ applied \in [Queues -> 0..MaxConcurrency]
    BY DEF IInv, TypeOK
  <2> QED BY <2>2, <2>3 DEF Live, RuntimeIsDesired
<1> QED BY <1>1, Invariant, PTL

(* A recovery that failed is told by every snapshot of the revision that it *)
(* left.                                                                    *)
THEOREM FailuresAreTold == Spec => []FailedRecoveryTold
<1>1. IInv => FailedRecoveryTold
  BY DEF IInv
<1> QED BY <1>1, Invariant, PTL

(* The settings row is only written over by who has read it.                *)
THEOREM NothingUnreadIsLost == Spec => NoUnreadOverwrite
<1>1. IInv /\ [Next]_vars =>
        [stored' # stored =>
          \E c \in Commands :
              \/ /\ cmd[c].phase = "persist"
                 /\ \/ cmd[c].op.kind = "legacy" /\ cmd[c].before = stored
                    \/ cmd[c].expected = stored.revision
              \/ cmd[c].phase = "restore" /\ cmd[c].after = stored]_vars
  <2> SUFFICES ASSUME IInv, Next, stored' # stored
               PROVE  \E c \in Commands :
                        \/ /\ cmd[c].phase = "persist"
                           /\ \/ cmd[c].op.kind = "legacy" /\ cmd[c].before = stored
                              \/ cmd[c].expected = stored.revision
                        \/ cmd[c].phase = "restore" /\ cmd[c].after = stored
    OBVIOUS
  <2>1. PICK c \in Commands : Persist(c) \/ Restore(c)
    BY DEF Next, Step, Crash, Boot, Send, Read, Gates, Off, Start, Resumed
  <2>2. CASE Persist(c)
    BY <2>2 DEF Persist, IInv, RowIsItsOwn
  <2>3. CASE Restore(c)
    BY <2>3 DEF Restore, IInv, RowIsItsOwn
  <2> QED BY <2>1, <2>2, <2>3
<1> QED BY <1>1, Invariant, PTL DEF Spec, NoUnreadOverwrite
=============================================================================
