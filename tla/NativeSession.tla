----------------------------- MODULE NativeSession -----------------------------
(***************************************************************************)
(* The native side of a connect.  The UI process authenticates (AuthForms) *)
(* and hands a cookie to the VPN Extension, which resumes the session,     *)
(* gateway after gateway, attaches the descriptor of the tunnel and runs   *)
(* OpenConnect's mainloop.  Every socket of OpenConnect must be protected  *)
(* by the VpnConnection of its attempt: the registration of its callback,  *)
(* the operation that captured it, and the error it left behind.           *)
(*                                                                         *)
(* An attempt a has one VpnConnection and one registration, both called a; *)
(* 0 is none.  A worker is a thread: one that the ability gave up on, or   *)
(* could not join in time, runs on beside those of the next attempts.      *)
(***************************************************************************)
EXTENDS AuthForms

CONSTANTS
  MaxAttempt, \* bound on the attempts
  Gateways    \* the server and its backups, in order

ASSUME SessionAssumption == MaxAttempt \in Nat \ {0} /\ Gateways \in Nat \ {0}

VARIABLES
  ability,    \* where the Extension ability is
  attempt,    \* the attempt of the engine and the ability
  registered, \* the protect callback in the registry
  opening,    \* the attempt whose attach_tun has not returned
  generation, \* of the engine
  outcome,    \* platform_start_outcome
  lifecycle,  \* the snapshot's: "Establishing" stands for the ones on the way
  pending,    \* the attempt whose client waits for its tunnel
  running,    \* the attempt whose mainloop the engine holds
  worker,     \* attempt -> its thread
  error,      \* registration -> is a failure on its record?
  foreign     \* history: registrations that a worker of another attempt captured

abilityVars == <<ability, attempt, registered, opening>>
engineVars  == <<generation, outcome, lifecycle, pending, running>>
sessionVars == <<abilityVars, engineVars, worker, error, foreign>>
vars        == <<formVars, sessionVars>>

Attempts == 1 .. MaxAttempt
Ended    == outcome \in {"Failed", "Cancelled"}

\* pc: what the thread does; monitor: the registration its operation captured;
\* gateway: the candidate; generation: the one it was started for; bare: does a
\* socket of its client bypass protection?; cancelled: has it been told to
\* stop?; failed: did the mainloop return an error?
NoWorker == [pc |-> "none", monitor |-> 0, gateway |-> 1, generation |-> 0,
             bare |-> FALSE, cancelled |-> FALSE, failed |-> FALSE]

SessionInit ==
  /\ ability = "idle" /\ attempt = 0 /\ registered = 0 /\ opening = 0
  /\ generation = 0 /\ outcome = "Pending" /\ lifecycle = "Disconnected"
  /\ pending = 0 /\ running = 0
  /\ worker = [a \in Attempts |-> NoWorker]
  /\ error = [a \in Attempts |-> FALSE]
  /\ foreign = {}

Init == FormInit /\ SessionInit

-----------------------------------------------------------------------------

\* authenticate returns and takes its callbacks with it; the cookie is what
\* remains.
HandOver ==
  /\ result = "cookie"
  /\ result' = "handed"
  /\ creds' = {} /\ attended' = FALSE
  /\ form' = NoForm /\ state' = NewState /\ replies' = 0
  /\ sent' = NothingSent /\ autoSent' = {} /\ replayed' = FALSE
  /\ UNCHANGED <<fpc, sessionVars>>

\* Mutant: an operation does not raise the generation.
NotRaised == generation
Raised == generation + 1

\* performStart registers the callback of its connection and calls
\* prepare_in_extension, whose resumption runs on a thread of its own.
Start ==
  /\ result = "handed" /\ ability = "idle" /\ attempt < MaxAttempt
  /\ attempt' = attempt + 1 /\ registered' = attempt'
  /\ generation' = Raised
  /\ outcome' = "Pending" /\ lifecycle' = "Establishing"
  /\ worker' = [worker EXCEPT ![attempt'] =
                  [NoWorker EXCEPT !.pc = "candidate", !.generation = generation']]
  /\ ability' = "preparing"
  /\ UNCHANGED <<formVars, opening, pending, running, error, foreign>>

Moves(a, pc) == worker' = [worker EXCEPT ![a].pc = pc]

\* begin_operation captures the registration of the moment, whoever made it,
\* and clears its record.
BeginOperation(a) ==
  /\ worker[a].pc = "candidate"
  /\ registered # 0
  /\ worker' = [worker EXCEPT ![a].pc = "cstp", ![a].monitor = registered, ![a].bare = FALSE]
  /\ error' = [error EXCEPT ![registered] = FALSE]
  /\ foreign' = IF registered = a THEN foreign ELSE foreign \union {registered}
  /\ UNCHANGED <<formVars, abilityVars, engineVars>>

\* Without a callback there is no operation, and no other gateway.
NotRegistered(a) ==
  /\ worker[a].pc = "candidate"
  /\ registered = 0
  /\ Moves(a, "gone")
  /\ UNCHANGED <<formVars, abilityVars, engineVars, error, foreign>>

\* Mutant: a failure is recorded with the registration of the moment.
MonitorOfTheMoment(a) == IF registered = 0 THEN worker[a].monitor ELSE registered

\* Where a failure to protect is recorded: with the operation's registration,
\* not with the one of the moment.
Monitor(a) == worker[a].monitor

\* OpenConnect opens a control socket, at first or in a reconnection of the
\* mainloop.  The callback of a connection the ability has dropped refuses.
OpenSocket(a) ==
  /\ worker[a].pc \in {"cstp", "dtls", "loop"}
  /\ \E protected \in BOOLEAN :
       /\ protected => registered = worker[a].monitor
       /\ IF protected THEN UNCHANGED <<error, worker>>
          ELSE /\ error' = [error EXCEPT ![Monitor(a)] = TRUE]
               /\ worker' = [worker EXCEPT ![a].bare = TRUE]
  /\ UNCHANGED <<formVars, abilityVars, engineVars, foreign>>

\* finish_operation takes the error off the record.
Refused(a) == error[worker[a].monitor]
Cleared(a) == error' = [error EXCEPT ![worker[a].monitor] = FALSE]

\* The last gateway, or a failure that is not one of the network, ends it.
CstpFails(a) ==
  /\ worker[a].pc = "cstp"
  /\ Cleared(a)
  /\ \/ /\ worker[a].gateway < Gateways
        /\ worker' = [worker EXCEPT ![a].pc = "candidate", ![a].gateway = @ + 1]
     \/ Moves(a, "gone")
  /\ UNCHANGED <<formVars, abilityVars, engineVars, foreign>>

CstpDone(a) ==
  /\ worker[a].pc = "cstp"
  /\ ~Refused(a)
  /\ Moves(a, "resumed")
  /\ UNCHANGED <<formVars, abilityVars, engineVars, error, foreign>>

\* prepare_in_extension and attach_tun discard what they come back with when
\* the engine has moved on.
Current(a) == generation = worker[a].generation /\ attempt = a /\ ~Ended

PrepareReturns(a) ==
  /\ worker[a].pc = "resumed"
  /\ IF Current(a)
       THEN /\ pending' = a /\ lifecycle' = "Establishing"
            /\ Moves(a, "pending")
            /\ ability' = IF ability = "preparing" THEN "prepared" ELSE ability
       ELSE Moves(a, "gone") /\ UNCHANGED <<pending, lifecycle, ability>>
  /\ UNCHANGED <<formVars, attempt, registered, opening, generation, outcome, running,
                 error, foreign>>

\* attach_tun takes the waiting client.  Nobody but the ability's own cleanup
\* takes it before, so it need not resume a second one.
Attach ==
  /\ ability = "prepared" /\ pending # 0
  /\ generation' = Raised
  /\ worker' = [worker EXCEPT ![pending].pc = "attach", ![pending].generation = generation']
  /\ pending' = 0 /\ opening' = pending
  /\ ability' = "attaching"
  /\ UNCHANGED <<formVars, attempt, registered, outcome, lifecycle, running, error, foreign>>

AttachGoesOn(a, ok, pc) ==
  /\ Moves(a, IF ok THEN pc ELSE "gone")
  /\ opening' = IF ok THEN opening ELSE 0
  /\ UNCHANGED <<formVars, ability, attempt, registered, engineVars, foreign>>

AttachChecks(a) ==
  /\ worker[a].pc = "attach"
  /\ AttachGoesOn(a, Current(a), "setup")
  /\ UNCHANGED error

\* spawn_mainloop: an optional DTLS channel is an operation of its own.
SetupDtls(a) ==
  /\ worker[a].pc = "setup"
  /\ AttachGoesOn(a, TRUE, "dtls")
  /\ Cleared(a)

DtlsDone(a) ==
  /\ worker[a].pc = "dtls"
  /\ AttachGoesOn(a, ~Refused(a), "spawn")
  /\ Cleared(a)

Spawn(a) ==
  /\ worker[a].pc \in {"setup", "spawn"}
  /\ AttachGoesOn(a, TRUE, "loop")
  /\ Cleared(a)

\* The thread may be over before attach_tun comes back.  A mainloop nobody
\* wants any more is cancelled; the one it replaces is only forgotten.
AttachReturns ==
  /\ opening # 0 /\ worker[opening].pc \in {"loop", "ended", "gone"}
  /\ opening' = 0
  /\ IF Current(opening) /\ lifecycle = "Establishing"
       THEN /\ running' = opening /\ outcome' = "Connected" /\ lifecycle' = "Connected"
            /\ ability' = IF ability = "attaching" THEN "running" ELSE ability
            /\ UNCHANGED worker
       ELSE /\ worker' = [worker EXCEPT ![opening].cancelled = TRUE]
            /\ UNCHANGED <<running, outcome, lifecycle, ability>>
  /\ UNCHANGED <<formVars, attempt, registered, generation, pending, error, foreign>>

\* The mainloop returns: told to, by the peer, or for a socket it could not
\* protect.
LoopEnds(a) ==
  /\ worker[a].pc = "loop"
  /\ \E failed \in {Refused(a), TRUE} :
       worker' = [worker EXCEPT ![a].pc = "ended", ![a].failed = failed]
  /\ Cleared(a)
  /\ UNCHANGED <<formVars, abilityVars, engineVars, foreign>>

\* on_native_session_ended: only the session of this generation is heard, and
\* an outcome that somebody else settled stays.
IsHeard(a) == generation = worker[a].generation
Settled == Ended \/ lifecycle \in {"Disconnected", "Disconnecting", "Failed"}

\* owner: platform_vpn_running, which a frame of the UI may have cleared.
EndNotified(a) ==
  /\ worker[a].pc = "ended"
  /\ Moves(a, "gone")
  /\ \/ /\ ~IsHeard(a)
        /\ UNCHANGED engineVars
     \/ /\ IsHeard(a)
        /\ running' = 0 /\ pending' = 0
        /\ \E owner \in BOOLEAN :
             IF Settled THEN UNCHANGED <<outcome, lifecycle>>
             ELSE IF worker[a].failed \/ (owner /\ outcome = "Connected")
             THEN outcome' = "Failed" /\ lifecycle' = "Failed"
             ELSE /\ outcome' = IF outcome = "Pending" THEN "Cancelled" ELSE outcome
                  /\ lifecycle' = "Disconnected"
        /\ UNCHANGED generation
  /\ UNCHANGED <<formVars, abilityVars, error, foreign>>

Drops == running' = 0 /\ worker' = [worker EXCEPT ![running].cancelled = TRUE]

\* tick, in the heartbeat of the ability: a socket without protection, an
\* orphan, or a mainloop that is over ends the session.
Tick ==
  /\ ability = "running" /\ running # 0
  /\ \/ /\ Refused(running)
        /\ Cleared(running) /\ Drops
        /\ generation' = Raised /\ outcome' = "Failed" /\ lifecycle' = "Failed" /\ pending' = 0
     \/ /\ ~Refused(running)
        /\ ~Current(running)
        /\ Drops /\ pending' = 0
        /\ UNCHANGED <<error, generation, outcome, lifecycle>>
  /\ UNCHANGED <<formVars, abilityVars, foreign>>

\* The UI's frame says that it gave the attempt up, or cancelled it.
Verdict ==
  /\ attempt # 0 /\ ~Ended
  /\ outcome' \in {"Failed", "Cancelled"}
  /\ lifecycle' = IF outcome' = "Failed" THEN "Failed" ELSE "Disconnected"
  /\ UNCHANGED <<formVars, abilityVars, generation, pending, running, worker, error, foreign>>

\* The engine lets go of the client that waits and of the mainloop.
Released ==
  /\ pending' = 0 /\ running' = 0
  /\ worker' = [a \in Attempts |->
       IF a = pending THEN [worker[a] EXCEPT !.pc = "gone"]
       ELSE IF a = running THEN [worker[a] EXCEPT !.cancelled = TRUE]
       ELSE worker[a]]

\* The ability gives an attempt up, for a timeout, a failure or a newer
\* request, and clears the callback.  A failure it has recorded first
\* (set_platform_vpn_failed_for_attempt) leaves a Connected outcome as it is.
Abandon ==
  /\ ability \in {"preparing", "prepared", "attaching", "running"}
  /\ ability' = "stopping" /\ registered' = 0
  /\ \/ UNCHANGED <<engineVars, worker>>
     \/ /\ ~Ended
        /\ outcome' = IF outcome = "Pending" THEN "Failed" ELSE outcome
        /\ lifecycle' = "Failed"
        /\ Released
        /\ UNCHANGED generation
  /\ UNCHANGED <<formVars, attempt, opening, error, foreign>>

\* disconnect_inner, its first section: it takes what the engine holds, unless
\* the engine says Disconnected already.
Stop ==
  /\ ability = "stopping"
  /\ ability' = "joining"
  /\ IF lifecycle = "Disconnected" THEN UNCHANGED <<engineVars, worker>>
     ELSE /\ generation' = Raised
          /\ outcome' = IF outcome = "Failed" THEN "Failed" ELSE "Cancelled"
          /\ lifecycle' = "Disconnecting"
          /\ Released
  /\ UNCHANGED <<formVars, attempt, registered, opening, error, foreign>>

\* The join may time out and leave the thread behind; a start operation that
\* is still under way is waited for.
Cleaned ==
  /\ ability = "joining" /\ opening = 0
  /\ ability' = "idle" /\ lifecycle' = "Disconnected"
  /\ UNCHANGED <<formVars, attempt, registered, opening, generation, outcome, pending,
                 running, worker, error, foreign>>

Ability == Start \/ Attach \/ Abandon \/ Stop \/ Cleaned
Engine  == AttachReturns \/ Tick \/ Verdict
Prepare(a) == BeginOperation(a) \/ NotRegistered(a) \/ CstpFails(a) \/ CstpDone(a)
              \/ PrepareReturns(a)
Mainloop(a) == AttachChecks(a) \/ SetupDtls(a) \/ DtlsDone(a) \/ Spawn(a)
               \/ LoopEnds(a) \/ EndNotified(a)

SessionNext ==
  \/ Ability \/ Engine
  \/ \E a \in Attempts : Prepare(a) \/ OpenSocket(a) \/ Mainloop(a)

Next == \/ FormNext /\ UNCHANGED sessionVars
        \/ HandOver
        \/ SessionNext

Spec     == Init /\ [][Next]_vars
FairSpec == Spec /\ FormFairness

-----------------------------------------------------------------------------

SessionTypeOK ==
  /\ ability \in {"idle", "preparing", "prepared", "attaching", "running", "stopping", "joining"}
  /\ {attempt, registered, opening, pending, running} \subseteq 0 .. MaxAttempt
  /\ generation \in 0 .. 4 * MaxAttempt
  /\ outcome \in {"Pending", "Connected", "Failed", "Cancelled"}
  /\ lifecycle \in {"Establishing", "Connected", "Failed", "Disconnecting", "Disconnected"}
  /\ worker \in [Attempts ->
       [pc : {"none", "candidate", "cstp", "resumed", "pending", "attach", "setup", "dtls",
              "spawn", "loop", "ended", "gone"},
        monitor : 0 .. MaxAttempt, gateway : 1 .. Gateways, generation : 0 .. 4 * MaxAttempt,
        bare : BOOLEAN, cancelled : BOOLEAN, failed : BOOLEAN]]
  /\ error \in [Attempts -> BOOLEAN] /\ foreign \subseteq Attempts

\* The state keeps its type; generation rises at most four times an attempt
\* (prepare_in_extension, attach_tun, and the stop or the tick that ends it).
TypeOK == FormTypeOK /\ SessionTypeOK

\* A mainloop that reads packets over a socket the system refused to protect
\* has the refusal on the record the heartbeat reads, until it is cancelled,
\* and this through failovers, DTLS and reconnections, with the threads of
\* ended attempts still about.  The exception is a registration that a worker
\* of an ended attempt captured, whose begin_operation cleared it.
UnprotectedOnRecord ==
  \A a \in Attempts :
    worker[a].pc = "loop" /\ worker[a].bare /\ worker[a].monitor \notin foreign
      => error[worker[a].monitor] \/ worker[a].cancelled

\* The thread of an attempt that is over never changes what the engine knows
\* of the next one: on_native_session_ended hears the current session only.
OldEndIsSilent ==
  [][\A a \in Attempts : a # attempt /\ worker[a].pc = "ended" /\ worker'[a].pc = "gone"
       => UNCHANGED engineVars]_vars

=============================================================================
