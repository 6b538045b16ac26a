------------------------------ MODULE VideoFlow ------------------------------
(***************************************************************************)
(* What the dashboard and the apps may rely on when a video is uploaded,   *)
(* with workers, messages, attempts and files left out: a job comes to a   *)
(* result, a failure or its cancellation, and a target shows results only. *)
(* MediaJobs implements this specification.                                *)
(***************************************************************************)
CONSTANTS Jobs, Targets, NoJob

VARIABLES
    stage,      \* stage[j]: "absent", "working", "ready", "failed", "cancelled", or
                \* "released", ready long ago and without its files
    awaits,     \* awaits[t]: the job whose result target t is to show
    shown       \* shown[t]: the job whose result it shows

flowVars == <<stage, awaits, shown>>

FlowInit ==
    /\ stage = [j \in Jobs |-> "absent"]
    /\ awaits = [t \in Targets |-> NoJob]
    /\ shown = [t \in Targets |-> NoJob]

Move(j, from, to) == stage[j] \in from /\ stage' = [stage EXCEPT ![j] = to]

\* An upload, for a target or for nobody yet.
Request(j) ==
    /\ Move(j, {"absent"}, "working")
    /\ awaits' = awaits \/ \E t \in Targets : awaits' = [awaits EXCEPT ![t] = j]
    /\ UNCHANGED shown

\* The result reaches all who await it at once.
Deliver(j) ==
    /\ Move(j, {"working"}, "ready")
    /\ shown' = [t \in Targets |-> IF awaits[t] = j THEN j ELSE shown[t]]
    /\ awaits' = [t \in Targets |-> IF awaits[t] = j THEN NoJob ELSE awaits[t]]

\* A failure keeps its targets waiting: the administrator may try again.
GiveUp(j) == Move(j, {"working"}, "failed") /\ UNCHANGED <<awaits, shown>>

Again(j) == Move(j, {"failed"}, "working") /\ UNCHANGED <<awaits, shown>>

\* Nothing leads back from here, and nobody awaits the job any more.
Withdraw(j) ==
    /\ Move(j, {"working", "ready", "released", "failed"}, "cancelled")
    /\ awaits' = [t \in Targets |-> IF awaits[t] = j THEN NoJob ELSE awaits[t]]
    /\ UNCHANGED shown

Release(j) == Move(j, {"ready"}, "released") /\ UNCHANGED <<awaits, shown>>

Show(t, j) ==
    /\ stage[j] = "ready"
    /\ shown' = [shown EXCEPT ![t] = j]
    /\ awaits' = [awaits EXCEPT ![t] = NoJob]
    /\ UNCHANGED stage

\* An image takes the video's place, or only ends the wait for one.
Replace(t) ==
    /\ shown' = shown \/ shown' = [shown EXCEPT ![t] = NoJob]
    /\ awaits' = [awaits EXCEPT ![t] = NoJob]
    /\ UNCHANGED stage

FlowNext ==
    \/ \E j \in Jobs :
          \/ Request(j) \/ Deliver(j) \/ GiveUp(j) \/ Again(j) \/ Withdraw(j) \/ Release(j)
          \/ \E t \in Targets : Show(t, j)
    \/ \E t \in Targets : Replace(t)

FlowSpec == FlowInit /\ [][FlowNext]_flowVars
=============================================================================
