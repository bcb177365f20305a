------------------------------- MODULE Builder -------------------------------
(***************************************************************************)
(* What the models of the artifact builders share: a command that writes   *)
(* an artifact file by file into a directory which is then published, and  *)
(* that an operator relaunches.  It is killed between any two writes, and  *)
(* the inputs (configuration, parents, code) may change at any time.  The  *)
(* content of a file is told apart by the input it was made from and by    *)
(* the launch that made it.                                                *)
(***************************************************************************)
EXTENDS Naturals

CONSTANTS
    Inputs,
    None,                   \* no file, no value
    Torn,                   \* a file whose writing was cut
    MaxKills, MaxChanges    \* bounds of the model

ASSUME BuilderAssumption ==
    /\ {None, Torn} \cap Inputs = {} /\ None # Torn
    /\ MaxKills \in Nat /\ MaxChanges \in Nat

VARIABLES
    now,         \* the inputs as they are
    pc,          \* next statement of the command; "down": there is none
    mem,         \* its memory: the input it was launched with, and its place
    pending,     \* the files of the directory being filled
    final,       \* those of the published one
    registered,  \* the published one is registered
    kills, changes,
    cuts,        \* statements at which a command was killed
    swaps        \* statements at which the inputs changed

bvars == <<now, pc, mem, pending, final, registered, kills, changes, cuts, swaps>>

Begin(inputs) ==
    /\ now \in inputs /\ pc = "down" /\ mem = None
    /\ pending = None /\ final = None /\ registered = FALSE
    /\ kills = 0 /\ changes = 0 /\ cuts = {} /\ swaps = {}

Made == [input |-> mem.input, try |-> kills]

\* What a file may contain.
Contents == [input : Inputs, try : 0..MaxKills]
Maybe(S) == S \cup {None}

\* One statement of the command.
Step(from, to) == pc = from /\ pc' = to /\ UNCHANGED <<now, kills, changes, cuts, swaps>>
Put(file, value) ==
    pending' = [pending EXCEPT ![file] = value] /\ UNCHANGED <<mem, final, registered>>

(***************************************************************************)
(* The frame of the builders of dive: a pending directory that begins with *)
(* build_state.json, is renamed when it is complete and then registered.   *)
(***************************************************************************)
Loaded == mem' = [input |-> now]

\* A published artifact is adopted when it is valid and of the same inputs.
Find(valid) ==
    /\ Step("down", IF registered THEN "done" ELSE "register")
    /\ final # None /\ final.report = now
    /\ registered \/ valid
    /\ Loaded /\ UNCHANGED <<pending, final, registered>>

MakePending(empty) ==
    /\ Step("down", "state")
    /\ final = None /\ pending = None
    /\ pending' = empty
    /\ Loaded /\ UNCHANGED <<final, registered>>

WriteState == Step("state", "build") /\ Put("state", mem.input)

\* Variant: a pending directory is continued whatever it was begun with.
AnyBuild == pending # None /\ pending.state # None

SameBuild == pending # None /\ pending.state = now

Reopen(adoptable) ==
    /\ Step("down", "build")
    /\ final = None /\ SameBuild /\ adoptable
    /\ Loaded /\ UNCHANGED <<pending, final, registered>>

WriteReport == Step("report", "publish") /\ Put("report", mem.input)

Publish ==
    /\ Step("publish", "register")
    /\ final' = pending /\ pending' = None
    /\ UNCHANGED <<mem, registered>>

Register ==
    /\ Step("register", "done")
    /\ registered' = TRUE
    /\ UNCHANGED <<mem, pending, final>>

(***************************************************************************)
(* Interruptions                                                           *)
(***************************************************************************)
Kill(torn) ==
    /\ pc \notin {"down", "done"} /\ kills < MaxKills
    /\ pc' = "down" /\ mem' = None
    /\ pending' \in {pending} \cup torn
    /\ kills' = kills + 1 /\ cuts' = cuts \cup {pc}
    /\ UNCHANGED <<now, final, registered, changes, swaps>>

Change ==
    /\ pc # "done" /\ changes < MaxChanges
    /\ now' \in Inputs \ {now}
    /\ changes' = changes + 1 /\ swaps' = swaps \cup {pc}
    /\ UNCHANGED <<pc, mem, pending, final, registered, kills, cuts>>

\* What was begun, or published, is of inputs that are no longer there.
Outdated ==
    /\ pc = "down"
    /\ \/ pending # None /\ pending.state # None /\ pending.state # now
       \/ final # None /\ final.report # now
=============================================================================
