------------------------------- MODULE Dubbing -------------------------------
(***************************************************************************)
(* One run through translation, synthesis and alignment, from a transcript *)
(* of which an earlier run may have translated and spoken some lines.      *)
(***************************************************************************)
EXTENDS Alignment

CONSTANTS
    Redone,         (* the sets of lines explored that were transcribed anew *)
    Made            (* the sets of units explored that have a clip           *)

ASSUME DubbingAssumption == Redone \subseteq SUBSET Lines /\ Made \subseteq SUBSET Lines

vars == <<phase, lines, tr, script, setup, voices, jobs, clips, spoken, raised, left, cursor>>

Next ==
    /\ \/ TranslationStep /\ UNCHANGED <<voices, jobs, clips, spoken, raised, left, cursor>>
       \/ SynthesisStep /\ UNCHANGED cursor
       \/ AlignmentStep
    /\ UNCHANGED <<script, setup>>

\* The run before this one had translated the same lines and made the clips of some units.  It
\* was transcribed again since: the lines whose times came out otherwise have lost both.
Before(redone, made) ==
    /\ lines = [i \in Lines |->
          IF i \in redone THEN [trans |-> None, url |-> NoUnit]
          ELSE [trans |-> Old(i), url |-> IF FirstOf[i] \in made THEN Name(FirstOf[i]) ELSE NoUnit]]
    /\ \E length \in Durations :
          clips = [n \in {Name(u) : u \in made} |->
                     [says |-> [i \in LinesOf(n[1]) |-> Old(i)], length |-> length]]

Init ==
    /\ script \in Scripts /\ setup \in Setups
    /\ \E redone \in Redone, made \in Made : made \subseteq Units /\ Before(redone, made)
    /\ phase = "translate" /\ tr = NoBatch(0, FALSE)
    /\ voices = [s \in Speakers |-> "none"]
    /\ jobs = << >> /\ spoken = << >> /\ raised = "none" /\ left = MaxFailures
    /\ cursor = [placed |-> 0, end |-> 0]

Spec == Init /\ [][Next]_vars /\ WF_vars(Next)

-----------------------------------------------------------------------------
Phases == {"translate", "voices", "speak", "align", "done", "paused", "failed"}
Tiers == {"clone", "preset", "legacy"}
JobStates == {"none", "queued", "running", "ok", "paused", "failed", "taken", "cancelled"}

TypeOK ==
    /\ TranslationTypeOK
    /\ phase \in Phases /\ script \in Scripts /\ setup \in Setups
    /\ voices \in [Speakers -> {"none", "clone", "preset"}]
    /\ DOMAIN jobs \subseteq Units
    /\ \A u \in DOMAIN jobs : jobs[u] \in [state : JobStates, tier : Tiers, try : 1 .. TtsRetries]
    /\ DOMAIN clips \subseteq UnitName
    /\ \A n \in DOMAIN clips : clips[n].length \in Durations
    /\ \A k \in DOMAIN spoken :
          spoken[k] \in [unit : Units, name : UnitName, length : Nat, at : Nat,
                         mode : Tiers \cup {"reused"}]
    /\ raised \in {"none", "paused", "failed"}
    /\ left \in 0 .. MaxFailures
    /\ cursor \in [placed : Nat, end : Nat]

-----------------------------------------------------------------------------
(* Safety                                                                  *)

\* Every translation stands at the line whose text it translates, whatever order the provider
\* names the texts in and however the batch was split.
TranslationsInPlace == \A i \in Lines : lines[i].trans \in {None, i, Old(i)}

\* A unit of which an earlier clip is named by the first line, while another of its lines has
\* been translated anew.
HalfRedone(u) == \E i \in LinesOf(u) : lines[u].trans = Old(u) /\ lines[i].trans = i

\* A clip that is placed says what the lines of its unit say now: a clip of an earlier run is
\* taken over only for what it was made from.  (Not so for a unit that is half redone.)
ClipsSayTheirLines ==
    phase = "done" =>
        \A k \in DOMAIN spoken :
            LET u == spoken[k].unit IN HalfRedone(u) \/ clips[spoken[k].name].says = Says(u)

\* Every unit is placed once and in the order of the recording, whatever order the threads
\* finish in; no two clips overlap, and none begins before its line did.
OnePlaceEach ==
    phase = "done" =>
        /\ {spoken[k].unit : k \in DOMAIN spoken} = Units
        /\ \A j, k \in DOMAIN spoken : j < k =>
              /\ spoken[j].unit < spoken[k].unit
              /\ spoken[j].at + spoken[j].length <= spoken[k].at
        /\ \A k \in DOMAIN spoken : spoken[k].at >= OrigStart(spoken[k])

\* Where lines do not overlap, a clip is late only after one that was more than 1.3 times its
\* first line: whatever is a little too long is made to fit.
LateOnlyAfterLong ==
    phase = "done" =>
        \A k \in DOMAIN spoken :
            spoken[k].at > OrigStart(spoken[k]) =>
                \E j \in 1 .. (k - 1) : 10 * spoken[j].length > 13 * OrigLength(spoken[j])

\* "With voice_clone_mode=required, the task pauses": no clip of a required voice is made with
\* a preset one, except for a speaker the task does not know and with enrollment switched off.
RequiredVoiceIsCloned ==
    Required /\ setup.known /\ ~(setup.provider = "cosyvoice" /\ ~setup.enrollment) =>
        \A k \in DOMAIN spoken : spoken[k].mode \in {"clone", "reused"}

\* Splitting ends, and does not multiply the calls: a batch of n lines costs at most
\* MaxAttempts calls for each of the 2n - 1 ranges it can be split into.
CallsBounded ==
    LET n == Len(tr.pending) IN n > 0 => tr.calls <= MaxAttempts * (2 * n - 1)

-----------------------------------------------------------------------------
(* Liveness                                                                *)

\* A run comes to an end, whichever calls fail: the main thread waits for no cancelled clip
\* and no clip without a thread.
DubbingEnds == <>(phase \in {"done", "paused", "failed"})
=============================================================================
