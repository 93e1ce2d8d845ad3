------------------------------ MODULE Synthesis ------------------------------
(***************************************************************************)
(* Speaking the translated lines: neighbouring lines of one speaker are    *)
(* merged into units, the clips of an earlier run are taken over, the      *)
(* voices of the speakers are prepared, and a pool of threads makes the    *)
(* other clips, each falling back from the cloned voice to a preset one    *)
(* where the task allows it.                                               *)
(*                                                                         *)
(* Times are whole numbers.  A unit is named by its first and last line,   *)
(* as its object is.  Reading and writing an object succeeds, but for the  *)
(* reference of a speaker.                                                 *)
(***************************************************************************)
EXTENDS Translation

CONSTANTS
    MaxGap,         (* PCT_TTS_MERGE_MAX_GAP_SECONDS                         *)
    MaxLength,      (* PCT_TTS_MERGE_MAX_SECONDS                             *)
    TtsWorkers,     (* PCT_TTS_CONCURRENCY                                   *)
    TtsRetries,     (* PCT_DASHSCOPE_TTS_MAX_RETRIES                         *)
    MaxFailures,    (* bound on the calls for a clip that fail in one run    *)
    Durations,      (* how long a clip may turn out                          *)
    Scripts,        (* the recordings explored: speaker, start and end of each line *)
    Setups          (* the settings and references explored                  *)

ASSUME SynthesisAssumption ==
    /\ MaxGap \in Nat /\ MaxLength \in Nat
    /\ TtsWorkers \in Nat \ {0} /\ TtsRetries \in Nat \ {0}
    /\ MaxFailures \in Nat /\ Durations \subseteq Nat \ {0}
    /\ \A s \in Scripts, i \in Lines :
          s[i].start \in Nat /\ s[i].end \in Nat /\ s[i].start < s[i].end
    /\ Setups \subseteq [mode : {"off", "best_effort", "required"},
                         provider : {"elevenlabs", "cosyvoice", "voxcpm"},
                         enrollment : BOOLEAN,
                         ref : {"none", "local", "cloud"}, known : BOOLEAN]

VARIABLES
    script,   \* speaker, start and end of each line
    setup,    \* mode, provider, and what is known of the speakers
    voices,   \* the profile prepared for each speaker
    jobs,     \* the threads: one job for each unit that has no clip
    clips,    \* the clips in the store: what they say and how long they are
    spoken,   \* the clips of the context, in order
    raised,   \* the error the main thread waits to pass on
    left      \* how many calls may still fail

Speakers == {script[i].speaker : i \in Lines}

-----------------------------------------------------------------------------
(* Units.                                                                  *)

\* Line i joins the unit that begins with line u if it follows its last line at once.
Joins(u, last, i) ==
    /\ script[u].speaker = script[i].speaker
    /\ script[i].start - script[last].end <= MaxGap
    /\ script[i].end - script[u].start <= MaxLength

FirstOf[i \in Lines] == IF i > 1 /\ Joins(FirstOf[i - 1], i - 1, i) THEN FirstOf[i - 1] ELSE i
LinesOf(u) == {i \in Lines : FirstOf[i] = u}
LastOf(u) == CHOOSE i \in LinesOf(u) : \A j \in LinesOf(u) : j <= i
Units == {FirstOf[i] : i \in Lines}
Name(u) == <<u, LastOf(u)>>
Says(u) == [i \in LinesOf(u) |-> lines[i].trans]

-----------------------------------------------------------------------------
(* Clips of an earlier run.                                                *)

Existing_ByName(u) == IF Name(u) \in DOMAIN clips THEN Name(u) ELSE NoUnit

\* The clip the first line names, or, unless synthesis was invalidated, the object of that name.
Existing(u) ==
    LET url == lines[u].url IN
    IF url # NoUnit THEN (IF url \in DOMAIN clips THEN url ELSE NoUnit)
    ELSE IF ~tr.changed /\ Name(u) \in DOMAIN clips THEN Name(u) ELSE NoUnit

Pending == {u \in Units : Existing(u) = NoUnit}
Clip(u, name, mode) ==
    [unit |-> u, name |-> name, length |-> clips[name].length, mode |-> mode, at |-> 0]

NoJob == [state |-> "none", tier |-> "clone", try |-> 1]
Reuse ==
    /\ phase = "translate" /\ tr.at >= NLines /\ tr.pending = << >>
    /\ spoken' = LET reused == Ascending(Units \ Pending) IN
                 [k \in DOMAIN reused |-> Clip(reused[k], Existing(reused[k]), "reused")]
    /\ lines' = [i \in Lines |-> IF i \in Units \ Pending THEN [lines[i] EXCEPT !.url = Existing(i)]
                                 ELSE lines[i]]
    /\ jobs' = [u \in Pending |-> NoJob]
    /\ phase' = IF Pending = {} THEN "align" ELSE "voices"
    /\ UNCHANGED <<tr, voices, clips, raised, left>>

-----------------------------------------------------------------------------
(* Voices.                                                                 *)

Required == setup.mode = "required"
Cloning == setup.mode # "off"
Active == {script[u].speaker : u \in DOMAIN jobs}
Unprepared == {s \in Active : voices[s] = "none"}

Refused_Preset(s) == voices' = [voices EXCEPT ![s] = "preset"] /\ UNCHANGED phase

\* Without a provider that clones, or without a reference, a required voice pauses the task
\* and any other speaker gets a preset one.
Refused(s) ==
    IF Required THEN Ends("paused") /\ UNCHANGED voices
    ELSE voices' = [voices EXCEPT ![s] = "preset"] /\ UNCHANGED phase
Cloned_AsProvider(s) == voices' = [voices EXCEPT ![s] = setup.provider] /\ UNCHANGED phase
Cloned(s) == voices' = [voices EXCEPT ![s] = "clone"] /\ UNCHANGED phase
Preset(s) == voices' = [voices EXCEPT ![s] = "preset"] /\ UNCHANGED phase

\* A speaker who is not among the task's speakers has no profile, and no mode either.  VoxCPM needs
\* the reference downloaded; without a key ElevenLabs pauses the task whatever the mode.
PrepareVoice(s) ==
    /\ phase = "voices" /\ s \in Unprepared
    /\ \/ /\ ~setup.known \/ ~Cloning
          /\ Preset(s)
       \/ /\ setup.known /\ Cloning /\ setup.ref = "none"
          /\ Refused(s)
       \/ /\ setup.known /\ Cloning /\ setup.ref # "none" /\ setup.provider = "voxcpm"
          /\ Cloned(s) \/ Refused(s)
       \/ /\ setup.known /\ Cloning /\ setup.ref # "none" /\ setup.provider = "elevenlabs"
          /\ Cloned(s) \/ Refused(s) \/ (Ends("paused") /\ UNCHANGED voices)
       \/ /\ setup.known /\ Cloning /\ setup.ref # "none" /\ setup.provider = "cosyvoice"
          /\ IF ~setup.enrollment THEN Preset(s)
             ELSE IF setup.ref = "local" THEN Refused(s)
             ELSE Cloned(s) \/ Refused(s) \/ (Ends("paused") /\ UNCHANGED voices)
    /\ UNCHANGED <<lines, tr, jobs, clips, spoken, raised, left>>

SubmitJobs ==
    /\ phase = "voices" /\ Unprepared = {}
    /\ jobs' = [u \in DOMAIN jobs |-> [NoJob EXCEPT !.state = "queued",
                                                    !.tier = voices[script[u].speaker]]]
    /\ phase' = "speak"
    /\ UNCHANGED <<lines, tr, voices, clips, spoken, raised, left>>

-----------------------------------------------------------------------------
(* The threads.                                                            *)

In(u, states) == phase = "speak" /\ u \in DOMAIN jobs /\ jobs[u].state \in states
Running == {u \in DOMAIN jobs : jobs[u].state = "running"}

StartJob(u) ==
    /\ In(u, {"queued"}) /\ Cardinality(Running) < TtsWorkers
    /\ jobs' = [jobs EXCEPT ![u].state = "running"]
    /\ UNCHANGED <<phase, lines, tr, voices, clips, spoken, raised, left>>

\* The clip is uploaded and named in all lines of its unit.
Speak(u) ==
    /\ In(u, {"running"})
    /\ \E length \in Durations :
          clips' = [n \in DOMAIN clips \cup {Name(u)} |->
              IF n = Name(u) THEN [says |-> Says(u), length |-> length] ELSE clips[n]]
    /\ lines' = [i \in Lines |-> IF i \in LinesOf(u) THEN [lines[i] EXCEPT !.url = Name(u)]
                                 ELSE lines[i]]
    /\ jobs' = [jobs EXCEPT ![u].state = "ok"]
    /\ UNCHANGED <<phase, tr, voices, spoken, raised, left>>

\* ElevenLabs and VoxCPM are asked once; CosyVoice, enrolled or preset, up to TtsRetries times.
AskedOnce(u) == jobs[u].tier = "clone" /\ setup.provider # "cosyvoice"

State(u, state) == jobs' = [jobs EXCEPT ![u].state = state]
Tier(u, tier) == jobs' = [jobs EXCEPT ![u].tier = tier, ![u].try = 1]

\* An enrolled voice has no fallback, and the preset one only the model before it.
GivesUp(u) == IF jobs[u].tier = "preset" THEN Tier(u, "legacy") ELSE State(u, "failed")

Errors == {"permanent", "transient", "rejected", "other", "silent"}

\* A call without an error may still leave a file without sound (silent).  A voice that is asked once
\* falls back to a preset one unless it is required; without the key that needs, the task pauses.
CallFails(u, kind) ==
    /\ In(u, {"running"}) /\ left > 0
    /\ left' = left - 1
    /\ \/ /\ kind = "silent"
          /\ State(u, "failed")
       \/ /\ kind # "silent" /\ AskedOnce(u)
          /\ State(u, "paused") \/ (~Required /\ Tier(u, "preset"))
       \/ /\ ~AskedOnce(u) /\ kind = "permanent"
          /\ State(u, "paused")
       \/ /\ ~AskedOnce(u) /\ kind = "rejected"
          /\ GivesUp(u)
       \/ /\ ~AskedOnce(u) /\ kind \in {"transient", "other"} /\ jobs[u].try < TtsRetries
          /\ jobs' = [jobs EXCEPT ![u].try = @ + 1]
       \/ /\ ~AskedOnce(u) /\ kind \in {"transient", "other"} /\ jobs[u].try = TtsRetries
          /\ IF kind = "transient" THEN State(u, "paused") ELSE GivesUp(u)
    /\ UNCHANGED <<phase, lines, tr, voices, clips, spoken, raised>>

-----------------------------------------------------------------------------
(* The main thread.                                                        *)

Collect(u) ==
    /\ In(u, {"ok"}) /\ raised = "none"
    /\ spoken' = Append(spoken, Clip(u, Name(u), jobs[u].tier))
    /\ State(u, "taken")
    /\ UNCHANGED <<phase, lines, tr, voices, clips, raised, left>>

\* A pause cancels what is queued, another error does not; both wait for the pool.
JobRaises(u) ==
    /\ In(u, {"paused", "failed"}) /\ raised = "none"
    /\ raised' = jobs[u].state
    /\ jobs' = [v \in DOMAIN jobs |->
            IF v = u THEN [jobs[v] EXCEPT !.state = "taken"]
            ELSE IF jobs[u].state = "paused" /\ jobs[v].state = "queued"
            THEN [jobs[v] EXCEPT !.state = "cancelled"] ELSE jobs[v]]
    /\ UNCHANGED <<phase, lines, tr, voices, clips, spoken, left>>

PoolEmpty_Collected == \A u \in DOMAIN jobs : jobs[u].state \notin {"queued", "running", "ok"}
PoolEmpty == \A u \in DOMAIN jobs : jobs[u].state \notin {"queued", "running"}

SpeakingStops ==
    /\ phase = "speak" /\ raised # "none" /\ PoolEmpty
    /\ Ends(raised)
    /\ UNCHANGED <<lines, tr, voices, jobs, clips, spoken, raised, left>>

\* The clips came in the order they were finished.
InOrder_AsFinished == spoken
InOrder ==
    CHOOSE s \in {[k \in DOMAIN spoken |-> spoken[order[k]]] :
                   order \in Bijection(DOMAIN spoken, DOMAIN spoken)} :
        \A j, k \in DOMAIN s : j < k => s[j].unit <= s[k].unit
SpeakingEnds ==
    /\ phase = "speak" /\ raised = "none"
    /\ \A u \in DOMAIN jobs : jobs[u].state = "taken"
    /\ spoken' = InOrder
    /\ phase' = "align"
    /\ UNCHANGED <<lines, tr, voices, jobs, clips, raised, left>>

SynthesisStep ==
    \/ Reuse \/ SubmitJobs \/ SpeakingStops \/ SpeakingEnds
    \/ (\E s \in Speakers : PrepareVoice(s))
    \/ (\E u \in DOMAIN jobs : StartJob(u) \/ Speak(u) \/ Collect(u) \/ JobRaises(u))
    \/ (\E u \in DOMAIN jobs, kind \in Errors : CallFails(u, kind))
=============================================================================
