----------------------------- MODULE Translation -----------------------------
(***************************************************************************)
(* Translating the lines of a transcript: batches of them go to the        *)
(* provider, whose answer is parsed and checked; a batch that fails three  *)
(* times is split in two halves, down to single lines.                     *)
(*                                                                         *)
(* A line's translation is the number of the line whose text it translates *)
(* (an earlier run's: that number plus NLines), so that an answer in the   *)
(* wrong place can be told.  Source and target language differ.            *)
(***************************************************************************)
EXTENDS Integers, Sequences, FiniteSets, Functions

CONSTANTS
    NLines,         (* lines of the transcript                               *)
    BatchSize,      (* PCT_TRANSLATION_BATCH_SIZE                            *)
    MaxAttempts     (* max_attempts                                          *)

ASSUME TranslationAssumption ==
    /\ NLines \in Nat \ {0}
    /\ BatchSize \in Nat \ {0}
    /\ MaxAttempts \in Nat \ {0}

Lines == 1 .. NLines
None == 0
Old(i) == NLines + i

\* The members of a set of lines in order.
Ascending(S) ==
    CHOOSE s \in Bijection(1 .. Cardinality(S), S) : \A j, k \in DOMAIN s : j < k => s[j] < s[k]

NoUnit == <<0, 0>>     \* no clip is named
UnitName == (0 .. NLines) \X (0 .. NLines)

VARIABLES
    phase,    \* which stage the run is in, or how it ended
    lines,    \* translation and clip of each line
    tr        \* the translation in progress

\* pending: the lines of the batch; todo: what is left of it, ranges of positions in pending;
\* got: the answers so far; attempt: of the first range; calls: those made for the batch.
TranslationTypeOK ==
    /\ lines \in [Lines -> [trans : 0 .. 2 * NLines, url : UnitName]]
    /\ tr.at \in Nat /\ tr.pending \in Seq(Lines) /\ tr.todo \in Seq(Lines \X Lines)
    /\ tr.got \in Seq(Lines) /\ tr.attempt \in 1 .. MaxAttempts /\ tr.calls \in Nat
    /\ tr.changed \in BOOLEAN

NoBatch(at, changed) ==
    [at |-> at, pending |-> << >>, todo |-> << >>, got |-> << >>, attempt |-> 1, calls |-> 0,
     changed |-> changed]

-----------------------------------------------------------------------------
(* The provider's answer to n texts.                                       *)

\* The ids of its items in the order they came, counted from one; the item of an id translates
\* the text of that id.  (Plain strings, which the parser takes to be in order, are the answer
\* that counts up.)
Answers(n) == UNION {[1 .. m -> 1 .. (n + 1)] : m \in 0 .. (n + 1)}

\* An answer must name every text exactly once.
Accepted(answer, n) == Len(answer) = n /\ {answer[k] : k \in 1 .. n} = 1 .. n

\* The items are put in the order of their ids.
Ordered_AsReceived(answer) == answer
Ordered(answer) ==
    [k \in DOMAIN answer |-> answer[CHOOSE j \in DOMAIN answer : answer[j] = k]]

-----------------------------------------------------------------------------
Translating == phase = "translate"
NextBatch == Translating /\ tr.pending = << >> /\ tr.at < NLines

NeedsTranslation(i) == lines[i].trans = None
Slice == {i \in Lines : tr.at < i /\ i <= tr.at + BatchSize}

StartBatch ==
    LET pending == Ascending({i \in Slice : NeedsTranslation(i)}) IN
    /\ NextBatch
    /\ tr' = IF pending = << >> THEN NoBatch(tr.at + BatchSize, tr.changed)
             ELSE [tr EXCEPT !.pending = pending, !.todo = << <<1, Len(pending)>> >>]
    /\ UNCHANGED <<phase, lines>>

From == Head(tr.todo)[1]
To == Head(tr.todo)[2]
Size == To - From + 1

\* The answers of the halves are joined left to right.
Answered(answer) ==
    /\ Translating /\ tr.todo # << >> /\ Accepted(answer, Size)
    /\ tr' = [tr EXCEPT
            !.got = @ \o [k \in 1 .. Size |-> tr.pending[From + Ordered(answer)[k] - 1]],
            !.todo = Tail(@), !.attempt = 1, !.calls = @ + 1]
    /\ UNCHANGED <<phase, lines>>

Halves_Overlap(from, to) ==
    LET mid == from + (to - from + 1) \div 2 IN << <<from, mid>>, <<mid, to>> >>

\* Left half first.
Halves(from, to) ==
    LET mid == from + (to - from + 1) \div 2 IN << <<from, mid - 1>>, <<mid, to>> >>

Ends(how) == phase' = how

\* A permanent error of the provider pauses at once; an error of its connection (transient)
\* or an answer that is not accepted (invalid) is tried again.  A single line that fails for
\* good pauses the task if the last error was the provider's.
ProviderFails(kind) ==
    /\ Translating /\ tr.todo # << >>
    /\ \/ /\ kind = "permanent"
          /\ Ends("paused")
          /\ tr' = [tr EXCEPT !.calls = @ + 1]
       \/ /\ kind # "permanent" /\ tr.attempt < MaxAttempts
          /\ tr' = [tr EXCEPT !.attempt = @ + 1, !.calls = @ + 1]
          /\ UNCHANGED phase
       \/ /\ kind # "permanent" /\ tr.attempt = MaxAttempts /\ Size > 1
          /\ tr' = [tr EXCEPT !.todo = Halves(From, To) \o Tail(@), !.attempt = 1, !.calls = @ + 1]
          /\ UNCHANGED phase
       \/ /\ kind # "permanent" /\ tr.attempt = MaxAttempts /\ Size = 1
          /\ Ends(IF kind = "transient" THEN "paused" ELSE "failed")
          /\ tr' = [tr EXCEPT !.calls = @ + 1]
    /\ UNCHANGED lines

\* A new translation forgets the clip of the old one.
WriteBatch ==
    /\ Translating /\ tr.pending # << >> /\ tr.todo = << >>
    /\ lines' = [i \in Lines |->
            IF \E k \in DOMAIN tr.pending : tr.pending[k] = i
            THEN [trans |-> tr.got[CHOOSE k \in DOMAIN tr.pending : tr.pending[k] = i],
                  url |-> NoUnit]
            ELSE lines[i]]
    /\ tr' = NoBatch(tr.at + BatchSize, TRUE)
    /\ UNCHANGED phase

TranslationStep ==
    \/ StartBatch \/ WriteBatch
    \/ /\ Translating /\ tr.todo # << >>
       /\ \E answer \in Answers(Size) : Answered(answer)
    \/ (\E kind \in {"permanent", "transient", "invalid"} : ProviderFails(kind))
=============================================================================
