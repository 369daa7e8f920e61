----------------------------- MODULE Redaction -----------------------------
(***************************************************************************)
(* How the output of a command reaches the agent that asked for it: the    *)
(* broker captures at most CaptureBytes of a stream, replaces every        *)
(* occurrence of an injected value in it, in any of its encodings, by a    *)
(* label, and returns at most ReturnBytes.                                 *)
(*                                                                         *)
(* A byte is a member of Byte, a variant of a value is a sequence of them, *)
(* and a label counts as one byte.  Redact's loop over the spans, sorted   *)
(* by where they start, is one step per iteration; which of two spans with *)
(* the same start comes first is not determined by the sort.               *)
(***************************************************************************)
EXTENDS Integers, Sequences, FiniteSets

CONSTANTS
  Byte,
  Needles,         \* the variants of the injected values
  CaptureBytes,    \* limit of a capture
  ReturnBytes,
  MaxPrinted       \* bound: what a command prints

ASSUME RedactionAssumption ==
  /\ Needles \subseteq Seq(Byte) \ {<<>>}
  /\ {CaptureBytes, ReturnBytes, MaxPrinted} \subseteq Nat

VARIABLES
  at,          \* "printing", "searched", "done"
  printed,     \* all that the command wrote to the stream
  buf, cut,    \* the capture
  spans,       \* the spans the loop has not reached
  merged,      \* the span it is extending
  pos,         \* out[pos:] is not written yet
  written,     \* b: the positions written so far, Label for a label
  truncated

redactionVars == <<at, printed, buf, cut, spans, merged, pos, written, truncated>>

\* A span's end is the first position after it.
Span == [start : 1..MaxPrinted + 1, end : 1..MaxPrinted + 1]
NoSpan == [start |-> 0, end |-> 0]
Label == 0

RedactionInit ==
  /\ at = "printing"
  /\ printed = <<>> /\ buf = <<>> /\ cut = FALSE
  /\ spans = {} /\ merged = NoSpan /\ pos = 1 /\ written = <<>>
  /\ truncated = FALSE

Lesser(i, j) == IF i < j THEN i ELSE j
Greater(i, j) == IF i > j THEN i ELSE j

Slice(from, to) == [i \in 1..to - from |-> from + i - 1]

-----------------------------------------------------------------------------
\* capture.Write
Write(p) ==
  /\ at = "printing" /\ Len(printed) + Len(p) <= MaxPrinted
  /\ printed' = printed \o p
  /\ LET room == CaptureBytes - Len(buf) IN
       /\ buf' = buf \o SubSeq(p, 1, Lesser(room, Len(p)))
       /\ cut' = (cut \/ room <= 0 \/ Len(p) > room)
  /\ UNCHANGED <<at, spans, merged, pos, written, truncated>>

\* bytes.Index from every position, overlapping occurrences too
Occurrences(out) ==
  {s \in Span : /\ s.start < s.end /\ s.end <= Len(out) + 1
                /\ SubSeq(out, s.start, s.end - 1) \in Needles}

\* The longest end of out that begins a variant and is not all of it.
Fragments(out) ==
  LET begins(n) == {k \in 1..Lesser(Len(n) - 1, Len(out)) :
                      SubSeq(out, Len(out) - k + 1, Len(out)) = SubSeq(n, 1, k)}
  IN {[start |-> Len(out) - k + 1, end |-> Len(out) + 1] :
        k \in UNION {{k \in begins(n) : \A l \in begins(n) : l <= k} : n \in Needles}}

\* The command has ended, or was ended; Redact looks for spans.
Search ==
  /\ at = "printing"
  /\ at' = "searched"
  /\ spans' = Occurrences(buf) \cup (IF cut THEN Fragments(buf) ELSE {})
  /\ UNCHANGED <<printed, buf, cut, merged, pos, written, truncated>>

First(s) == s \in spans /\ \A t \in spans : s.start <= t.start

StartSpan(s) ==
  /\ at = "searched" /\ merged = NoSpan /\ First(s)
  /\ merged' = s
  /\ spans' = spans \ {s}
  /\ UNCHANGED <<at, printed, buf, cut, pos, written, truncated>>

\* Mutant: the end of the span that was merged last.
MergeLastEnd(s) ==
  /\ merged # NoSpan /\ First(s) /\ s.start < merged.end
  /\ merged' = [merged EXCEPT !.end = s.end]
  /\ spans' = spans \ {s}
  /\ UNCHANGED <<at, printed, buf, cut, pos, written, truncated>>

Merge(s) ==
  /\ merged # NoSpan /\ First(s) /\ s.start < merged.end
  /\ merged' = [merged EXCEPT !.end = Greater(merged.end, s.end)]
  /\ spans' = spans \ {s}
  /\ UNCHANGED <<at, printed, buf, cut, pos, written, truncated>>

Emit ==
  /\ merged # NoSpan /\ \A s \in spans : s.start >= merged.end
  /\ written' = written \o Slice(pos, merged.start) \o <<Label>>
  /\ pos' = merged.end
  /\ merged' = NoSpan
  /\ UNCHANGED <<at, printed, buf, cut, spans, truncated>>

\* The rest of Redact, and clip
Return ==
  /\ at = "searched" /\ spans = {} /\ merged = NoSpan
  /\ at' = "done"
  /\ LET all == written \o Slice(pos, Len(buf) + 1) IN
       /\ written' = SubSeq(all, 1, Lesser(Len(all), ReturnBytes))
       /\ truncated' = (cut \/ Len(all) > ReturnBytes)
  /\ UNCHANGED <<printed, buf, cut, spans, merged, pos>>

\* The next command has a stream of its own.
NextRun ==
  /\ at = "done"
  /\ at' = "printing"
  /\ printed' = <<>> /\ buf' = <<>> /\ cut' = FALSE
  /\ pos' = 1 /\ written' = <<>> /\ truncated' = FALSE
  /\ UNCHANGED <<spans, merged>>

RedactionNext ==
  \/ \E p \in UNION {[1..k -> Byte] : k \in 1..MaxPrinted} : Write(p)
  \/ Search
  \/ \E s \in spans : StartSpan(s) \/ Merge(s)
  \/ Emit
  \/ Return
  \/ NextRun

RedactionSpec == RedactionInit /\ [][RedactionNext]_redactionVars

-----------------------------------------------------------------------------
RedactionTypeOK ==
  /\ at \in {"printing", "searched", "done"}
  /\ printed \in Seq(Byte) /\ buf \in Seq(Byte) /\ Len(buf) <= CaptureBytes
  /\ cut \in BOOLEAN /\ truncated \in BOOLEAN
  /\ spans \subseteq Span /\ merged \in Span \cup {NoSpan}
  /\ pos \in 1..Len(buf) + 1
  /\ written \in Seq(0..Len(buf))

Returned == {written[i] : i \in DOMAIN written} \ {Label}
Covered(ss) == UNION {s.start..s.end - 1 : s \in ss}

\* Redact: "overlapping secrets cannot leave fragments".  No byte of a value that
\* the command printed is returned, however its occurrences overlap, however it
\* was written piece by piece, and also if the capture ended within it.
NothingIsLeaked ==
  at = "done" => Returned \cap Covered(Occurrences(printed)) = {}

\* Redact, capture and clip: all other output is returned once and in its order,
\* but for an end that may be the beginning of a value; and if something was left
\* out for want of room the agent is told so.
NothingElseIsTaken ==
  at = "done" =>
    LET kept == {i \in DOMAIN written : written[i] # Label}
        mayBegin == IF cut THEN Covered(Fragments(buf)) ELSE {}
    IN /\ \A i, j \in kept : i < j => written[i] < written[j]
       /\ \/ truncated
          \/ Returned = (1..Len(printed)) \ Covered(Occurrences(printed))
       /\ Len(written) < ReturnBytes =>
            Returned = (1..Len(buf)) \ (Covered(Occurrences(buf)) \cup mayBegin)

\* Redact: out[pos:start] is a slice, so the span to be replaced never starts
\* before the end of the one replaced last; the broker would panic otherwise.
SlicesAreValid == merged # NoSpan => pos <= merged.start

\* What the agent is given, compared with all that the command printed.
OutputIsRedacted == NothingIsLeaked /\ NothingElseIsTaken /\ SlicesAreValid
=============================================================================
