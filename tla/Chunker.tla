------------------------------- MODULE Chunker -------------------------------
(***************************************************************************)
(* StructuredFieldChunker.chunk: the lines of a projected document are      *)
(* packed greedily into pieces under a token budget; a line that alone      *)
(* exceeds the budget is cut into overlapping windows of words, the end of  *)
(* each found by binary search.                                            *)
(*                                                                         *)
(* Abstractions.                                                           *)
(*  - Texts are spans: a piece is words from+1 .. to of one line, or whole  *)
(*    lines.  What the tokenizer counts for a span is a constant operator,  *)
(*    of which only the monotonicity the code's docstring relies on and     *)
(*    sub-additivity over joined lines are assumed.                         *)
(*  - A failing count_tokens_batch ends the call (EmbedFails in Ingestion). *)
(***************************************************************************)
EXTENDS Integers, Sequences

CONSTANTS
  Documents,           \* the contents to chunk
  Lines(_),            \* Lines(d): non-empty lines of d
  Words(_, _),         \* Words(d, l): words of line l
  Tokens(_, _, _, _),  \* Tokens(d, l, s, e): tokens of words s+1 .. e of line l
  Joined(_, _, _),     \* Joined(d, f, l): tokens of the lines f .. l, joined
  MaxTokens,           \* the values the budget may have
  OverlapPercent       \* CHUNK_OVERLAP_RATIO, in percent

LineTokens(d, l) == Tokens(d, l, 0, Words(d, l))

ASSUME SizesAssumption ==
  /\ MaxTokens \subseteq Nat
  /\ OverlapPercent \in 0 .. 99
  /\ \A d \in Documents :
       /\ Lines(d) \in Nat
       /\ \A l \in 1 .. Lines(d) : Words(d, l) \in Nat \ {0}

(* "token count is monotonic in prefix length"                             *)
ASSUME TokensAssumption ==
  \A d \in Documents : \A l \in 1 .. Lines(d) : \A s, e \in 0 .. Words(d, l) :
    s < e => /\ Tokens(d, l, s, e) \in Nat
             /\ \A f \in s + 1 .. e : Tokens(d, l, s, f) <= Tokens(d, l, s, e)

(* Joining costs no more than its parts: each part was counted with special *)
(* tokens of its own, and a newline is none.                               *)
ASSUME JoinedAssumption ==
  \A d \in Documents : \A f, l \in 1 .. Lines(d) :
    f <= l => /\ Joined(d, f, l) \in Nat
              /\ f = l => Joined(d, f, l) = LineTokens(d, l)
              /\ f < l => Joined(d, f, l) <= Joined(d, f, l - 1) + LineTokens(d, l)

VARIABLES
  document, budget,   \* the input
  pc,                 \* pack, search, build, done
  line,               \* the line the loop is at
  held, tokens,       \* how many lines current_lines holds; current_tokens
  start, lo, hi,      \* the window being searched
  pieces,             \* pieces, as spans with their split reason
  chunks              \* the result

vars == <<document, budget, pc, line, held, tokens, start, lo, hi, pieces, chunks>>

Reasons == {"single_chunk", "field_packed", "token_window_fallback"}

WordCount == Words(document, line)
Count(s, e) == Tokens(document, line, s, e)

Init ==
  /\ document \in Documents
  /\ \E m \in MaxTokens : budget = IF m = 0 THEN 1 ELSE m
  /\ pc = "pack" /\ line = 1
  /\ held = 0 /\ tokens = 0
  /\ start = 0 /\ lo = 0 /\ hi = 0
  /\ pieces = <<>> /\ chunks = <<>>

-----------------------------------------------------------------------------
(* Packing.  current_lines are always the held lines before the loop's.    *)

Packed ==
  [reason |-> "field_packed", first |-> line - held, last |-> line - 1,
   from |-> 0, to |-> Words(document, line - 1)]

Flushed == IF held = 0 THEN pieces ELSE Append(pieces, Packed)

RoomByHeld(cost) == held = 0 \/ tokens <= budget

Room(cost) == held = 0 \/ tokens + cost <= budget

(* A line that fits the budget joins current_lines, after a flush if there  *)
(* is no room for it.                                                      *)
PackLine ==
  LET cost == LineTokens(document, line) IN
  /\ pc = "pack" /\ line <= Lines(document)
  /\ cost <= budget
  /\ IF Room(cost)
     THEN held' = held + 1 /\ tokens' = tokens + cost /\ UNCHANGED pieces
     ELSE held' = 1 /\ tokens' = cost /\ pieces' = Flushed
  /\ line' = line + 1
  /\ UNCHANGED <<document, budget, pc, start, lo, hi, chunks>>

(* The window search starts at word s: any end from s + 1 on is possible.  *)
SearchFrom(s) == start' = s /\ lo' = s + 1 /\ hi' = WordCount

BeginSplit ==
  /\ pc = "pack" /\ line <= Lines(document)
  /\ LineTokens(document, line) > budget
  /\ pieces' = Flushed
  /\ held' = 0 /\ tokens' = 0
  /\ SearchFrom(0)
  /\ pc' = "search"
  /\ UNCHANGED <<document, budget, line, chunks>>

EndPacking ==
  /\ pc = "pack" /\ line > Lines(document)
  /\ pieces' = IF Len(Flushed) = 1 /\ Flushed[1].reason = "field_packed"
               THEN <<[Flushed[1] EXCEPT !.reason = "single_chunk"]>>
               ELSE Flushed
  /\ held' = 0 /\ tokens' = 0
  /\ pc' = "build"
  /\ UNCHANGED <<document, budget, line, start, lo, hi, chunks>>

-----------------------------------------------------------------------------
(* Splitting an oversized line.                                            *)

FitsBelow(e) == Count(start, e) < budget

Fits(e) == Count(start, e) <= budget

MiddleRoundedDown == (lo + hi) \div 2

Middle == (lo + hi + 1) \div 2

Probe ==
  /\ pc = "search" /\ lo < hi
  /\ IF Fits(Middle)
     THEN lo' = Middle /\ UNCHANGED hi
     ELSE hi' = Middle - 1 /\ UNCHANGED lo
  /\ UNCHANGED <<document, budget, pc, line, held, tokens, start, pieces, chunks>>

Overlap(n) == LET k == (n * OverlapPercent) \div 100 IN IF k = 0 THEN 1 ELSE k

NextStartUnguarded(end) == end - Overlap(end - start)

NextStart(end) ==
  LET back == end - Overlap(end - start) IN IF back > start THEN back ELSE start + 1

Window ==
  [reason |-> "token_window_fallback", first |-> line, last |-> line,
   from |-> start, to |-> lo]

CloseWindow ==
  /\ pc = "search" /\ lo >= hi
  /\ pieces' = Append(pieces, Window)
  /\ IF lo >= WordCount
     THEN pc' = "pack" /\ line' = line + 1 /\ UNCHANGED <<start, lo, hi>>
     ELSE SearchFrom(NextStart(lo)) /\ UNCHANGED <<pc, line>>
  /\ UNCHANGED <<document, budget, held, tokens, chunks>>

-----------------------------------------------------------------------------
(* token_count is counted again, over the text of the whole piece.         *)
PieceTokens(p) ==
  IF p.reason = "token_window_fallback"
  THEN Tokens(document, p.first, p.from, p.to)
  ELSE Joined(document, p.first, p.last)

Build ==
  /\ pc = "build"
  /\ chunks' = [i \in 1 .. Len(pieces) |->
                  [index |-> i - 1, total_chunks |-> Len(pieces), span |-> pieces[i],
                   token_count |-> PieceTokens(pieces[i])]]
  /\ pc' = "done"
  /\ UNCHANGED <<document, budget, line, held, tokens, start, lo, hi, pieces>>

Next == PackLine \/ BeginSplit \/ EndPacking \/ Probe \/ CloseWindow \/ Build

Spec == Init /\ [][Next]_vars

(* count_tokens_batch returns.                                             *)
FairSpec == Spec /\ WF_vars(Next)

-----------------------------------------------------------------------------
(* Types; the packed lines stay within the budget the loop checks.         *)
TypeOK ==
  /\ document \in Documents /\ budget \in Nat \ {0}
  /\ pc \in {"pack", "search", "build", "done"}
  /\ line \in 1 .. Lines(document) + 1
  /\ held \in 0 .. line - 1 /\ tokens \in 0 .. budget /\ (held = 0 => tokens = 0)
  /\ start \in Nat /\ lo \in Nat /\ hi \in Nat
  /\ pieces \in Seq([reason : Reasons, first : 1 .. Lines(document),
                     last : 1 .. Lines(document), from : Nat, to : Nat])

(* q begins where p ends, on the next line, or inside p's line after p's   *)
(* start and not after its end.                                            *)
Follows(p, q) ==
  \/ /\ p.to = Words(document, p.last)
     /\ q.first = p.last + 1 /\ q.from = 0
  \/ /\ q.first = p.last
     /\ p.from < q.from /\ q.from <= p.to

Linked(ps) ==
  \A i \in 1 .. Len(ps) :
    IF i = 1 THEN ps[1].first = 1 /\ ps[1].from = 0
             ELSE Follows(ps[i - 1], ps[i])

(* The pieces ps end with the last word before line l.                     *)
EndsBefore(ps, l) ==
  IF ps = <<>> THEN l = 1
  ELSE LET p == ps[Len(ps)] IN p.last = l - 1 /\ p.to = Words(document, p.last)

(* "Every original word survives somewhere in the output", in order: the   *)
(* chunks begin with the first word, leave no gap, always advance, and the *)
(* last one ends with the last word.                                       *)
Survives ==
  Linked(pieces) /\ (pc \in {"build", "done"} => EndsBefore(pieces, Lines(document) + 1))

(* A chunk is within the budget, counted as the embedder will see it, unless *)
(* it is one word of a line that had to be cut.                            *)
WithinBudget ==
  pc = "done" => \A i \in 1 .. Len(pieces) :
    \/ chunks[i].token_count <= budget
    \/ /\ chunks[i].span.reason = "token_window_fallback"
       /\ chunks[i].span.to = chunks[i].span.from + 1

(* The binary search ends where the word-by-word scan would: a window is   *)
(* one word, or fits, and no longer one would.                             *)
WindowsMatchScan ==
  \A i \in 1 .. Len(pieces) :
    LET p == pieces[i] IN
    p.reason = "token_window_fallback" =>
      /\ p.to > p.from
      /\ p.to = p.from + 1 \/ Tokens(document, p.first, p.from, p.to) <= budget
      /\ \A e \in p.to + 1 .. Words(document, p.first) :
           Tokens(document, p.first, p.from, e) > budget

(* No split runs for ever, whatever the words cost.                        *)
Chunked == <>(pc = "done")

-----------------------------------------------------------------------------
(* Inductive strengthening (proved in ChunkerProofs).                      *)

(* Where the pieces end is where the loop goes on.                         *)
PlaceInv ==
  /\ Survives
  /\ pc = "pack" => EndsBefore(pieces, line - held)
  /\ pc = "search" =>
       IF start = 0 THEN EndsBefore(pieces, line)
       ELSE /\ pieces # <<>>
            /\ LET p == pieces[Len(pieces)] IN
               p.last = line /\ p.from < start /\ start <= p.to

(* The end is between lo, which will do, and hi, beyond which nothing does. *)
SearchInv ==
  pc = "search" =>
    /\ held = 0 /\ line <= Lines(document)
    /\ start < lo /\ lo <= hi /\ hi <= WordCount
    /\ lo = start + 1 \/ Count(start, lo) <= budget
    /\ hi = WordCount \/ Count(start, hi + 1) > budget

(* current_tokens is at least what the joined lines cost.                  *)
HeldInv == held > 0 => pc = "pack" /\ Joined(document, line - held, line - 1) <= tokens

PackedFit ==
  \A i \in 1 .. Len(pieces) :
    pieces[i].reason # "token_window_fallback" =>
      Joined(document, pieces[i].first, pieces[i].last) <= budget

ChunksInv ==
  pc = "done" =>
    chunks = [i \in 1 .. Len(pieces) |->
                [index |-> i - 1, total_chunks |-> Len(pieces), span |-> pieces[i],
                 token_count |-> PieceTokens(pieces[i])]]

ChunkerInv ==
  /\ TypeOK
  /\ PlaceInv
  /\ SearchInv
  /\ HeldInv
  /\ PackedFit
  /\ WindowsMatchScan
  /\ ChunksInv
=============================================================================
