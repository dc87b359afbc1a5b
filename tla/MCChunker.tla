------------------------------ MODULE MCChunker ------------------------------
(* Documents are sequences of lines, a line the sequence of what its words   *)
(* cost; every text counted has one special token more.                    *)
EXTENDS Chunker, SequencesExt

CONSTANTS LongLine, WordCosts

Upto(n, S) == UNION {[1 .. k -> S] : k \in 1 .. n}

(* One line of up to LongLine words, or up to three short lines.           *)
MCDocuments ==
  {<<>>} \cup {<<l>> : l \in Upto(LongLine, WordCosts)}
         \cup UNION {[1 .. k -> Upto(2, WordCosts)] : k \in 2 .. 3}

Cost(ws, s, e) == FoldSeq(+, 0, SubSeq(ws, s + 1, e))

MCLines(d) == Len(d)
MCWords(d, l) == Len(d[l])
MCTokens(d, l, s, e) == 1 + Cost(d[l], s, e)
MCJoined(d, f, l) == 1 + Cost(FlattenSeq(SubSeq(d, f, l)), 0, Len(FlattenSeq(SubSeq(d, f, l))))
=============================================================================
