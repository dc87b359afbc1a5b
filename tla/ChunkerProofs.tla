---------------------------- MODULE ChunkerProofs ----------------------------
(***************************************************************************)
(* Proofs about Chunker, for every document, budget and token count that    *)
(* satisfies its assumptions: no word is lost, no chunk is too long, and   *)
(* the binary search finds what a scan would; and, at the end, about the    *)
(* composition with Provisioning and DataLoad in MCChunkerParts.            *)
(***************************************************************************)
EXTENDS MCChunkerParts, TLAPS

Spans == [reason : Reasons, first : 1 .. Lines(document), last : 1 .. Lines(document),
          from : Nat, to : Nat]

(* What the constants give for the line the loop is at.                    *)
LEMMA LineFacts ==
  ASSUME TypeOK, line <= Lines(document)
  PROVE  /\ Lines(document) \in Nat
         /\ WordCount \in Nat \ {0}
         /\ LineTokens(document, line) \in Nat
         /\ Joined(document, line, line) = LineTokens(document, line)
         /\ \A s, e \in 0 .. WordCount : s < e => Count(s, e) \in Nat
BY SizesAssumption, TokensAssumption, JoinedAssumption
   DEF TypeOK, WordCount, LineTokens, Count

(* An overlap is at least one word.                                        *)
LEMMA OverlapPositive ==
  ASSUME NEW n \in Nat
  PROVE  Overlap(n) \in Nat \ {0}
<1>1. n * OverlapPercent \in Nat
  BY SizesAssumption
<1>2. (n * OverlapPercent) \div 100 \in Nat
  BY <1>1
<1> QED BY <1>2 DEF Overlap

(* The next window starts later than this one and not after its end.       *)
LEMMA NextStartBetween ==
  ASSUME TypeOK, start < lo
  PROVE  NextStart(lo) \in Nat /\ start < NextStart(lo) /\ NextStart(lo) <= lo
<1>1. Overlap(lo - start) \in Nat \ {0}
  BY OverlapPositive DEF TypeOK
<1> QED BY <1>1 DEF NextStart, TypeOK

(* The probed end lies strictly above lo.                                  *)
LEMMA MiddleBetween ==
  ASSUME NEW a \in Nat, NEW b \in Nat, a < b
  PROVE  (a + b + 1) \div 2 \in a + 1 .. b
OBVIOUS

LEMMA AppendFacts ==
  ASSUME NEW S, NEW q \in Seq(S), NEW x \in S
  PROVE  /\ Append(q, x) \in Seq(S)
         /\ Append(q, x) # <<>>
         /\ Len(q) \in Nat
         /\ Len(Append(q, x)) = Len(q) + 1
         /\ Append(q, x)[Len(q) + 1] = x
         /\ \A i \in 1 .. Len(q) : Append(q, x)[i] = q[i]
         /\ q # <<>> => Len(q) \in 1 .. Len(q)
<1>1. Len(q) \in Nat /\ Append(q, x) \in Seq(S)
  OBVIOUS
<1>2. Len(Append(q, x)) = Len(q) + 1
  OBVIOUS
<1>3. Append(q, x)[Len(q) + 1] = x /\ \A i \in 1 .. Len(q) : Append(q, x)[i] = q[i]
  OBVIOUS
<1>4. Append(q, x) # <<>>
  BY <1>1, <1>2
<1>5. q # <<>> => Len(q) \in 1 .. Len(q)
  OBVIOUS
<1> QED BY <1>1, <1>2, <1>3, <1>4, <1>5

LEMMA OnlyElement ==
  ASSUME NEW S, NEW q \in Seq(S), Len(q) = 1
  PROVE  q[1] \in S
OBVIOUS

(* The lines packed are one more piece.                                    *)
LEMMA PackedType ==
  ASSUME TypeOK, held > 0
  PROVE  Packed \in Spans
<1>1. line - held \in 1 .. Lines(document) /\ line - 1 \in 1 .. Lines(document)
  BY SizesAssumption DEF TypeOK
<1>2. Words(document, line - 1) \in Nat
  BY <1>1, SizesAssumption DEF TypeOK
<1> QED BY <1>1, <1>2 DEF Packed, Spans, Reasons

LEMMA FlushedType ==
  ASSUME TypeOK
  PROVE  Flushed \in Seq(Spans)
<1>1. pieces \in Seq(Spans)
  BY DEF TypeOK, Spans
<1>2. CASE held = 0
  BY <1>1, <1>2 DEF Flushed
<1>3. CASE held > 0
  <2>1. Flushed = Append(pieces, Packed)
    BY <1>3 DEF Flushed, TypeOK
  <2> QED BY <1>1, <1>3, <2>1, PackedType, AppendFacts
<1> QED BY <1>2, <1>3 DEF TypeOK

LEMMA WindowType ==
  ASSUME TypeOK, SearchInv, pc = "search"
  PROVE  Window \in Spans
BY DEF TypeOK, SearchInv, Window, Spans, Reasons

LEMMA InitOK == Init => ChunkerInv
<1> SUFFICES ASSUME Init PROVE ChunkerInv
  OBVIOUS
<1>1. budget \in Nat \ {0}
  BY SizesAssumption DEF Init
<1>2. TypeOK
  BY <1>1, SizesAssumption DEF Init, TypeOK
<1>3. PlaceInv
  BY DEF Init, PlaceInv, Survives, Linked, EndsBefore
<1>4. SearchInv /\ HeldInv /\ PackedFit /\ WindowsMatchScan /\ ChunksInv
  BY DEF Init, SearchInv, HeldInv, PackedFit, WindowsMatchScan, ChunksInv
<1> QED BY <1>2, <1>3, <1>4 DEF ChunkerInv

-----------------------------------------------------------------------------
LEMMA TypeStep == TypeOK /\ SearchInv /\ [Next]_vars => TypeOK'
<1> SUFFICES ASSUME TypeOK, SearchInv, [Next]_vars PROVE TypeOK'
  OBVIOUS
<1>0. Lines(document) \in Nat /\ Flushed \in Seq(Spans) /\ pieces \in Seq(Spans)
  BY FlushedType, SizesAssumption DEF TypeOK, Spans
<1>1. CASE PackLine
  <2>1. line \in 1 .. Lines(document) /\ LineTokens(document, line) \in 0 .. budget
    BY <1>1, LineFacts DEF PackLine, TypeOK
  <2>2. pieces' \in Seq(Spans) /\ document' = document /\ budget' = budget /\ pc' = pc
    BY <1>0, <1>1 DEF PackLine
  <2> DEFINE cost == LineTokens(document, line)
  <2>a. line' = line + 1 /\ line \in Nat \ {0} /\ held \in 0 .. line - 1
        /\ tokens \in 0 .. budget /\ cost \in 0 .. budget /\ budget \in Nat
    BY <1>1, <2>1 DEF PackLine, TypeOK
  <2>3. held' \in 1 .. line' - 1 /\ tokens' \in 0 .. budget /\ line' = line + 1
    <3>1. CASE Room(cost)
      <4>1. held' = held + 1 /\ tokens' = tokens + cost
        BY <1>1, <3>1 DEF PackLine
      <4>2. held = 0 => tokens = 0
        BY DEF TypeOK
      <4>3. tokens + cost <= budget
        BY <2>a, <3>1, <4>2 DEF Room
      <4> HIDE DEF cost
      <4> QED BY <2>a, <4>1, <4>3
    <3>2. CASE ~ Room(cost)
      <4>1. held' = 1 /\ tokens' = cost
        BY <1>1, <3>2 DEF PackLine
      <4> HIDE DEF cost
      <4> QED BY <2>a, <4>1
    <3> QED BY <3>1, <3>2
  <2>4. start' = start /\ lo' = lo /\ hi' = hi
    BY <1>1 DEF PackLine
  <2> QED BY <1>0, <2>1, <2>2, <2>3, <2>4 DEF TypeOK, Spans
<1>2. CASE BeginSplit
  <2>1. WordCount \in Nat
    BY <1>2, LineFacts DEF BeginSplit
  <2> QED BY <1>0, <1>2, <2>1 DEF BeginSplit, SearchFrom, TypeOK, Spans
<1>3. CASE EndPacking
  <2>1. pieces' \in Seq(Spans)
    <3>1. CASE Len(Flushed) = 1 /\ Flushed[1].reason = "field_packed"
      <4>1. Flushed[1] \in Spans
        BY <1>0, <3>1, OnlyElement
      <4>2. [Flushed[1] EXCEPT !.reason = "single_chunk"] \in Spans
        BY <4>1 DEF Spans, Reasons
      <4> QED BY <1>3, <3>1, <4>2 DEF EndPacking
    <3>2. CASE ~ (Len(Flushed) = 1 /\ Flushed[1].reason = "field_packed")
      BY <1>0, <1>3, <3>2 DEF EndPacking
    <3> QED BY <3>1, <3>2
  <2> QED BY <1>3, <2>1 DEF EndPacking, TypeOK, Spans
<1>4. CASE Probe
  <2>1. Middle \in lo + 1 .. hi
    BY <1>4, MiddleBetween DEF Probe, Middle, TypeOK
  <2> QED BY <1>4, <2>1 DEF Probe, TypeOK
<1>5. CASE CloseWindow
  <2>1. pc = "search" /\ Window \in Spans
    BY <1>5, WindowType DEF CloseWindow
  <2>2. pieces' \in Seq(Spans)
    BY <1>0, <1>5, <2>1, AppendFacts DEF CloseWindow
  <2>3. NextStart(lo) \in Nat /\ WordCount \in Nat /\ line \in 1 .. Lines(document)
    BY <2>1, NextStartBetween, LineFacts DEF SearchInv, TypeOK
  <2>4. line' \in 1 .. Lines(document) + 1 /\ held' \in 0 .. line' - 1
    <3>1. CASE lo >= WordCount
      <4>1. line' = line + 1 /\ held' = held
        BY <1>5, <3>1 DEF CloseWindow
      <4>2. line \in Nat /\ held \in 0 .. line - 1 /\ Lines(document) \in Nat
        BY <1>0, <2>3 DEF TypeOK
      <4>3. document' = document
        BY <1>5 DEF CloseWindow
      <4> QED BY <2>3, <4>1, <4>2, <4>3
    <3>2. CASE ~ (lo >= WordCount)
      BY <1>5, <2>3, <3>2 DEF CloseWindow, TypeOK
    <3> QED BY <3>1, <3>2
  <2>5. start' \in Nat /\ lo' \in Nat /\ hi' \in Nat
    BY <1>5, <2>3 DEF CloseWindow, SearchFrom, TypeOK
  <2> QED BY <1>5, <2>2, <2>4, <2>5 DEF CloseWindow, TypeOK, Spans
<1>6. CASE Build
  BY <1>6 DEF Build, TypeOK
<1>7. CASE UNCHANGED vars
  BY <1>7 DEF vars, TypeOK
<1> QED BY <1>1, <1>2, <1>3, <1>4, <1>5, <1>6, <1>7 DEF Next

LEMMA SearchStep == TypeOK /\ SearchInv /\ [Next]_vars => SearchInv'
<1> SUFFICES ASSUME TypeOK, SearchInv, [Next]_vars PROVE SearchInv'
  OBVIOUS
<1>1. CASE PackLine
  BY <1>1 DEF PackLine, SearchInv
<1>2. CASE BeginSplit
  <2>1. WordCount \in Nat \ {0}
    BY <1>2, LineFacts DEF BeginSplit
  <2> QED BY <1>2, <2>1 DEF BeginSplit, SearchFrom, SearchInv, WordCount
<1>3. CASE EndPacking
  BY <1>3 DEF EndPacking, SearchInv
<1>4. CASE Probe
  <2>1. Middle \in lo + 1 .. hi
    BY <1>4, MiddleBetween DEF Probe, Middle, TypeOK
  <2>2. WordCount \in Nat /\ \A s, e \in 0 .. WordCount : s < e => Count(s, e) \in Nat
    BY <1>4, LineFacts DEF Probe, SearchInv
  <2>3. Count(start, Middle) \in Nat
    BY <1>4, <2>1, <2>2 DEF Probe, SearchInv, TypeOK
  <2> QED BY <1>4, <2>1, <2>2, <2>3 DEF Probe, SearchInv, Fits, Count, WordCount, TypeOK
<1>5. CASE CloseWindow
  <2>1. CASE lo >= WordCount
    BY <1>5, <2>1 DEF CloseWindow, SearchInv
  <2>2. CASE ~ (lo >= WordCount)
    <3>1. pc = "search" /\ WordCount \in Nat /\ start < lo
      BY <1>5, LineFacts DEF CloseWindow, SearchInv
    <3>2. NextStart(lo) \in Nat /\ NextStart(lo) <= lo
      BY <3>1, NextStartBetween
    <3> QED BY <1>5, <2>2, <3>1, <3>2
            DEF CloseWindow, SearchFrom, SearchInv, WordCount, TypeOK
  <2> QED BY <2>1, <2>2
<1>6. CASE Build
  BY <1>6 DEF Build, SearchInv
<1>7. CASE UNCHANGED vars
  BY <1>7 DEF vars, SearchInv, WordCount, Count
<1> QED BY <1>1, <1>2, <1>3, <1>4, <1>5, <1>6, <1>7 DEF Next

-----------------------------------------------------------------------------
(* A piece that goes on where the pieces end keeps them linked.            *)
LEMMA LinkedAppend ==
  ASSUME TypeOK, Linked(pieces), NEW p \in Spans,
         pieces = <<>> => p.first = 1 /\ p.from = 0,
         pieces # <<>> => Follows(pieces[Len(pieces)], p)
  PROVE  LET ps == Append(pieces, p) IN Linked(ps) /\ ps # <<>> /\ ps[Len(ps)] = p
<1> DEFINE ps == Append(pieces, p)
<1>1. pieces \in Seq(Spans)
  BY DEF TypeOK, Spans
<1>2. /\ Len(ps) = Len(pieces) + 1 /\ Len(pieces) \in Nat
      /\ ps # <<>> /\ ps[Len(pieces) + 1] = p
      /\ \A i \in 1 .. Len(pieces) : ps[i] = pieces[i]
  BY <1>1, AppendFacts
<1>3. pieces = <<>> <=> Len(pieces) = 0
  BY <1>1
<1> HIDE DEF ps
<1>4. ASSUME NEW i \in 1 .. Len(ps)
      PROVE  IF i = 1 THEN ps[1].first = 1 /\ ps[1].from = 0 ELSE Follows(ps[i - 1], ps[i])
  <2>1. CASE i \in 1 .. Len(pieces)
    BY <1>2, <2>1 DEF Linked
  <2>2. CASE i = Len(pieces) + 1
    BY <1>2, <1>3, <2>2
  <2> QED BY <1>2, <1>4, <2>1, <2>2
<1>5. Linked(ps)
  BY <1>4 DEF Linked
<1> QED BY <1>2, <1>5 DEF ps

(* After a flush the pieces end with the line before the loop's.           *)
LEMMA FlushedPlace ==
  ASSUME TypeOK, PlaceInv, pc = "pack"
  PROVE  Linked(Flushed) /\ EndsBefore(Flushed, line)
<1>1. CASE held = 0
  <2>1. Flushed = pieces /\ line - held = line
    BY <1>1 DEF Flushed, TypeOK
  <2> QED BY <2>1 DEF PlaceInv, Survives
<1>2. CASE held > 0
  <2>1. Packed \in Spans /\ Flushed = Append(pieces, Packed)
    BY <1>2, PackedType DEF Flushed, TypeOK
  <2>2. pieces = <<>> => Packed.first = 1 /\ Packed.from = 0
    BY DEF PlaceInv, EndsBefore, Packed
  <2>3. pieces # <<>> => Follows(pieces[Len(pieces)], Packed)
    <3> SUFFICES ASSUME pieces # <<>> PROVE Follows(pieces[Len(pieces)], Packed)
      OBVIOUS
    <3>1. /\ pieces[Len(pieces)].last = line - held - 1
          /\ pieces[Len(pieces)].to = Words(document, pieces[Len(pieces)].last)
      BY DEF PlaceInv, EndsBefore
    <3> QED BY <3>1 DEF Follows, Packed, TypeOK
  <2>4. Linked(Flushed) /\ Flushed # <<>> /\ Flushed[Len(Flushed)] = Packed
    BY <2>1, <2>2, <2>3, LinkedAppend DEF PlaceInv, Survives
  <2> QED BY <2>4 DEF EndsBefore, Packed
<1> QED BY <1>1, <1>2 DEF TypeOK

LEMMA PlaceStep == TypeOK /\ SearchInv /\ PlaceInv /\ [Next]_vars => PlaceInv'
<1> SUFFICES ASSUME TypeOK, SearchInv, PlaceInv, [Next]_vars PROVE PlaceInv'
  OBVIOUS
<1>1. CASE PackLine
  <2>1. pc = "pack" /\ pc' = "pack" /\ document' = document /\ line' = line + 1
        /\ line \in Nat /\ held \in Nat
    BY <1>1 DEF PackLine, TypeOK
  <2>2. CASE Room(LineTokens(document, line))
    <3>1. pieces' = pieces /\ line' - held' = line - held
      BY <1>1, <2>1, <2>2 DEF PackLine
    <3> QED BY <2>1, <3>1 DEF PlaceInv, Survives, Linked, Follows, EndsBefore
  <2>3. CASE ~ Room(LineTokens(document, line))
    <3>1. pieces' = Flushed /\ line' - held' = line
      BY <1>1, <2>1, <2>3 DEF PackLine
    <3> QED BY <2>1, <3>1, FlushedPlace DEF PlaceInv, Survives, Linked, Follows, EndsBefore
  <2> QED BY <2>2, <2>3
<1>2. CASE BeginSplit
  <2>1. pc = "pack" /\ pc' = "search" /\ document' = document /\ line' = line
        /\ pieces' = Flushed /\ start' = 0
    BY <1>2 DEF BeginSplit, SearchFrom
  <2> QED BY <2>1, FlushedPlace DEF PlaceInv, Survives, Linked, Follows, EndsBefore
<1>3. CASE EndPacking
  <2>1. pc = "pack" /\ pc' = "build" /\ document' = document
        /\ line = Lines(document) + 1 /\ Lines(document) \in Nat
    BY <1>3, SizesAssumption DEF EndPacking, TypeOK
  <2>2. CASE Len(Flushed) = 1 /\ Flushed[1].reason = "field_packed"
    <3> DEFINE p == [Flushed[1] EXCEPT !.reason = "single_chunk"]
    <3>1. Flushed \in Seq(Spans) /\ Flushed[1] \in Spans
      BY <2>2, FlushedType, OnlyElement
    <3>2. p.first = Flushed[1].first /\ p.last = Flushed[1].last
          /\ p.from = Flushed[1].from /\ p.to = Flushed[1].to
      BY <3>1 DEF Spans
    <3>3. Flushed # <<>>
      BY <2>2
    <3>4. p.first = 1 /\ p.from = 0 /\ p.last = Lines(document)
          /\ p.to = Words(document, p.last)
      BY <2>1, <2>2, <3>2, <3>3, FlushedPlace DEF Linked, EndsBefore
    <3>5. pieces' = <<p>>
      BY <1>3, <2>2 DEF EndPacking
    <3> HIDE DEF p
    <3>6. pieces' # <<>> /\ Len(pieces') = 1 /\ pieces'[1] = p
      BY <3>5
    <3>7. Linked(pieces)' /\ EndsBefore(pieces, Lines(document) + 1)'
      BY <2>1, <3>4, <3>6 DEF Linked, EndsBefore
    <3> QED BY <2>1, <3>7 DEF PlaceInv, Survives
  <2>3. CASE ~ (Len(Flushed) = 1 /\ Flushed[1].reason = "field_packed")
    <3>1. pieces' = Flushed
      BY <1>3, <2>3 DEF EndPacking
    <3> QED BY <2>1, <3>1, FlushedPlace DEF PlaceInv, Survives, Linked, Follows, EndsBefore
  <2> QED BY <2>2, <2>3
<1>4. CASE Probe
  BY <1>4 DEF Probe, PlaceInv, Survives, Linked, Follows, EndsBefore
<1>5. CASE CloseWindow
  <2>1. pc = "search" /\ document' = document /\ pieces' = Append(pieces, Window)
        /\ held = 0 /\ held' = held
    BY <1>5 DEF CloseWindow, SearchInv
  <2>2. Window \in Spans /\ Window.first = line /\ Window.last = line
        /\ Window.from = start /\ Window.to = lo
    BY <2>1, WindowType DEF Window
  <2>3. pieces = <<>> => Window.first = 1 /\ Window.from = 0
    BY <2>1, <2>2 DEF PlaceInv, EndsBefore
  <2>4. pieces # <<>> => Follows(pieces[Len(pieces)], Window)
    <3>1. line \in Nat
      BY DEF TypeOK
    <3> QED BY <2>1, <2>2, <3>1 DEF PlaceInv, EndsBefore, Follows
  <2>5. Linked(pieces)' /\ pieces' # <<>> /\ pieces'[Len(pieces')] = Window
    <3>1. Linked(pieces') /\ pieces' # <<>> /\ pieces'[Len(pieces')] = Window
      BY <2>1, <2>2, <2>3, <2>4, LinkedAppend DEF PlaceInv, Survives
    <3> QED BY <2>1, <3>1 DEF Linked, Follows
  <2>6. CASE lo >= WordCount
    <3>1. pc' = "pack" /\ line' = line + 1 /\ line \in Nat
      BY <1>5, <2>6 DEF CloseWindow, TypeOK
    <3>2. lo = WordCount
      BY <2>1, <2>6, LineFacts DEF SearchInv, TypeOK
    <3>3. EndsBefore(pieces, line - held)'
      BY <2>1, <2>2, <2>5, <3>1, <3>2 DEF EndsBefore, WordCount
    <3> QED BY <2>1, <2>5, <3>1, <3>3 DEF PlaceInv, Survives
  <2>7. CASE ~ (lo >= WordCount)
    <3>1. pc' = pc /\ line' = line /\ start' = NextStart(lo)
      BY <1>5, <2>7 DEF CloseWindow, SearchFrom
    <3>2. start' \in Nat /\ start < start' /\ start' <= lo /\ start \in Nat
      BY <2>1, <3>1, NextStartBetween DEF SearchInv, TypeOK
    <3> QED BY <2>1, <2>2, <2>5, <3>1, <3>2 DEF PlaceInv, Survives
  <2> QED BY <2>6, <2>7
<1>6. CASE Build
  BY <1>6 DEF Build, PlaceInv, Survives, Linked, Follows, EndsBefore
<1>7. CASE UNCHANGED vars
  BY <1>7 DEF vars, PlaceInv, Survives, Linked, Follows, EndsBefore
<1> QED BY <1>1, <1>2, <1>3, <1>4, <1>5, <1>6, <1>7 DEF Next

-----------------------------------------------------------------------------
LEMMA HeldStep == TypeOK /\ SearchInv /\ HeldInv /\ [Next]_vars => HeldInv'
<1> SUFFICES ASSUME TypeOK, SearchInv, HeldInv, [Next]_vars PROVE HeldInv'
  OBVIOUS
<1>1. CASE PackLine
  <2>1. pc' = "pack" /\ document' = document /\ line' = line + 1
        /\ line \in 1 .. Lines(document) /\ Lines(document) \in Nat
    BY <1>1, LineFacts DEF PackLine, TypeOK
  <2>2. /\ LineTokens(document, line) \in Nat
        /\ Joined(document, line, line) = LineTokens(document, line)
    BY <2>1, LineFacts
  <2>3. CASE Room(LineTokens(document, line)) /\ held > 0
    <3>1. held' = held + 1 /\ tokens' = tokens + LineTokens(document, line)
      BY <1>1, <2>3 DEF PackLine
    <3>2. line - held \in 1 .. Lines(document) /\ line - held < line /\ held \in Nat
          /\ tokens \in Nat /\ document \in Documents
      BY <2>1, <2>3 DEF TypeOK
    <3>3. Joined(document, line - held, line)
            <= Joined(document, line - held, line - 1) + LineTokens(document, line)
      BY <2>1, <3>2, JoinedAssumption
    <3>4. /\ Joined(document, line - held, line - 1) \in Nat
          /\ Joined(document, line - held, line) \in Nat
      <4>1. line - 1 \in 1 .. Lines(document) /\ line - held <= line - 1
        BY <2>1, <3>2, <2>3
      <4> QED BY <2>1, <3>2, <4>1, JoinedAssumption
    <3>5. Joined(document, line - held, line - 1) <= tokens
      BY <2>3 DEF HeldInv
    <3>6. line' - held' = line - held /\ line' - 1 = line
      BY <2>1, <3>1, <3>2
    <3>7. Joined(document, line - held, line) <= tokens'
      BY <2>2, <3>1, <3>2, <3>3, <3>4, <3>5
    <3> QED BY <2>1, <3>6, <3>7 DEF HeldInv
  <2>4. CASE ~ (Room(LineTokens(document, line)) /\ held > 0)
    <3>1. held' = 1 /\ tokens' = LineTokens(document, line)
      <4>1. CASE held = 0
        <5>1. Room(LineTokens(document, line)) /\ tokens = 0
          BY <4>1 DEF Room, TypeOK
        <5> QED BY <1>1, <2>2, <4>1, <5>1 DEF PackLine
      <4>2. CASE held > 0
        BY <1>1, <2>4, <4>2 DEF PackLine
      <4> QED BY <4>1, <4>2 DEF TypeOK
    <3>2. line' - held' = line /\ line' - 1 = line
      BY <2>1, <3>1
    <3> QED BY <2>1, <2>2, <3>1, <3>2 DEF HeldInv
  <2> QED BY <2>3, <2>4
<1>2. CASE BeginSplit
  BY <1>2 DEF BeginSplit, HeldInv
<1>3. CASE EndPacking
  BY <1>3 DEF EndPacking, HeldInv
<1>4. CASE Probe
  BY <1>4 DEF Probe, HeldInv, SearchInv
<1>5. CASE CloseWindow
  BY <1>5 DEF CloseWindow, HeldInv, SearchInv
<1>6. CASE Build
  BY <1>6 DEF Build, HeldInv
<1>7. CASE UNCHANGED vars
  BY <1>7 DEF vars, HeldInv
<1> QED BY <1>1, <1>2, <1>3, <1>4, <1>5, <1>6, <1>7 DEF Next

-----------------------------------------------------------------------------
(* What is to hold of each piece by itself.                                *)
GoodPiece(p) ==
  /\ p.reason # "token_window_fallback" => Joined(document, p.first, p.last) <= budget
  /\ p.reason = "token_window_fallback" =>
       /\ p.to > p.from
       /\ p.to = p.from + 1 \/ Tokens(document, p.first, p.from, p.to) <= budget
       /\ \A e \in p.to + 1 .. Words(document, p.first) :
            Tokens(document, p.first, p.from, e) > budget

GoodPieces(ps) == \A i \in 1 .. Len(ps) : GoodPiece(ps[i])

LEMMA GoodIsBoth == GoodPieces(pieces) <=> PackedFit /\ WindowsMatchScan
BY DEF GoodPieces, GoodPiece, PackedFit, WindowsMatchScan

LEMMA GoodAppend ==
  ASSUME NEW ps \in Seq(Spans), GoodPieces(ps), NEW p \in Spans, GoodPiece(p)
  PROVE  GoodPieces(Append(ps, p))
<1> DEFINE qs == Append(ps, p)
<1>1. /\ Len(qs) = Len(ps) + 1 /\ Len(ps) \in Nat /\ qs[Len(ps) + 1] = p
      /\ \A i \in 1 .. Len(ps) : qs[i] = ps[i]
  BY AppendFacts
<1> HIDE DEF qs
<1>2. ASSUME NEW i \in 1 .. Len(qs) PROVE GoodPiece(qs[i])
  <2>1. CASE i \in 1 .. Len(ps)
    BY <1>1, <2>1 DEF GoodPieces
  <2>2. CASE i = Len(ps) + 1
    BY <1>1, <2>2
  <2> QED BY <1>1, <1>2, <2>1, <2>2
<1> QED BY <1>2 DEF GoodPieces, qs

(* The flushed lines fit: their joined text costs at most current_tokens.  *)
LEMMA FlushedGood ==
  ASSUME TypeOK, HeldInv, GoodPieces(pieces)
  PROVE  GoodPieces(Flushed)
<1>1. pieces \in Seq(Spans)
  BY DEF TypeOK, Spans
<1>2. CASE held = 0
  BY <1>2 DEF Flushed
<1>3. CASE held > 0
  <2>1. Packed \in Spans /\ Flushed = Append(pieces, Packed)
    BY <1>3, PackedType DEF Flushed, TypeOK
  <2>2. line - held \in 1 .. Lines(document) /\ line - 1 \in 1 .. Lines(document)
        /\ line - held <= line - 1 /\ document \in Documents
    BY <1>3, SizesAssumption DEF TypeOK
  <2>3. Joined(document, line - held, line - 1) \in Nat
    BY <2>2, JoinedAssumption
  <2>4. Joined(document, line - held, line - 1) <= budget
    BY <1>3, <2>3 DEF HeldInv, TypeOK
  <2>5. GoodPiece(Packed)
    BY <2>4 DEF GoodPiece, Packed
  <2> QED BY <1>1, <2>1, <2>5, GoodAppend
<1> QED BY <1>2, <1>3 DEF TypeOK

(* When lo meets hi, what is beyond does not fit, by monotonicity.         *)
LEMMA WindowGood ==
  ASSUME TypeOK, SearchInv, pc = "search", lo >= hi
  PROVE  GoodPiece(Window)
<1>1. /\ lo = hi /\ start < lo /\ lo <= WordCount /\ WordCount \in Nat
      /\ start \in Nat /\ lo \in Nat /\ line \in 1 .. Lines(document)
      /\ document \in Documents /\ budget \in Nat
  BY LineFacts DEF SearchInv, TypeOK
<1>2. ASSUME NEW e \in lo + 1 .. WordCount
      PROVE  Tokens(document, line, start, e) > budget
  <2>1. Count(start, lo + 1) > budget
    BY <1>1, <1>2 DEF SearchInv
  <2>2. start \in 0 .. WordCount /\ e \in 0 .. WordCount /\ start < e
        /\ lo + 1 \in start + 1 .. e /\ lo + 1 \in 0 .. WordCount /\ start < lo + 1
    BY <1>1
  <2>3. /\ Tokens(document, line, start, e) \in Nat
        /\ Tokens(document, line, start, lo + 1) <= Tokens(document, line, start, e)
        /\ Tokens(document, line, start, lo + 1) \in Nat
    BY <1>1, <2>2, TokensAssumption DEF WordCount
  <2> QED BY <1>1, <2>1, <2>3 DEF Count
<1>3. lo = start + 1 \/ Tokens(document, line, start, lo) <= budget
  BY DEF SearchInv, Count
<1> QED BY <1>1, <1>2, <1>3 DEF GoodPiece, Window, WordCount

LEMMA GoodStep ==
  ASSUME TypeOK, SearchInv, HeldInv, PackedFit, WindowsMatchScan, [Next]_vars
  PROVE  PackedFit' /\ WindowsMatchScan'
<1>0. GoodPieces(pieces) /\ GoodPieces(Flushed)
  BY GoodIsBoth, FlushedGood
<1>a. document' = document /\ budget' = budget
  BY DEF Next, PackLine, BeginSplit, EndPacking, Probe, CloseWindow, Build, vars
<1> SUFFICES GoodPieces(pieces')
  BY <1>a DEF GoodPieces, GoodPiece, PackedFit, WindowsMatchScan
<1>1. CASE PackLine
  BY <1>0, <1>1 DEF PackLine
<1>2. CASE BeginSplit
  BY <1>0, <1>2 DEF BeginSplit
<1>3. CASE EndPacking
  <2>1. CASE Len(Flushed) = 1 /\ Flushed[1].reason = "field_packed"
    <3> DEFINE p == [Flushed[1] EXCEPT !.reason = "single_chunk"]
    <3>1. Flushed[1] \in Spans
      BY <2>1, FlushedType, OnlyElement
    <3>2. p.first = Flushed[1].first /\ p.last = Flushed[1].last /\ p.reason = "single_chunk"
      BY <3>1 DEF Spans
    <3>3. pieces' = <<p>>
      BY <1>3, <2>1 DEF EndPacking
    <3> HIDE DEF p
    <3>4. Len(pieces') = 1 /\ pieces'[1] = p
      BY <3>3
    <3>5. GoodPiece(Flushed[1])
      BY <1>0, <2>1 DEF GoodPieces
    <3>6. GoodPiece(p)
      BY <2>1, <3>2, <3>5 DEF GoodPiece
    <3> QED BY <3>4, <3>6 DEF GoodPieces
  <2>2. CASE ~ (Len(Flushed) = 1 /\ Flushed[1].reason = "field_packed")
    BY <1>0, <1>3, <2>2 DEF EndPacking
  <2> QED BY <2>1, <2>2
<1>4. CASE Probe
  BY <1>0, <1>4 DEF Probe
<1>5. CASE CloseWindow
  <2>1. Window \in Spans /\ GoodPiece(Window)
    BY <1>5, WindowType, WindowGood DEF CloseWindow
  <2>2. pieces \in Seq(Spans)
    BY DEF TypeOK, Spans
  <2> QED BY <1>0, <1>5, <2>1, <2>2, GoodAppend DEF CloseWindow
<1>6. CASE Build
  BY <1>0, <1>6 DEF Build
<1>7. CASE UNCHANGED vars
  BY <1>0, <1>7 DEF vars
<1> QED BY <1>1, <1>2, <1>3, <1>4, <1>5, <1>6, <1>7 DEF Next

LEMMA ChunksStep == ChunksInv /\ [Next]_vars => ChunksInv'
<1> SUFFICES ASSUME ChunksInv, [Next]_vars PROVE ChunksInv'
  OBVIOUS
<1>1. CASE PackLine \/ BeginSplit \/ EndPacking \/ Probe \/ CloseWindow
  BY <1>1 DEF PackLine, BeginSplit, EndPacking, Probe, CloseWindow, ChunksInv
<1>2. CASE Build
  BY <1>2 DEF Build, ChunksInv, PieceTokens
<1>3. CASE UNCHANGED vars
  BY <1>3 DEF vars, ChunksInv, PieceTokens
<1> QED BY <1>1, <1>2, <1>3 DEF Next

-----------------------------------------------------------------------------
(* The inductive invariant of the chunker's loops.                         *)
THEOREM ChunkerInvariant == Spec => []ChunkerInv
<1>1. ChunkerInv /\ [Next]_vars => ChunkerInv'
  BY TypeStep, SearchStep, PlaceStep, HeldStep, GoodStep, ChunksStep DEF ChunkerInv
<1> QED BY <1>1, InitOK, PTL DEF Spec

(* The loops' variables keep their types; current_tokens never passes the   *)
(* budget.                                                                 *)
THEOREM ChunkerTypeCorrect == Spec => []TypeOK
<1>1. ChunkerInv => TypeOK
  BY DEF ChunkerInv
<1> QED BY <1>1, ChunkerInvariant, PTL

(* Every word of the document is in a chunk, in order and without a gap.   *)
THEOREM NoWordIsLost == Spec => []Survives
<1>1. ChunkerInv => Survives
  BY DEF ChunkerInv, PlaceInv
<1> QED BY <1>1, ChunkerInvariant, PTL

(* The windows of an oversized line are those of a word-by-word scan.       *)
THEOREM SearchIsScan == Spec => []WindowsMatchScan
<1>1. ChunkerInv => WindowsMatchScan
  BY DEF ChunkerInv
<1> QED BY <1>1, ChunkerInvariant, PTL

(* No chunk exceeds the budget, but for a single word that does.           *)
THEOREM ChunksFit == Spec => []WithinBudget
<1>1. ChunkerInv => WithinBudget
  <2> SUFFICES ASSUME ChunkerInv, pc = "done", NEW i \in 1 .. Len(pieces)
               PROVE  \/ chunks[i].token_count <= budget
                      \/ /\ chunks[i].span.reason = "token_window_fallback"
                         /\ chunks[i].span.to = chunks[i].span.from + 1
    BY DEF WithinBudget
  <2>1. chunks[i].token_count = PieceTokens(pieces[i]) /\ chunks[i].span = pieces[i]
    BY DEF ChunkerInv, ChunksInv
  <2> QED BY <2>1 DEF ChunkerInv, PackedFit, WindowsMatchScan, PieceTokens
<1> QED BY <1>1, ChunkerInvariant, PTL

-----------------------------------------------------------------------------
(***************************************************************************)
(* Side by side with Provisioning and DataLoad (MCChunkerParts).  PP and DP  *)
(* have the theorems of these parts about the variables of the composition; *)
(* their Init and Next unfold to those of P and D.                          *)
(***************************************************************************)
PP == INSTANCE ProvisioningProofs WITH pc <- place
DP == INSTANCE DataLoadProofs

(* What the models declare and what the version file makes of it.           *)
LEMMA SameModels == P!Models = PP!Models
BY Zenon
   DEF P!Models, PP!Models, P!CaseRecord, PP!CaseRecord, P!Criminal,
       PP!Criminal, P!VehicleDetail, PP!VehicleDetail, P!PartyDetail,
       PP!PartyDetail, P!AddressDetail, PP!AddressDetail, P!CaseCharge,
       PP!CaseCharge, P!PaymentRecord, PP!PaymentRecord,
       P!ImposedDisposition, PP!ImposedDisposition, P!ImposedSanction,
       PP!ImposedSanction, P!CaseAppearance, PP!CaseAppearance, P!Table,
       PP!Table, P!Unique, PP!Unique, P!OfCase, PP!OfCase, P!Required,
       PP!Required, P!UniqueIf, PP!UniqueIf, P!Optional, PP!Optional

LEMMA SameCreates == P!Creates = PP!Creates
BY Zenon
   DEF P!Creates, PP!Creates, P!CreateCaseRecord, PP!CreateCaseRecord,
       P!CreateCaseCharge, PP!CreateCaseCharge, P!CreateCriminal,
       PP!CreateCriminal, P!CreatePartyDetail, PP!CreatePartyDetail,
       P!CreatePaymentRecord, PP!CreatePaymentRecord, P!CreateVehicleDetail,
       PP!CreateVehicleDetail, P!CreateAddressDetail, PP!CreateAddressDetail,
       P!CreateCaseAppearance, PP!CreateCaseAppearance,
       P!CreateImposedDisposition, PP!CreateImposedDisposition,
       P!CreateImposedSanction, PP!CreateImposedSanction, P!Table, PP!Table,
       P!Index, PP!Index, P!CaseKey, PP!CaseKey, P!ChargeKey, PP!ChargeKey

LEMMA SameSchema ==
  /\ P!Created = PP!Created /\ P!Dropped = PP!Dropped
  /\ \A S : /\ P!Names(S) = PP!Names(S)
            /\ P!UpgradeRuns(S) <=> PP!UpgradeRuns(S)
            /\ P!DowngradeRuns(S) <=> PP!DowngradeRuns(S)
<1>1. P!Created = PP!Created /\ P!Dropped = PP!Dropped
  BY Zenon, SameCreates DEF P!Created, PP!Created, P!Dropped, PP!Dropped, P!Drops, PP!Drops
<1>2. \A S : P!Names(S) = PP!Names(S) /\ P!Needs(S) = PP!Needs(S)
  BY Zenon DEF P!Names, PP!Names, P!Needs, PP!Needs
<1>3. \A S : P!UpgradeRuns(S) <=> PP!UpgradeRuns(S)
  <2>1. \A i : {P!Creates[j].name : j \in 1 .. i - 1} = {PP!Creates[j].name : j \in 1 .. i - 1}
    BY SameCreates
  <2> QED BY Zenon, <2>1, SameCreates, <1>2 DEF P!UpgradeRuns, PP!UpgradeRuns
<1>4. \A S : P!DowngradeRuns(S) <=> PP!DowngradeRuns(S)
  BY Zenon, <1>2 DEF P!DowngradeRuns, PP!DowngradeRuns, P!Drops, PP!Drops
<1> QED BY Zenon, <1>1, <1>2, <1>3, <1>4

LEMMA SameProvisioning == (P!Init => PP!Init) /\ (P!Next => PP!Next)
<1> USE DEF P!UpgradeAll, PP!UpgradeAll, P!Goto, PP!Goto, P!Abort, PP!Abort,
            P!RunDone, PP!RunDone, P!SchemaDone, PP!SchemaDone, P!Plan, PP!Plan,
            P!Stopped, PP!Stopped, P!database, PP!database
<1>1. P!Init => PP!Init
  BY Zenon DEF P!Init, PP!Init
<1>2. \A o, k : P!Begin(o, k) => PP!Begin(o, k)
  BY Zenon DEF P!Begin, PP!Begin, P!Order, PP!Order
<1>3. \A o : P!PlanConfig(o) \/ P!RunConfig(o) => PP!PlanConfig(o) \/ PP!RunConfig(o)
  BY Zenon DEF P!PlanConfig, PP!PlanConfig, P!RunConfig, PP!RunConfig, P!UpgradeConfig,
               PP!UpgradeConfig, P!DowngradeConfig, PP!DowngradeConfig
<1>4. \A o : P!RunSchema(o) => PP!RunSchema(o)
  BY Zenon, SameSchema
     DEF P!RunSchema, PP!RunSchema, P!UpgradeSchema, PP!UpgradeSchema,
         P!DowngradeSchema, PP!DowngradeSchema
<1>5. \A o : P!Progress(o) => PP!Progress(o)
  BY Zenon, <1>3, <1>4
     DEF P!Progress, PP!Progress, P!NextRun, PP!NextRun, P!ListAgencies, PP!ListAgencies,
         P!PlanSchema, PP!PlanSchema
<1>6. \A o : P!Die(o) => PP!Die(o)
  BY Zenon DEF P!Die, PP!Die
<1>7. \A a : P!CreateTables(a) => PP!CreateTables(a)
  <2>1. \A S : {t \in P!Models : t.name \notin P!Names(S)} = {t \in PP!Models : t.name \notin PP!Names(S)}
    BY SameModels, SameSchema
  <2> QED BY Zenon, <2>1 DEF P!CreateTables, PP!CreateTables, P!Outside, PP!Outside
<1>8. \A a : P!Register(a) => PP!Register(a)
  BY Zenon DEF P!Register, PP!Register, P!Outside, PP!Outside, P!Registered, PP!Registered
<1>9. P!Commands = PP!Commands
  BY Zenon DEF P!Commands, PP!Commands, P!Targets, PP!Targets
<1>10. P!Next => PP!Next
  BY Zenon, <1>2, <1>5, <1>6, <1>7, <1>8, <1>9 DEF P!Next, PP!Next
<1> QED BY <1>1, <1>10

(* The tables and the rows of a document.                                   *)
LEMMA SameModel == D!Model = DP!Model
BY Zenon
   DEF D!Model, DP!Model, D!Tables, DP!Tables, D!Models, DP!Models,
       D!TABLE_ORDER, DP!TABLE_ORDER, D!CaseRecord, DP!CaseRecord,
       D!Criminal, DP!Criminal, D!VehicleDetail, DP!VehicleDetail,
       D!PartyDetail, DP!PartyDetail, D!AddressDetail, DP!AddressDetail,
       D!CaseCharge, DP!CaseCharge, D!PaymentRecord, DP!PaymentRecord,
       D!ImposedDisposition, DP!ImposedDisposition, D!ImposedSanction,
       DP!ImposedSanction, D!CaseAppearance, DP!CaseAppearance, D!Table,
       DP!Table, D!Unique, DP!Unique, D!OfCase, DP!OfCase, D!Required,
       DP!Required, D!UniqueIf, DP!UniqueIf, D!Optional, DP!Optional

LEMMA SameRows == \A k : D!LoadRows(k) = DP!LoadRows(k)
BY Zenon DEF D!LoadRows, DP!LoadRows, D!Tables, DP!Tables, D!RowsOf, DP!RowsOf,
         D!CasesIn, DP!CasesIn, D!TABLE_ORDER, DP!TABLE_ORDER, D!BuildRows,
         DP!BuildRows, D!IdMap, DP!IdMap, D!IdPairs, DP!IdPairs, D!Remap,
         DP!Remap, D!Pairs, DP!Pairs

(* What a statement inserts, what it waits for and what refuses it.         *)
LEMMA SameStatement ==
  \A o : /\ D!Inserting(o) <=> DP!Inserting(o)
         /\ D!Current(o) = DP!Current(o)
         /\ D!Fresh(o) = DP!Fresh(o)
         /\ \A p : D!Waits(o, p) <=> DP!Waits(o, p)
         /\ D!Waiting(o) <=> DP!Waiting(o)
         /\ D!Accepted(o) <=> DP!Accepted(o)
<1> TAKE o
<1>1. D!Inserting(o) <=> DP!Inserting(o)
  BY DEF D!Inserting, DP!Inserting
<1>2. D!Current(o) = DP!Current(o)
  BY Zenon DEF D!Current, DP!Current, D!TABLE_ORDER, DP!TABLE_ORDER
<1>3. D!Values(o) = DP!Values(o)
  BY Zenon, <1>2, SameRows DEF D!Values, DP!Values
<1>4. \A t : D!Sees(o, t) = DP!Sees(o, t)
  BY DEF D!Sees, DP!Sees
<1>5. D!New(o) = DP!New(o)
  BY Zenon, <1>2, <1>3, <1>4 DEF D!New, DP!New
<1>6. D!Fresh(o) = DP!Fresh(o)
  BY SMT, <1>5 DEF D!Fresh, DP!Fresh
<1>7. \A t, r, s : D!SameKey(t, r, s) <=> DP!SameKey(t, r, s)
  BY Zenon, SameModel DEF D!SameKey, DP!SameKey, D!Indexed, DP!Indexed
<1>8. \A p : D!Waits(o, p) <=> DP!Waits(o, p)
  BY Zenon, <1>1, <1>2, <1>6, <1>7 DEF D!Waits, DP!Waits
<1>9. D!Waiting(o) <=> DP!Waiting(o)
  BY Zenon, <1>8 DEF D!Waiting, DP!Waiting
<1>13. \A t, r : D!Typed(t, r) <=> DP!Typed(t, r)
  BY Zenon, SameModel DEF D!Typed, DP!Typed
<1>10. \A r : D!RefersWell(o, r) <=> DP!RefersWell(o, r)
  BY Zenon, SameModel, <1>2, <1>4, <1>6 DEF D!RefersWell, DP!RefersWell
<1>11. D!UniqueKeys(o) <=> DP!UniqueKeys(o)
  BY Zenon, <1>2, <1>4, <1>6, <1>7 DEF D!UniqueKeys, DP!UniqueKeys
<1>12. D!Accepted(o) <=> DP!Accepted(o)
  BY Zenon, <1>2, <1>3, <1>6, <1>10, <1>11, <1>13 DEF D!Accepted, DP!Accepted
<1> QED BY Zenon, <1>1, <1>2, <1>6, <1>8, <1>9, <1>12

LEMMA SameLoad == (D!Init => DP!Init) /\ (D!Next => DP!Next)
<1> USE DEF D!Tables, DP!Tables, D!TABLE_ORDER, DP!TABLE_ORDER, D!NoRows, DP!NoRows
<1>1. D!Init => DP!Init
  BY Zenon DEF D!Init, DP!Init
<1>2. \A o : D!Start(o) => DP!Start(o)
  BY Zenon DEF D!Start, DP!Start
<1>3. \A o : D!Upsert(o) => DP!Upsert(o)
  BY Zenon, SameStatement DEF D!Upsert, DP!Upsert
<1>4. \A o : D!Commit(o) => DP!Commit(o)
  BY Zenon DEF D!Commit, DP!Commit, D!DocumentsOf, DP!DocumentsOf, D!CasesIn, DP!CasesIn
<1>8. \A o : D!Report(o) => DP!Report(o)
  BY Zenon DEF D!Report, DP!Report, D!Close, DP!Close, D!DocumentsOf, DP!DocumentsOf,
               D!CasesIn, DP!CasesIn
<1>5. \A o : D!Refused(o) \/ D!Die(o) => DP!Refused(o) \/ DP!Die(o)
  BY Zenon, SameStatement
     DEF D!Refused, DP!Refused, D!Die, DP!Die, D!Abandon, DP!Abandon, D!Close, DP!Close
<1>6. \A t, r : D!Deactivate(t, r) => DP!Deactivate(t, r)
  BY Zenon DEF D!Cardinality, DP!Cardinality, D!Deactivate, DP!Deactivate, D!loaderVars, DP!loaderVars
<1>7. D!Next => DP!Next
  BY Zenon, <1>2, <1>3, <1>4, <1>5, <1>6, <1>8 DEF D!Next, DP!Next
<1> QED BY <1>1, <1>7

LEMMA SameAssumption == DP!DocumentsAssumption
BY Zenon, DocumentsAssumption
   DEF DocumentsAssumption, DP!DocumentsAssumption, References, DP!References, UuidsOf, DP!UuidsOf, IdPairs, DP!IdPairs,
       Pairs, DP!Pairs

(* Every behaviour of the composition is one of Provisioning and one of     *)
(* DataLoad: a step of another part leaves their variables alone.           *)
LEMMA PartsAreTheirs == MCSpec => PP!Spec /\ DP!Spec
<1>1. MCInit => PP!Init /\ DP!Init
  BY SameProvisioning, SameLoad DEF MCInit
<1> DEFINE Step == [Chunk \/ Provision \/ Load]_<<focus, vars, provisioning, load>>
<1>2. Step => [PP!Next]_(PP!vars)
  <2>1. CASE Chunk \/ Load \/ UNCHANGED <<focus, vars, provisioning, load>>
    BY <2>1 DEF Chunk, Load, provisioning, PP!vars, PP!database
  <2>2. CASE Provision
    BY <2>2, SameProvisioning DEF Provision
  <2> QED BY <2>1, <2>2
<1>3. Step => [DP!Next]_(DP!vars)
  <2>1. CASE Chunk \/ Provision \/ UNCHANGED <<focus, vars, provisioning, load>>
    BY <2>1 DEF Chunk, Provision, load, DP!vars
  <2>2. CASE Load
    BY <2>2, SameLoad DEF Load
  <2> QED BY <2>1, <2>2
<1> QED BY <1>1, <1>2, <1>3, PTL DEF MCSpec, PP!Spec, DP!Spec

(* Beside the chunker: the version row of the schema its documents come from *)
(* says the truth about its tables, whatever commands raced or died.        *)
THEOREM DocumentsHaveTables == MCSpec => []VersionIsTrue
<1>1. PP!VersionIsTrue => VersionIsTrue
  BY Zenon, SameModels, SameSchema DEF VersionIsTrue, P!VersionIsTrue, PP!VersionIsTrue
<1> QED BY <1>1, PartsAreTheirs, ProvisioningAssumption, PP!VersionRowIsTrue, PTL

(* ... the list of agencies goes last,                                      *)
THEOREM AgenciesOutliveSchemas == MCSpec => []ConfigLast
<1>1. PP!ConfigLast => ConfigLast
  BY Zenon
     DEF ConfigLast, P!ConfigLast, PP!ConfigLast, P!Registered, PP!Registered
<1> QED BY <1>1, PartsAreTheirs, ProvisioningAssumption, PP!ConfigGoesLast, PTL

(* ... and exit code 0 of an undisturbed run_migrations means it is done.    *)
THEOREM ExitCodeHolds == MCSpec => []ExitMeansDone
<1>1. PP!ExitMeansDone => ExitMeansDone
  BY Zenon
     DEF ExitMeansDone, P!ExitMeansDone, PP!ExitMeansDone, P!Registered, PP!Registered
<1> QED BY <1>1, PartsAreTheirs, ProvisioningAssumption, PP!ExitCodeIsTrue, PTL

(* Each row a document is made of, and each that discovery finds through    *)
(* others, belongs to the case that was loaded,                             *)
THEOREM DocumentsStayApart == MCSpec => []StaysInCase
<1>1. D!Tables = DP!Tables /\ \A t, r : D!CaseOf(t, r) = DP!CaseOf(t, r)
  BY Zenon DEF D!Tables, DP!Tables, D!TABLE_ORDER, DP!TABLE_ORDER, D!CaseOf, DP!CaseOf
<1>2. \A k : D!UuidsOf(k) = DP!UuidsOf(k)
  BY Zenon DEF D!UuidsOf, DP!UuidsOf, D!IdPairs, DP!IdPairs, D!Pairs, DP!Pairs
<1>4. \A k : D!discover_all(k) = DP!discover_all(k)
  BY Zenon
     DEF D!discover_all, DP!discover_all, D!Through, DP!Through, D!Children, DP!Children,
         D!Related, DP!Related, D!Active, DP!Active, D!Tables, DP!Tables, D!TABLE_ORDER,
         DP!TABLE_ORDER
<1>5. \A t : D!Active(t) = DP!Active(t)
  BY Zenon DEF D!Active, DP!Active
<1>6. DP!StaysInCase => D!StaysInCase
  <2> DEFINE ofCase(k) == UNION {DP!UuidsOf(d) : d \in {v \in Cases : v.uuid = k.uuid}}
             ofCaseD(k) == UNION {D!UuidsOf(d) : d \in {v \in Cases : v.uuid = k.uuid}}
  <2>1. \A k : ofCase(k) = ofCaseD(k)
    BY Zenon, <1>2
  <2>2. DP!StaysInCase <=>
          /\ \A k \in Cases : \A t \in DP!Tables : \A r \in db[t] :
               r.id \in DP!UuidsOf(k) =>
                 /\ DP!CaseOf(t, r) = k.uuid
                 /\ \A ref \in DP!Model[t].refs : r[ref.column] \in ofCase(k) \cup {Null}
          /\ \A k \in DP!Active("case_record"), t \in DP!Tables :
               \A r \in DP!discover_all(k)[t] : DP!CaseOf(t, r) = k.id
    BY Zenon DEF DP!StaysInCase
  <2>3. D!StaysInCase <=>
          /\ \A k \in Cases : \A t \in D!Tables : \A r \in db[t] :
               r.id \in D!UuidsOf(k) =>
                 /\ D!CaseOf(t, r) = k.uuid
                 /\ \A ref \in D!Model[t].refs : r[ref.column] \in ofCaseD(k) \cup {Null}
          /\ \A k \in D!Active("case_record"), t \in D!Tables :
               \A r \in D!discover_all(k)[t] : D!CaseOf(t, r) = k.id
    BY Zenon DEF D!StaysInCase
  <2> HIDE DEF ofCase, ofCaseD
  <2> QED
    BY Zenon, SameModel, <1>1, <1>2, <1>4, <1>5, <2>1, <2>2, <2>3
<1>3. DP!StaysInCase => StaysInCase
  BY <1>6 DEF StaysInCase
<1> QED BY <1>3, PartsAreTheirs, SameAssumption, DP!RowsStayInCase, PTL

(* ... the rows there are those of whole loads, among them the ones that     *)
(* said "Done.",                                                            *)
THEOREM DocumentsAreLoaded == MCSpec => []DoneMeansLoaded
<1>1. DP!DoneMeansLoaded => DoneMeansLoaded
  BY Zenon
     DEF DoneMeansLoaded, D!DoneMeansLoaded, DP!DoneMeansLoaded, D!Tables, DP!Tables,
         D!RowsOf, DP!RowsOf, D!TABLE_ORDER, DP!TABLE_ORDER, D!BuildRows,
         DP!BuildRows, D!IdMap, DP!IdMap, D!IdPairs, DP!IdPairs, D!Remap,
         DP!Remap, D!Pairs, DP!Pairs
<1> QED BY <1>1, PartsAreTheirs, SameAssumption, DP!DoneIsLoaded, PTL

(* ... and loading again what was committed is refused nowhere and changes  *)
(* nothing.                                                                 *)
THEOREM DocumentsLoadTwice == MCSpec => []RerunIsIdempotent
<1>1. \A o : D!DocumentsOf(directory[o]) = DP!DocumentsOf(directory[o])
  BY Zenon DEF D!DocumentsOf, DP!DocumentsOf, D!CasesIn, DP!CasesIn
<1>2. DP!RerunIsIdempotent => RerunIsIdempotent
  BY Zenon, <1>1, SameStatement DEF RerunIsIdempotent, D!RerunIsIdempotent, DP!RerunIsIdempotent
<1> QED BY <1>2, PartsAreTheirs, SameAssumption, DP!RerunChangesNothing, PTL
=============================================================================
