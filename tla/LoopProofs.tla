------------------------------ MODULE LoopProofs ------------------------------
(* Theorems about the way of a correction into a model: the disagreement log  *)
(* (FeedbackLog) alone and under the loop (Dataset), and the rows the gate    *)
(* judges a model on.                                                         *)
EXTENDS Dataset, SequenceTheorems, TLAPS

(* The disagreement log.  Where the parts are: only the writing goroutine has *)
(* a signal in hand, it ends with the channel closed and drained, and a call  *)
(* of Close returns after it.                                                 *)
LogPlaced ==
  /\ writer # "writing" => hand = NoSignal
  /\ writer = "done" => chClosed /\ ch = << >>
  /\ \A c \in Closers : closer[c] # "out" => chClosed
  /\ \A c \in Closers : closer[c] = "returned" => writer = "done"

(* The history of accepted signals: what Record answered true, each once.     *)
SentOnce ==
  /\ Elements(sent) = {s \in Signals : recorded[s] = "true"}
  /\ unwritten \subseteq Elements(sent)
  /\ \A k, l \in 1 .. Len(sent) : sent[k] = sent[l] => k = l

LogInv == TypeOK /\ LogPlaced /\ SentOnce /\ RowsInOrder

(* Rows that are in order stay so when the one at p goes, and its signal is   *)
(* given up.                                                                  *)
LEMMA RowGivenUp ==
  ASSUME NEW rows \in Seq(Signals), NEW kept \in Seq(Signals), NEW p \in 1 .. Len(rows),
         Len(kept) = Len(rows) - 1,
         \A i \in 1 .. Len(kept) : kept[i] = IF i < p THEN rows[i] ELSE rows[i + 1],
         InOrder(rows), SentOnce, TypeOK, sent' = sent, unwritten' = unwritten \union {rows[p]}
  PROVE  InOrder(kept)'
<1>1. \A i \in 1 .. Len(rows) : \E k \in 1 .. Len(sent) : rows[i] = sent[k]
  BY DEF InOrder, Elements
<1>2. \A i, j \in 1 .. Len(rows) : rows[i] = rows[j] => i = j
  <2> SUFFICES ASSUME NEW i \in 1 .. Len(rows), NEW j \in 1 .. Len(rows), rows[i] = rows[j], i < j
               PROVE  FALSE
    OBVIOUS
  <2>1. PICK k \in 1 .. Len(sent) : rows[i] = sent[k]
    BY <1>1
  <2>2. k < k
    BY <2>1 DEF InOrder
  <2> QED
    BY <2>2
<1>3. \A i \in 1 .. Len(kept) :
        \E j \in 1 .. Len(rows) : j # p /\ j = (IF i < p THEN i ELSE i + 1) /\ kept[i] = rows[j]
  OBVIOUS
<1>4. \A j \in 1 .. Len(rows) : j # p => \E i \in 1 .. Len(kept) : kept[i] = rows[j]
  <2> TAKE j \in 1 .. Len(rows)
  <2> HAVE j # p
  <2> DEFINE i == IF j < p THEN j ELSE j - 1
  <2>1. i \in 1 .. Len(kept) /\ kept[i] = rows[j]
    OBVIOUS
  <2> QED
    BY <2>1
<1>5. Elements(kept) = Elements(rows) \ {rows[p]}
  <2>1. ASSUME NEW x \in Elements(kept) PROVE x \in Elements(rows) \ {rows[p]}
    <3>1. PICK i \in 1 .. Len(kept) : x = kept[i]
      BY <2>1 DEF Elements
    <3>2. PICK j \in 1 .. Len(rows) : j # p /\ kept[i] = rows[j]
      BY <1>3
    <3> QED
      BY <1>2, <3>1, <3>2 DEF Elements
  <2>2. ASSUME NEW x \in Elements(rows) \ {rows[p]} PROVE x \in Elements(kept)
    <3>1. PICK j \in 1 .. Len(rows) : x = rows[j] /\ j # p
      BY <2>2 DEF Elements
    <3> QED
      BY <1>4, <3>1 DEF Elements
  <2> QED
    BY <2>1, <2>2
<1>6. Elements(kept)' = Elements(sent)' \ unwritten'
  BY <1>5 DEF InOrder, Elements
<1>7. \A i, j \in 1 .. Len(kept), k, l \in 1 .. Len(sent) :
        i < j /\ kept[i] = sent[k] /\ kept[j] = sent[l] => k < l
  <2> TAKE i, j \in 1 .. Len(kept), k, l \in 1 .. Len(sent)
  <2> HAVE i < j /\ kept[i] = sent[k] /\ kept[j] = sent[l]
  <2>1. PICK m \in 1 .. Len(rows) : m = (IF i < p THEN i ELSE i + 1) /\ kept[i] = rows[m]
    BY <1>3
  <2>2. PICK n \in 1 .. Len(rows) : n = (IF j < p THEN j ELSE j + 1) /\ kept[j] = rows[n]
    BY <1>3
  <2>3. m < n
    BY <2>1, <2>2
  <2> QED
    BY <2>1, <2>2, <2>3 DEF InOrder
<1> QED
  BY <1>6, <1>7 DEF InOrder

(* A line without its middle: every row stays where it is or moves up.        *)
LEMMA LineWithout ==
  ASSUME NEW f \in Seq(Signals), NEW x \in Signals, NEW c \in Seq(Signals),
         NEW rows, rows = f \o <<x>> \o c, NEW kept, kept = f \o c
  PROVE  LET p == Len(f) + 1
         IN  /\ rows \in Seq(Signals) /\ kept \in Seq(Signals)
             /\ p \in 1 .. Len(rows) /\ rows[p] = x
             /\ Len(kept) = Len(rows) - 1
             /\ \A i \in 1 .. Len(kept) : kept[i] = IF i < p THEN rows[i] ELSE rows[i + 1]
<1> DEFINE g == f \o <<x>>
<1>1. g = Append(f, x) /\ Len(f) \in Nat /\ Len(c) \in Nat
  BY AppendIsConcat
<1>2. g \in Seq(Signals) /\ Len(g) = Len(f) + 1 /\ g[Len(f) + 1] = x /\ \A i \in 1 .. Len(f) : g[i] = f[i]
  BY <1>1
<1> HIDE DEF g
<1>3. rows = g \o c
  BY DEF g
<1>4. /\ rows \in Seq(Signals) /\ Len(rows) = Len(g) + Len(c)
      /\ \A i \in 1 .. Len(g) + Len(c) : rows[i] = IF i <= Len(g) THEN g[i] ELSE c[i - Len(g)]
  BY <1>2, <1>3, ConcatProperties
<1>5. /\ kept \in Seq(Signals) /\ Len(kept) = Len(f) + Len(c)
      /\ \A i \in 1 .. Len(f) + Len(c) : kept[i] = IF i <= Len(f) THEN f[i] ELSE c[i - Len(f)]
  BY ConcatProperties
<1>6. Len(f) + 1 \in 1 .. Len(rows) /\ rows[Len(f) + 1] = x /\ Len(kept) = Len(rows) - 1
  BY <1>1, <1>2, <1>4, <1>5
<1>7. ASSUME NEW i \in 1 .. Len(kept)
      PROVE  kept[i] = IF i < Len(f) + 1 THEN rows[i] ELSE rows[i + 1]
  <2>1. CASE i <= Len(f)
    BY <1>1, <1>2, <1>4, <1>5, <2>1
  <2>2. CASE ~ (i <= Len(f))
    <3>1. /\ i + 1 \in 1 .. Len(g) + Len(c) /\ ~ (i + 1 <= Len(g)) /\ ~ (i < Len(f) + 1)
          /\ i \in 1 .. Len(f) + Len(c) /\ (i + 1) - Len(g) = i - Len(f)
      BY <1>1, <1>2, <1>5, <2>2
    <3> QED
      BY <1>4, <1>5, <2>2, <3>1
  <2> QED
    BY <2>1, <2>2
<1> QED
  BY <1>4, <1>5, <1>6, <1>7

(* Rows in order after a step are the line in order, if they are the line.    *)
LEMMA LineInOrder ==
  ASSUME NEW rows, rows = file' \o InHand' \o ch',
         Elements(rows) = Elements(sent') \ unwritten',
         \A i, j \in 1 .. Len(rows), k, l \in 1 .. Len(sent') :
           i < j /\ rows[i] = sent'[k] /\ rows[j] = sent'[l] => k < l
  PROVE  RowsInOrder'
  BY DEF RowsInOrder, InOrder, Elements

(* One more entry is one more element. *)
LEMMA OneMore ==
  ASSUME NEW f, NEW g, NEW s, NEW n \in Nat, Len(f) = n, Len(g) = n + 1, g[n + 1] = s,
         \A i \in 1 .. n : g[i] = f[i]
  PROVE  Elements(g) = Elements(f) \union {s}
<1>1. \A x : x \in Elements(f) <=> \E i \in 1 .. n : f[i] = x
  BY DEF Elements
<1>2. \A x : x \in Elements(g) <=> \E i \in 1 .. n + 1 : g[i] = x
  BY DEF Elements
<1>3. n + 1 \in 1 .. n + 1 /\ \A i \in 1 .. n + 1 : i \in 1 .. n \/ i = n + 1
  OBVIOUS
<1>4. 1 .. n \subseteq 1 .. n + 1
  OBVIOUS
<1>5. ASSUME NEW x PROVE x \in Elements(g) <=> x \in Elements(f) \/ x = s
  <2>1. ASSUME x \in Elements(f) \/ x = s PROVE x \in Elements(g)
    BY <1>1, <1>2, <1>3, <1>4, <2>1
  <2>2. ASSUME x \in Elements(g) PROVE x \in Elements(f) \/ x = s
    BY <1>1, <1>2, <1>3, <2>2
  <2> QED
    BY <2>1, <2>2
<1> QED
  BY <1>5

(* Record accepts a signal: it comes behind all entries and behind all that   *)
(* were accepted before.                                                      *)
LEMMA RowAdded ==
  ASSUME LogInv, NEW s \in Signals, RecordTrue(s)
  PROVE  RowsInOrder' /\ SentOnce'
<1> DEFINE rows == file \o InHand \o ch
<1>1. /\ ch \in Seq(Signals) /\ ch' = Append(ch, s) /\ sent \in Seq(Signals) /\ sent' = Append(sent, s)
      /\ UNCHANGED <<file, hand, unwritten>> /\ recorded[s] = "none"
  BY DEF RecordTrue, LogInv, TypeOK
<1>2. /\ Len(sent) \in Nat /\ Len(sent') = Len(sent) + 1 /\ sent'[Len(sent) + 1] = s
      /\ \A k \in 1 .. Len(sent) : sent'[k] = sent[k]
  BY <1>1
<1>3. file \o InHand \in Seq(Signals)
  BY DEF LogInv, TypeOK, InHand
<1>4. rows \in Seq(Signals) /\ rows' = Append(rows, s)
  <2>1. rows' = (file \o InHand) \o (ch \o <<s>>)
    BY <1>1, AppendIsConcat DEF InHand
  <2>2. rows \in Seq(Signals) /\ Append(rows, s) = rows \o <<s>>
    BY <1>1, <1>3, ConcatProperties, AppendIsConcat
  <2>3. <<s>> \in Seq(Signals)
    OBVIOUS
  <2>4. (file \o InHand) \o (ch \o <<s>>) = ((file \o InHand) \o ch) \o <<s>>
    BY <1>1, <1>3, <2>3, ConcatAssociative
  <2> QED
    BY <2>1, <2>2, <2>4
<1> HIDE DEF rows
<1>5. /\ Len(rows) \in Nat /\ Len(rows') = Len(rows) + 1 /\ rows'[Len(rows) + 1] = s
      /\ \A i \in 1 .. Len(rows) : rows'[i] = rows[i]
  BY <1>4
<1>6. s \notin Elements(sent) /\ s \notin unwritten
  BY <1>1 DEF LogInv, SentOnce
<1>7. /\ Elements(sent)' = Elements(sent) \union {s}
      /\ Elements(rows)' = Elements(rows) \union {s}
  <2>1. Elements(sent') = Elements(sent) \union {s}
    BY <1>2, OneMore
  <2>2. Elements(rows') = Elements(rows) \union {s}
    BY <1>5, OneMore
  <2> QED
    BY <2>1, <2>2 DEF Elements
<1>8. SentOnce'
  <2>1. {q \in Signals : recorded'[q] = "true"} = {q \in Signals : recorded[q] = "true"} \union {s}
    BY DEF RecordTrue, LogInv, TypeOK
  <2>2. \A k, l \in 1 .. Len(sent') : sent'[k] = sent'[l] => k = l
    BY <1>2, <1>6 DEF LogInv, SentOnce, Elements
  <2> QED
    BY <1>1, <1>7, <2>1, <2>2 DEF LogInv, SentOnce
<1>9. InOrder(rows) /\ s \notin Elements(rows)
  BY <1>6 DEF LogInv, RowsInOrder, InOrder, rows
<1>10. Elements(rows)' = Elements(sent)' \ unwritten'
  BY <1>1, <1>6, <1>7, <1>9 DEF InOrder
<1>11. \A i, j \in 1 .. Len(rows'), k, l \in 1 .. Len(sent') :
         i < j /\ rows'[i] = sent'[k] /\ rows'[j] = sent'[l] => k < l
  <2> TAKE i, j \in 1 .. Len(rows'), k, l \in 1 .. Len(sent')
  <2> HAVE i < j /\ rows'[i] = sent'[k] /\ rows'[j] = sent'[l]
  <2>1. i \in 1 .. Len(rows) /\ rows'[i] = rows[i] /\ rows[i] # s
    BY <1>5, <1>9 DEF Elements
  <2>2. k \in 1 .. Len(sent) /\ sent'[k] = sent[k]
    <3>1. k # Len(sent) + 1
      BY <1>2, <2>1
    <3> QED
      BY <1>2, <3>1
  <2>3. CASE j = Len(rows) + 1
    <3>1. l = Len(sent) + 1
      BY <1>2, <1>5, <1>6, <2>3 DEF Elements
    <3> QED
      BY <1>2, <2>2, <3>1
  <2>4. CASE j # Len(rows) + 1
    <3>1. j \in 1 .. Len(rows) /\ rows'[j] = rows[j] /\ rows[j] # s
      BY <1>5, <1>9, <2>4 DEF Elements
    <3>2. l \in 1 .. Len(sent) /\ sent'[l] = sent[l]
      <4>1. l # Len(sent) + 1
        BY <1>2, <3>1
      <4> QED
        BY <1>2, <4>1
    <3> QED
      BY <1>9, <2>1, <2>2, <3>1, <3>2 DEF InOrder
  <2> QED
    BY <2>3, <2>4
<1> QED
  BY <1>8, <1>10, <1>11 DEF RowsInOrder, InOrder, Elements, rows

(* The next signal of the channel stands behind the rows.                     *)
LEMMA LineOfNext ==
  ASSUME NEW f \in Seq(Signals), NEW c \in Seq(Signals), c # << >>
  PROVE  /\ Head(c) \in Signals /\ Tail(c) \in Seq(Signals)
         /\ f \o << >> \o c = f \o <<Head(c)>> \o Tail(c)
<1> DEFINE x == Head(c)
           d == Tail(c)
<1>1. x \in Signals /\ d \in Seq(Signals) /\ c = <<x>> \o d /\ <<x>> \in Seq(Signals)
  OBVIOUS
<1> HIDE DEF x, d
<1>2. (f \o <<x>>) \o d = f \o (<<x>> \o d)
  BY <1>1, ConcatAssociative
<1>3. f \o << >> = f
  BY ConcatEmptySeq
<1> QED
  BY <1>1, <1>2, <1>3 DEF x, d

(* The writer takes a signal into its hand, or puts it into the file: each    *)
(* leaves the line as it is.                                                  *)
LEMMA LineSame ==
  ASSUME LogInv, Receive \/ EncodeOk
  PROVE  RowsInOrder'
<1>1. file \in Seq(Signals) /\ ch \in Seq(Signals) /\ hand \in Signals \union {NoSignal}
  BY DEF LogInv, TypeOK
<1>2. PICK rows : /\ rows = file \o InHand \o ch
                  /\ Elements(rows) = Elements(sent) \ unwritten
                  /\ \A i, j \in 1 .. Len(rows), k, l \in 1 .. Len(sent) :
                       i < j /\ rows[i] = sent[k] /\ rows[j] = sent[l] => k < l
  BY DEF LogInv, RowsInOrder, InOrder
<1>3. CASE Receive
  <2>1. /\ hand = NoSignal /\ file' = file /\ hand' = Head(ch) /\ ch' = Tail(ch) /\ ch # << >>
        /\ Head(ch) # NoSignal
    BY <1>1, <1>3, FeedbackAssumption DEF Receive, Taken
  <2>2. file \o << >> \o ch = file \o <<Head(ch)>> \o Tail(ch)
    BY <1>1, <2>1, LineOfNext
  <2>3. InHand = << >> /\ InHand' = <<Head(ch)>>
    BY <2>1 DEF InHand
  <2>4. rows = file' \o InHand' \o ch'
    BY <1>2, <2>1, <2>2, <2>3
  <2> QED
    BY <1>2, <1>3, <2>4, LineInOrder DEF Receive
<1>4. CASE EncodeOk
  <2>1. /\ hand # NoSignal /\ hand \in Signals /\ ch' = ch
        /\ hand' = NoSignal /\ file' = Append(file, hand)
    BY <1>1, <1>4 DEF EncodeOk
  <2>2. Append(file, hand) \in Seq(Signals) /\ Append(file, hand) = file \o <<hand>>
    BY <1>1, <2>1, AppendIsConcat
  <2>3. Append(file, hand) \o << >> = Append(file, hand)
    BY <2>2, ConcatEmptySeq
  <2>4. InHand = <<hand>> /\ InHand' = << >>
    BY <2>1 DEF InHand
  <2>5. rows = file' \o InHand' \o ch'
    BY <1>2, <2>1, <2>2, <2>3, <2>4
  <2> QED
    BY <1>2, <1>4, <2>5, LineInOrder DEF EncodeOk
<1> QED
  BY <1>3, <1>4

(* A row is given up: the signal in hand when encoding fails, or the next one *)
(* in the channel when the file could not be opened.                          *)
LEMMA RowDropped ==
  ASSUME LogInv, EncodeError \/ Discard
  PROVE  RowsInOrder' /\ SentOnce'
<1>1. /\ file \in Seq(Signals) /\ ch \in Seq(Signals) /\ hand \in Signals \union {NoSignal}
      /\ TypeOK /\ SentOnce
  BY DEF LogInv, TypeOK
<1>2. PICK x \in Signals, c \in Seq(Signals) :
        /\ InOrder(file \o <<x>> \o c)
        /\ file' \o InHand' \o ch' = file \o c
        /\ unwritten' = unwritten \union {x}
  <2>1. CASE EncodeError
    <3>1. /\ hand # NoSignal /\ hand \in Signals /\ hand' = NoSignal
          /\ file' = file /\ ch' = ch /\ unwritten' = unwritten \union {hand}
      BY <1>1, <2>1 DEF EncodeError
    <3>2. InOrder(file \o <<hand>> \o ch)
      BY <3>1 DEF LogInv, RowsInOrder, InHand
    <3>3. file \o << >> = file
      BY <1>1, ConcatEmptySeq
    <3>4. file' \o InHand' \o ch' = file \o ch
      BY <3>1, <3>3 DEF InHand
    <3> QED
      BY <1>1, <3>1, <3>2, <3>4
  <2>2. CASE Discard
    <3>1. /\ hand = NoSignal /\ hand' = NoSignal /\ file' = file /\ ch # << >> /\ ch' = Tail(ch)
          /\ unwritten' = unwritten \union {Head(ch)}
      BY <1>1, <2>2 DEF Discard, Taken, LogInv, LogPlaced
    <3>2. InOrder(file \o << >> \o ch)
      BY <3>1 DEF LogInv, RowsInOrder, InHand
    <3>3. /\ Head(ch) \in Signals /\ Tail(ch) \in Seq(Signals)
          /\ file \o << >> \o ch = file \o <<Head(ch)>> \o Tail(ch)
      BY <1>1, <3>1, LineOfNext
    <3>4. file \o << >> = file
      BY <1>1, ConcatEmptySeq
    <3>5. file' \o InHand' \o ch' = file \o Tail(ch)
      BY <3>1, <3>4 DEF InHand
    <3>6. InOrder(file \o <<Head(ch)>> \o Tail(ch))
      BY <3>2, <3>3
    <3> QED
      BY <3>1, <3>3, <3>5, <3>6
  <2> QED
    BY <2>1, <2>2
<1>3. PICK rows, kept : rows = file \o <<x>> \o c /\ kept = file \o c
  OBVIOUS
<1> DEFINE p == Len(file) + 1
<1>4. /\ p \in 1 .. Len(rows)
        /\ rows \in Seq(Signals) /\ kept \in Seq(Signals) /\ rows[p] = x
        /\ Len(kept) = Len(rows) - 1
        /\ \A i \in 1 .. Len(kept) : kept[i] = IF i < p THEN rows[i] ELSE rows[i + 1]
  BY <1>1, <1>3, LineWithout
<1>5. sent' = sent /\ recorded' = recorded
  BY DEF EncodeError, Discard
<1>6. InOrder(kept)'
  BY <1>1, <1>2, <1>3, <1>4, <1>5, RowGivenUp
<1>7. x \in Elements(sent)
  BY <1>2, <1>3, <1>4 DEF InOrder, Elements
<1>8. RowsInOrder'
  <2>1. /\ kept = file' \o InHand' \o ch'
        /\ Elements(kept) = Elements(sent') \ unwritten'
        /\ \A i, j \in 1 .. Len(kept), k, l \in 1 .. Len(sent') :
             i < j /\ kept[i] = sent'[k] /\ kept[j] = sent'[l] => k < l
    BY <1>2, <1>3, <1>6 DEF InOrder, Elements
  <2> QED
    BY <2>1, LineInOrder
<1>9. SentOnce'
  BY <1>1, <1>2, <1>5, <1>7 DEF SentOnce, Elements
<1> QED
  BY <1>8, <1>9

(* Every step keeps the types, a buffer within its capacity among them.       *)
LEMMA LogTyped ==
  ASSUME TypeOK, LogPlaced, Next
  PROVE  TypeOK'
<1> USE FeedbackAssumption
<1>1. CASE Start
  BY <1>1 DEF TypeOK, Start
<1>2. CASE Open
  BY <1>2 DEF TypeOK, Open, AfterOpen
<1>3. ASSUME NEW s \in Signals, Record(s)
      PROVE  TypeOK'
  <2>1. CASE RecordTrue(s)
    <3>1. /\ ch \in Seq(Signals) /\ sent \in Seq(Signals) /\ Len(ch) < BufferCap
          /\ ch' = Append(ch, s) /\ sent' = Append(sent, s)
      BY <2>1 DEF TypeOK, RecordTrue, HasRoom
    <3>2. ch' \in Seq(Signals) /\ sent' \in Seq(Signals) /\ Len(ch') <= BufferCap
      BY <3>1
    <3>3. recorded' \in [Signals -> {"none", "true", "false", "panic"}]
      BY <2>1 DEF TypeOK, RecordTrue
    <3> QED
      BY <2>1, <3>2, <3>3 DEF TypeOK, RecordTrue
  <2>2. CASE RecordFalse(s) \/ RecordPanic(s)
    BY <2>2 DEF TypeOK, RecordFalse, RecordPanic
  <2> QED
    BY <1>3, <2>1, <2>2 DEF Record
<1>4. ASSUME Receive \/ Discard
      PROVE  TypeOK'
  <2>1. /\ ch \in Seq(Signals) /\ Len(ch) <= BufferCap /\ ch # << >> /\ ch' = Tail(ch)
        /\ Head(ch) \in Signals /\ Tail(ch) \in Seq(Signals) /\ Len(Tail(ch)) <= BufferCap
    BY <1>4 DEF TypeOK, Receive, Discard, Taken
  <2> QED
    BY <1>4, <2>1 DEF TypeOK, Receive, Discard
<1>5. ASSUME EncodeOk \/ EncodeError
      PROVE  TypeOK'
  <2>1. hand \in Signals /\ file \in Seq(Signals) /\ Append(file, hand) \in Seq(Signals)
    BY <1>5 DEF TypeOK, EncodeOk, EncodeError
  <2> QED
    BY <1>5, <2>1 DEF TypeOK, EncodeOk, EncodeError
<1>6. CASE Finish
  BY <1>6 DEF TypeOK, Finish
<1>7. ASSUME NEW c \in Closers, Close(c) \/ CloseReturns(c)
      PROVE  TypeOK'
  BY <1>7 DEF TypeOK, Close, CloseReturns
<1> QED
  BY <1>1, <1>2, <1>3, <1>4, <1>5, <1>6, <1>7 DEF Next, Write

(* Every step keeps the order in which the log is closed: the channel, then   *)
(* the writer, then the calls of Close.                                       *)
LEMMA LogKeepsPlaces ==
  ASSUME TypeOK, LogPlaced, Next
  PROVE  LogPlaced'
<1>1. CASE Start
  BY <1>1 DEF TypeOK, LogPlaced, Start
<1>2. CASE Open
  BY <1>2 DEF TypeOK, LogPlaced, Open, AfterOpen
<1>3. ASSUME NEW s \in Signals, Record(s)
      PROVE  LogPlaced'
  BY <1>3 DEF TypeOK, LogPlaced, Record, RecordTrue, RecordFalse, RecordPanic
<1>4. ASSUME Receive \/ Discard \/ EncodeOk \/ EncodeError
      PROVE  LogPlaced'
  BY <1>4 DEF TypeOK, LogPlaced, Receive, Discard, EncodeOk, EncodeError
<1>5. CASE Finish
  BY <1>5 DEF TypeOK, LogPlaced, Finish, RangeEnds
<1>6. ASSUME NEW c \in Closers, Close(c) \/ CloseReturns(c)
      PROVE  LogPlaced'
  BY <1>6 DEF TypeOK, LogPlaced, Close, CloseReturns
<1> QED
  BY <1>1, <1>2, <1>3, <1>4, <1>5, <1>6 DEF Next, Write

(* A step that touches neither the rows nor the accepted signals.             *)
LEMMA LineUntouched ==
  ASSUME RowsInOrder, SentOnce, UNCHANGED <<ch, hand, file, unwritten, sent>>,
         {s \in Signals : recorded'[s] = "true"} = {s \in Signals : recorded[s] = "true"}
  PROVE  RowsInOrder' /\ SentOnce'
<1>1. InHand' = InHand
  BY DEF InHand
<1>2. PICK rows : rows = file \o InHand \o ch
  OBVIOUS
<1>3. RowsInOrder'
  BY <1>1, <1>2, LineInOrder DEF RowsInOrder, InOrder
<1>4. SentOnce'
  BY DEF SentOnce, Elements
<1> QED
  BY <1>3, <1>4

LEMMA InitLogInv == Init => LogInv
<1> SUFFICES ASSUME Init PROVE LogInv
  OBVIOUS
<1> USE FeedbackAssumption DEF Init
<1>1. TypeOK
  <2>1. << >> \in Seq(Signals) /\ Len(<< >>) <= BufferCap
    OBVIOUS
  <2> QED
    BY <2>1 DEF TypeOK
<1>2. LogPlaced
  BY DEF LogPlaced
<1>3. SentOnce
  BY DEF SentOnce, Elements
<1>4. file \o InHand \o ch = << >>
  BY ConcatEmptySeq DEF InHand
<1>5. RowsInOrder
  BY <1>4 DEF RowsInOrder, InOrder, Elements
<1> QED
  BY <1>1, <1>2, <1>3, <1>5 DEF LogInv

LEMMA NextLogInv == LogInv /\ [Next]_vars => LogInv'
<1> SUFFICES ASSUME LogInv, [Next]_vars PROVE LogInv'
  OBVIOUS
<1>1. TypeOK /\ LogPlaced /\ SentOnce /\ RowsInOrder
  BY DEF LogInv
<1>2. CASE Next
  <2>1. TypeOK' /\ LogPlaced'
    BY <1>1, <1>2, LogTyped, LogKeepsPlaces
  <2>2. CASE Start \/ Open \/ Finish \/ \E c \in Closers : Close(c) \/ CloseReturns(c)
    BY <1>1, <2>1, <2>2, LineUntouched DEF LogInv, Start, Open, Finish, Close, CloseReturns
  <2>3. ASSUME NEW s \in Signals, RecordTrue(s)
        PROVE  LogInv'
    BY <2>1, <2>3, RowAdded DEF LogInv
  <2>4. ASSUME NEW s \in Signals, RecordFalse(s) \/ RecordPanic(s)
        PROVE  LogInv'
    <3>1. {q \in Signals : recorded'[q] = "true"} = {q \in Signals : recorded[q] = "true"}
      BY <1>1, <2>4 DEF TypeOK, RecordFalse, RecordPanic
    <3> QED
      BY <1>1, <2>1, <2>4, <3>1, LineUntouched DEF LogInv, RecordFalse, RecordPanic
  <2>5. CASE Receive \/ EncodeOk
    <3>1. SentOnce'
      BY <1>1, <2>5 DEF SentOnce, Elements, Receive, EncodeOk
    <3> QED
      BY <2>1, <2>5, <3>1, LineSame DEF LogInv
  <2>6. CASE EncodeError \/ Discard
    BY <2>1, <2>6, RowDropped DEF LogInv
  <2> QED
    BY <1>2, <2>2, <2>3, <2>4, <2>5, <2>6 DEF Next, Write, Record
<1>3. CASE UNCHANGED vars
  <2>1. UNCHANGED <<ch, chClosed, writer, hand, file, unwritten, recorded, closer, sent>>
    BY <1>3 DEF vars
  <2>2. TypeOK' /\ LogPlaced'
    BY <1>1, <2>1 DEF TypeOK, LogPlaced
  <2> QED
    BY <1>1, <2>1, <2>2, LineUntouched DEF LogInv
<1> QED
  BY <1>2, <1>3

(* Where a call of Close has returned nothing is in the channel or in hand,   *)
(* so the rows in order are the file.                                         *)
LEMMA ClosedIsFlushed == LogInv => FlushedOnClose
<1> SUFFICES ASSUME LogInv, NEW c \in Closers, closer[c] = "returned"
             PROVE  InOrder(file)
  BY DEF FlushedOnClose
<1>1. ch = << >> /\ InHand = << >> /\ file \in Seq(Signals)
  BY DEF LogInv, LogPlaced, TypeOK, InHand
<1>2. file \o InHand \o ch = file
  BY <1>1, ConcatEmptySeq
<1> QED
  BY <1>2 DEF LogInv, RowsInOrder

(* The log by itself: its rows, the signal being encoded and the channel are  *)
(* together the accepted signals that met no file error, each once and in the *)
(* order Record accepted them, for any capacity, signals and calls of Close.  *)
THEOREM LogRowsInOrder == Spec => [](RowsInOrder /\ FlushedOnClose)
<1>1. LogInv => RowsInOrder /\ FlushedOnClose
  BY ClosedIsFlushed DEF LogInv
<1> QED
  BY <1>1, InitLogInv, NextLogInv, PTL DEF Spec
-----------------------------------------------------------------------------
(* The loop around the log. *)

(* A step of the loop is one of the log, or leaves it alone.                  *)
LEMMA LoopStepsLog == [LoopNext]_loopVars => [Next]_vars
  BY DEF LoopNext, loopVars, Gateway, Build, WriteSplit, BreakOff, ReadTrain, ReadVal, Save, Evaluate

(* With builds and training runs beside it the log loses, doubles and         *)
(* overtakes nothing.                                                         *)
THEOREM LoopRowsInOrder == LoopSpec => []RowsInOrder
<1>1. LogInv => RowsInOrder
  BY DEF LogInv
<1>2. LoopInit => LogInv
  BY InitLogInv DEF LoopInit
<1>3. LogInv /\ [LoopNext]_loopVars => LogInv'
  BY NextLogInv, LoopStepsLog
<1> QED
  BY <1>1, <1>2, <1>3, PTL DEF LoopSpec

(* When a call of Close has returned, every accepted signal that met no file  *)
(* error is a row, in the order of acceptance, whichever call closed the      *)
(* channel.                                                                   *)
THEOREM LoopFlushedOnClose == LoopSpec => []FlushedOnClose
<1>1. LoopInit => LogInv
  BY InitLogInv DEF LoopInit
<1>2. LogInv /\ [LoopNext]_loopVars => LogInv'
  BY NextLogInv, LoopStepsLog
<1> QED
  BY <1>1, <1>2, ClosedIsFlushed, PTL DEF LoopSpec
-----------------------------------------------------------------------------
(* The rows of the gate. *)

(* Three sets of rows, one per split. *)
PerSplit(s) == s = [n \in Splits |-> s[n]]

(* What a training run or the gate has read, and whether the files were one   *)
(* whole.                                                                     *)
Reading(r) == r = [rows |-> r.rows, whole |-> r.whole] /\ r.whole \in BOOLEAN /\ PerSplit(r.rows)

LoopTyped ==
  /\ builder \in {"idle", "aborted"} \union Splits
  /\ torn \in BOOLEAN
  /\ PerSplit(built) /\ PerSplit(files)
  /\ Reading(learned) /\ Reading(model) /\ Reading(tested)

(* A build that writes has passed the check for leakage, and the files it has *)
(* written are its own.                                                       *)
Writing ==
  /\ builder \in Splits => ~ Leaks(built)
  /\ builder \in {"val", "test"} => torn /\ files["train"] = built["train"]
  /\ builder = "test" => files["val"] = built["val"]

(* A reading that counts as whole is of the files that are there, and those   *)
(* are whole.                                                                 *)
OfTheseFiles(r) == r.whole => ~ torn /\ \A n \in Splits : r.rows[n] \subseteq files[n]

HeldInv ==
  /\ LoopTyped
  /\ Writing
  /\ ~ torn => ~ Leaks(files)
  /\ OfTheseFiles(learned) /\ OfTheseFiles(model)
  /\ tested.whole => ~ Leaks(tested.rows)

(* Fewer rows leak no more.                                                   *)
LEMMA FewerLeakLess ==
  ASSUME NEW s, NEW t, ~ Leaks(t), \A n \in Splits : s[n] \subseteq t[n]
  PROVE  ~ Leaks(s)
  BY DEF Leaks

(* A gated model that does not leak is judged on rows held out from it.       *)
LEMMA NoLeakIsHeldOut == HeldInv => HeldOut
  BY DEF HeldInv, HeldOut, Hashes, Leaks

LEMMA InitHeldInv == LoopInit => HeldInv
<1> SUFFICES ASSUME LoopInit PROVE HeldInv
  OBVIOUS
<1>1. PerSplit(files)
  BY DatasetAssumption DEF LoopInit, PerSplit
<1>2. PerSplit(Nothing)
  BY DEF Nothing, PerSplit
<1>3. Reading(Unread) /\ ~ Unread.whole
  BY <1>2 DEF Reading, Unread
<1> QED
  BY <1>1, <1>2, <1>3, EarlierAssumption DEF LoopInit, HeldInv, LoopTyped, Writing, OfTheseFiles, Splits

(* The build: what it goes on with has passed the check.                      *)
LEMMA BuildHeld ==
  ASSUME HeldInv, NEW given, Build(given)
  PROVE  HeldInv'
<1>1. Aborts \/ \E s : PerSplit(s) /\ ~ Leaks(s) /\ builder' = "train" /\ built' = s
  BY DEF Build, PerSplit
<1>2. builder \notin Splits /\ UNCHANGED <<files, torn, learned, model, tested>>
  BY DEF Build, diskVars, fitVars, Splits
<1>3. CASE Aborts
  BY <1>2, <1>3 DEF Aborts, HeldInv, LoopTyped, Writing, OfTheseFiles, PerSplit, Reading, Leaks, Splits
<1>4. CASE \E s : PerSplit(s) /\ ~ Leaks(s) /\ builder' = "train" /\ built' = s
  <2>1. PerSplit(built') /\ ~ Leaks(built') /\ builder' = "train"
    BY <1>4 DEF PerSplit, Leaks
  <2>2. LoopTyped'
    BY <1>2, <2>1 DEF HeldInv, LoopTyped, PerSplit, Reading, Splits
  <2>3. Writing'
    BY <2>1 DEF Writing, Leaks, Splits
  <2> QED
    BY <1>2, <2>2, <2>3 DEF HeldInv, OfTheseFiles, Leaks
<1> QED
  BY <1>1, <1>3, <1>4

(* The writes: with the third file the files are the build's, and only then   *)
(* are they whole again.                                                      *)
LEMMA WriteSplitHeld ==
  ASSUME HeldInv, WriteSplit
  PROVE  HeldInv'
<1>1. /\ LoopTyped /\ Writing /\ builder \in Splits /\ ~ Leaks(built)
      /\ files' = [files EXCEPT ![builder] = built[builder]]
      /\ torn' = (builder # "test") /\ tested' = tested
      /\ learned' = [learned EXCEPT !.whole = FALSE] /\ model' = [model EXCEPT !.whole = FALSE]
  BY DEF WriteSplit, HeldInv, Writing
<1>2. /\ builder = "train" => builder' = "val" /\ built' = built
      /\ builder = "val" => builder' = "test" /\ built' = built
      /\ builder = "test" => builder' = "idle" /\ built' = Nothing
  BY DEF WriteSplit
<1>3. PerSplit(files') /\ \A n \in Splits : files'[n] = IF n = builder THEN built[n] ELSE files[n]
  BY <1>1 DEF LoopTyped, PerSplit
<1>4. Reading(learned') /\ Reading(model') /\ ~ learned'.whole /\ ~ model'.whole
  BY <1>1 DEF LoopTyped, Reading
<1>5. PerSplit(built') /\ builder' \in {"idle", "aborted"} \union Splits
  BY <1>1, <1>2 DEF LoopTyped, PerSplit, Nothing, Splits
<1>6. LoopTyped'
  BY <1>1, <1>3, <1>4, <1>5 DEF LoopTyped, Reading, PerSplit
<1>7. Writing'
  BY <1>1, <1>2, <1>3 DEF Writing, Leaks, Splits
<1>8. ~ torn' => ~ Leaks(files')
  <2> SUFFICES ASSUME builder = "test" PROVE ~ Leaks(files')
    BY <1>1
  <2>1. \A n \in Splits : files'[n] = built[n]
    BY <1>1, <1>3 DEF Writing, Splits
  <2> QED
    BY <1>1, <2>1, FewerLeakLess
<1>9. tested'.whole => ~ Leaks(tested'.rows)
  BY <1>1 DEF HeldInv
<1> QED
  BY <1>4, <1>6, <1>7, <1>8, <1>9 DEF HeldInv, OfTheseFiles, Leaks

(* The training run: what it reads is of the files that are there.            *)
LEMMA TrainHeld ==
  ASSUME HeldInv, ReadTrain \/ ReadVal \/ Save
  PROVE  HeldInv'
<1>1. UNCHANGED <<builder, built, files, torn, tested>>
  BY DEF ReadTrain, ReadVal, Save, buildVars, diskVars
<1>2. LoopTyped /\ OfTheseFiles(learned) /\ OfTheseFiles(model)
  BY DEF HeldInv
<1>3. /\ Reading(learned') /\ Reading(model')
      /\ OfTheseFiles(learned') /\ OfTheseFiles(model')
  <2>1. CASE ReadTrain
    <3> DEFINE r == [Nothing EXCEPT !["train"] = files["train"]]
    <3>1. PerSplit(r) /\ \A n \in Splits : r[n] \subseteq files[n]
      BY DEF PerSplit, Nothing, Splits
    <3>2. learned' = [rows |-> r, whole |-> ~ torn] /\ model' = model
      BY <2>1 DEF ReadTrain
    <3> HIDE DEF r
    <3> QED
      BY <1>2, <3>1, <3>2 DEF Reading, OfTheseFiles, LoopTyped
  <2>2. CASE ReadVal
    <3> DEFINE r == [learned.rows EXCEPT !["val"] = files["val"]]
    <3>1. learned' = [rows |-> r, whole |-> learned.whole] /\ model' = model
      BY <1>2, <2>2 DEF ReadVal, LoopTyped, Reading
    <3>2. PerSplit(r) /\ \A n \in Splits : r[n] = IF n = "val" THEN files[n] ELSE learned.rows[n]
      BY <1>2 DEF LoopTyped, Reading, PerSplit, Splits
    <3> HIDE DEF r
    <3> QED
      BY <1>2, <3>1, <3>2 DEF Reading, OfTheseFiles, LoopTyped
  <2>3. CASE Save
    <3>1. PerSplit(Nothing)
      BY DEF Nothing, PerSplit
    <3>2. Reading(Unread) /\ ~ Unread.whole
      BY <3>1 DEF Reading, Unread
    <3> QED
      BY <1>2, <2>3, <3>2 DEF Save, OfTheseFiles, LoopTyped
  <2> QED
    BY <2>1, <2>2, <2>3
<1>4. LoopTyped'
  BY <1>1, <1>2, <1>3 DEF LoopTyped, PerSplit, Reading
<1> QED
  BY <1>1, <1>3, <1>4 DEF HeldInv, OfTheseFiles, Writing, Leaks

(* The gate: the test rows it takes are of the same files as the rest.        *)
LEMMA EvaluateHeld ==
  ASSUME HeldInv, Evaluate
  PROVE  HeldInv'
<1>1. UNCHANGED <<builder, built, files, torn, learned, model>>
  BY DEF Evaluate, buildVars, diskVars
<1>2. LoopTyped /\ OfTheseFiles(model) /\ (~ torn => ~ Leaks(files))
  BY DEF HeldInv
<1> DEFINE r == [model.rows EXCEPT !["test"] = files["test"]]
<1>3. tested' = [rows |-> r, whole |-> model.whole]
  BY <1>2 DEF Evaluate, LoopTyped, Reading
<1>4. PerSplit(r) /\ \A n \in Splits : r[n] = IF n = "test" THEN files[n] ELSE model.rows[n]
  BY <1>2 DEF LoopTyped, Reading, PerSplit, Splits
<1> HIDE DEF r
<1>5. Reading(tested')
  BY <1>2, <1>3, <1>4 DEF Reading, LoopTyped
<1>6. tested'.whole => ~ Leaks(tested'.rows)
  BY <1>2, <1>3, <1>4, FewerLeakLess DEF OfTheseFiles
<1> QED
  BY <1>1, <1>5, <1>6 DEF HeldInv, LoopTyped, OfTheseFiles, Writing, Leaks, PerSplit, Reading

LEMMA NextHeldInv == HeldInv /\ [LoopNext]_loopVars => HeldInv'
<1> SUFFICES ASSUME HeldInv, [LoopNext]_loopVars PROVE HeldInv'
  OBVIOUS
<1>1. CASE Gateway \/ UNCHANGED loopVars
  <2>1. UNCHANGED <<builder, built, files, torn, learned, model, tested>>
    BY <1>1 DEF Gateway, loopVars, buildVars, diskVars, fitVars
  <2> QED
    BY <2>1 DEF HeldInv, LoopTyped, Writing, OfTheseFiles, PerSplit, Reading, Leaks
<1>2. CASE BreakOff
  <2>1. /\ builder' = "idle" /\ built' = Nothing
        /\ UNCHANGED <<files, torn, learned, model, tested>>
    BY <1>2 DEF BreakOff, diskVars, fitVars
  <2>2. PerSplit(built')
    BY <2>1 DEF Nothing, PerSplit
  <2> QED
    BY <2>1, <2>2 DEF HeldInv, LoopTyped, Writing, OfTheseFiles, PerSplit, Reading, Leaks, Splits
<1> QED
  BY <1>1, <1>2, BuildHeld, WriteSplitHeld, TrainHeld, EvaluateHeld DEF LoopNext

(* The gate never vouches for a model on rows that it was fit to, or that its *)
(* cutoff was chosen on, if no build wrote between the start of training and  *)
(* the gate and none had broken off between two files: for every log, every   *)
(* collection of pull requests and synthetic rows, and any number of builds   *)
(* and training runs.                                                         *)
THEOREM LoopHeldOut == LoopSpec => []HeldOut
  BY InitHeldInv, NextHeldInv, NoLeakIsHeldOut, PTL DEF LoopSpec
=============================================================================
