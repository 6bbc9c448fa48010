------------------------ MODULE ComposerGraphProofs ------------------------
(***************************************************************************)
(* Two results about the composer, for any operations and history limit,   *)
(* and any number of edits.                                                *)
(*                                                                         *)
(* Undo and redo implement the timeline of UndoTimeline. The proof needs   *)
(* of the state only that the two stacks are sequences; what a graph looks *)
(* like plays no part, an edit may commit anything. The set that the       *)
(* elements of the stacks come from is therefore left open, and grows by   *)
(* what an edit commits.                                                   *)
(*                                                                         *)
(* Graphs stay valid, and a canvas without issues is saved as what it is,  *)
(* if the documents open as valid graphs. The inductive invariant GraphInv *)
(* says Sound of every graph of the state. Sound states that operations    *)
(* have no cycle by sets that no connection leads out of, which an edit    *)
(* can enlarge, where PathExists would have to follow a path.              *)
(***************************************************************************)
EXTENDS ComposerGraph, SequenceTheorems, FiniteSetTheorems, TLAPS

-----------------------------------------------------------------------------
(* The line of versions of two stacks and the version between them. *)

Line(h, c, f) == h \o <<c>> \o Reverse(f)

\* l is a sequence over S: the stack h, c, and the stack f from its top.
IsLine(l, S, h, c, f) ==
    /\ l \in Seq(S) /\ Len(l) = Len(h) + 1 + Len(f)
    /\ \A i \in 1 .. Len(h) : l[i] = h[i]
    /\ l[Len(h) + 1] = c
    /\ \A i \in Len(h) + 2 .. Len(h) + 1 + Len(f) :
         l[i] = f[Len(h) + 2 + Len(f) - i]

\* A line is made of its stacks.
LEMMA LineElements ==
    ASSUME NEW S, NEW h \in Seq(S), NEW c \in S, NEW f \in Seq(S)
    PROVE  IsLine(Line(h, c, f), S, h, c, f)
<1> DEFINE r == Reverse(f)
           hc == h \o <<c>>
<1>1. Len(h) \in Nat /\ Len(f) \in Nat
  BY LenProperties
<1>2. \A i \in 1 .. Len(f) : f[i] \in S
  BY ElementOfSeq
<1>3. r = [i \in 1 .. Len(f) |-> f[(Len(f) - i) + 1]]
  BY DEF Reverse
<1>4. \A i \in 1 .. Len(f) : (Len(f) - i) + 1 \in 1 .. Len(f)
  BY <1>1
<1>5. r \in [1 .. Len(f) -> S]
  BY <1>2, <1>3, <1>4
<1>6. r \in Seq(S) /\ Len(r) = Len(f)
  BY <1>1, <1>5
<1>7. <<c>> \in Seq(S) /\ Len(<<c>>) = 1 /\ <<c>>[1] = c
  OBVIOUS
<1>8. /\ hc \in Seq(S) /\ Len(hc) = Len(h) + 1
      /\ \A i \in 1 .. Len(h) + 1 : hc[i] = IF i <= Len(h) THEN h[i] ELSE <<c>>[i - Len(h)]
  <2> HIDE DEF hc
  <2> QED
    BY <1>7, ConcatProperties DEF hc
<1>9. /\ hc \o r \in Seq(S) /\ Len(hc \o r) = Len(h) + 1 + Len(f)
      /\ \A i \in 1 .. Len(h) + 1 + Len(f) :
           (hc \o r)[i] = IF i <= Len(h) + 1 THEN hc[i] ELSE r[i - (Len(h) + 1)]
  <2> HIDE DEF hc, r
  <2>1. /\ hc \o r \in Seq(S) /\ Len(hc \o r) = Len(hc) + Len(r)
        /\ \A i \in 1 .. Len(hc) + Len(r) :
             (hc \o r)[i] = IF i <= Len(hc) THEN hc[i] ELSE r[i - Len(hc)]
    <3>1. hc \in Seq(S) /\ r \in Seq(S)
      BY <1>6, <1>8
    <3> QED
      BY <3>1, ConcatProperties
  <2> QED
    BY <2>1, <1>1, <1>6, <1>8
<1>10. Line(h, c, f) = hc \o r
  BY DEF Line
<1>11. \A i \in 1 .. Len(h) : Line(h, c, f)[i] = h[i]
  <2> HIDE DEF hc, r
  <2> QED
    BY <1>1, <1>8, <1>9, <1>10
<1>12. Line(h, c, f)[Len(h) + 1] = c
  <2> HIDE DEF hc, r
  <2>1. hc[Len(h) + 1] = c
    BY <1>1, <1>7, <1>8
  <2> QED
    BY <2>1, <1>1, <1>9, <1>10, SMTT(30)
<1>13. ASSUME NEW i \in Len(h) + 2 .. Len(h) + 1 + Len(f)
       PROVE  Line(h, c, f)[i] = f[Len(h) + 2 + Len(f) - i]
  <2> DEFINE j == i - (Len(h) + 1)
  <2>1. j \in 1 .. Len(f) /\ (Len(f) - j) + 1 = Len(h) + 2 + Len(f) - i
    BY <1>1
  <2>2. Line(h, c, f)[i] = r[j]
    <3> HIDE DEF hc, r
    <3> QED
      BY <1>1, <1>9, <1>10
  <2>3. r[j] = f[(Len(f) - j) + 1]
    <3> HIDE DEF j, r
    <3> QED
      BY <2>1, <1>3
  <2> HIDE DEF j, r
  <2> QED
    BY <2>1, <2>2, <2>3
<1> QED
  <2> HIDE DEF hc, r
  <2> QED
    BY <1>9, <1>10, <1>11, <1>12, <1>13 DEF IsLine

\* An edit drops what could be redone and appends its result.
LEMMA EditOfLine ==
    ASSUME NEW S, NEW h \in Seq(S), NEW c \in S, NEW f \in Seq(S), NEW g \in S
    PROVE  Line(Append(h, c), g, <<>>)
             = Append(SubSeq(Line(h, c, f), 1, Len(h) + 1), g)
<1> DEFINE l == Line(h, c, f)
           a == Append(h, c)
           s == SubSeq(l, 1, Len(h) + 1)
           m == Line(a, g, <<>>)
<1>1. Len(h) \in Nat /\ Len(f) \in Nat
  BY LenProperties
<1>2. /\ l \in Seq(S) /\ Len(l) = Len(h) + 1 + Len(f)
      /\ \A i \in 1 .. Len(h) : l[i] = h[i]
      /\ l[Len(h) + 1] = c
  BY LineElements DEF IsLine
<1>3. /\ a \in Seq(S) /\ Len(a) = Len(h) + 1
      /\ \A i \in 1 .. Len(h) : a[i] = h[i]
      /\ a[Len(h) + 1] = c
  BY AppendProperties
<1>4. /\ m \in Seq(S) /\ Len(m) = Len(h) + 2
      /\ \A i \in 1 .. Len(h) + 1 : m[i] = a[i]
      /\ m[Len(h) + 2] = g
  <2> HIDE DEF a
  <2>1. <<>> \in Seq(S) /\ Len(<<>>) = 0
    BY EmptySeq
  <2>2. /\ m \in Seq(S) /\ Len(m) = Len(a) + 1 + Len(<<>>)
        /\ \A i \in 1 .. Len(a) : m[i] = a[i]
        /\ m[Len(a) + 1] = g
    <3>1. IsLine(m, S, a, g, <<>>)
      BY <2>1, <1>3, LineElements
    <3> HIDE DEF m
    <3> QED
      BY <3>1 DEF IsLine
  <2>3. Len(h) + 1 + 1 + Len(<<>>) = Len(h) + 2 /\ Len(h) + 1 + 1 = Len(h) + 2
    BY <2>1, <1>1
  <2> HIDE DEF m
  <2> QED
    BY <2>2, <2>3, <1>1, <1>3
<1>5. /\ s \in Seq(S) /\ Len(s) = Len(h) + 1
      /\ \A i \in 1 .. Len(h) + 1 : s[i] = l[i]
  <2> HIDE DEF l
  <2>1. \A i \in 1 .. Len(h) + 1 : l[i] \in S
    BY <1>1, <1>2, ElementOfSeq
  <2> QED
    BY <2>1, <1>1, SubSeqProperties
<1>6. /\ Append(s, g) \in Seq(S) /\ Len(Append(s, g)) = Len(h) + 2
      /\ \A i \in 1 .. Len(h) + 1 : Append(s, g)[i] = s[i]
      /\ Append(s, g)[Len(h) + 2] = g
  <2> HIDE DEF s
  <2> QED
    BY <1>1, <1>5, AppendProperties
<1> HIDE DEF l, a, s, m
<1>7. \A i \in 1 .. Len(h) + 2 : m[i] = Append(s, g)[i]
  <2> DEFINE p == Append(s, g)
  <2>1. \A i \in 1 .. Len(h) : m[i] = h[i] /\ p[i] = h[i]
    BY <1>1, <1>2, <1>3, <1>4, <1>5, <1>6
  <2>2. m[Len(h) + 1] = c /\ p[Len(h) + 1] = c
    BY <1>1, <1>2, <1>3, <1>4, <1>5, <1>6
  <2>3. m[Len(h) + 2] = g /\ p[Len(h) + 2] = g
    BY <1>4, <1>6
  <2> HIDE DEF p
  <2>4. \A i \in 1 .. Len(h) + 2 : i \in 1 .. Len(h) \/ i = Len(h) + 1 \/ i = Len(h) + 2
    BY <1>1
  <2>5. \A i \in 1 .. Len(h) + 2 : m[i] = p[i]
    BY <2>1, <2>2, <2>3, <2>4
  <2> QED
    BY <2>5 DEF p
<1>8. m = Append(s, g)
  BY <1>4, <1>6, <1>7, SeqEqual
<1> QED
  BY <1>8 DEF l, a, s, m

\* The same of an edit that forgets the oldest version.
LEMMA ForgetOfLine ==
    ASSUME NEW S, NEW h \in Seq(S), NEW c \in S, NEW f \in Seq(S), NEW g \in S
    PROVE  Line(Tail(Append(h, c)), g, <<>>)
             = Append(SubSeq(Line(h, c, f), 2, Len(h) + 1), g)
<1> DEFINE l == Line(h, c, f)
           a == Append(h, c)
           t == Tail(a)
           s == SubSeq(l, 2, Len(h) + 1)
           m == Line(t, g, <<>>)
<1>1. Len(h) \in Nat /\ Len(f) \in Nat
  BY LenProperties
<1>2. /\ l \in Seq(S) /\ Len(l) = Len(h) + 1 + Len(f)
      /\ \A i \in 1 .. Len(h) : l[i] = h[i]
      /\ l[Len(h) + 1] = c
  BY LineElements DEF IsLine
<1>3. /\ a \in Seq(S) /\ Len(a) = Len(h) + 1 /\ a # <<>>
      /\ \A i \in 1 .. Len(h) : a[i] = h[i]
      /\ a[Len(h) + 1] = c
  BY AppendProperties
<1>4. /\ t \in Seq(S) /\ Len(t) = Len(h)
      /\ \A i \in 1 .. Len(h) : t[i] = a[i + 1]
  <2> HIDE DEF a
  <2> QED
    BY <1>1, <1>3, HeadTailProperties
<1>5. /\ m \in Seq(S) /\ Len(m) = Len(h) + 1
      /\ \A i \in 1 .. Len(h) : m[i] = t[i]
      /\ m[Len(h) + 1] = g
  <2> HIDE DEF t
  <2>1. <<>> \in Seq(S) /\ Len(<<>>) = 0
    BY EmptySeq
  <2>2. /\ m \in Seq(S) /\ Len(m) = Len(t) + 1 + Len(<<>>)
        /\ \A i \in 1 .. Len(t) : m[i] = t[i]
        /\ m[Len(t) + 1] = g
    <3>1. IsLine(m, S, t, g, <<>>)
      BY <2>1, <1>4, LineElements
    <3> HIDE DEF m
    <3> QED
      BY <3>1 DEF IsLine
  <2> HIDE DEF m
  <2> QED
    BY <2>1, <2>2, <1>1, <1>4
<1>6. /\ s \in Seq(S) /\ Len(s) = Len(h)
      /\ \A i \in 1 .. Len(h) : s[i] = l[i + 1]
  <2> HIDE DEF l
  <2>1. \A i \in 2 .. Len(h) + 1 : l[i] \in S
    BY <1>1, <1>2, ElementOfSeq
  <2>2. /\ s \in Seq(S) /\ Len(s) = IF 2 <= Len(h) + 1 THEN (Len(h) + 1) - 2 + 1 ELSE 0
        /\ \A i \in 1 .. (Len(h) + 1) - 2 + 1 : s[i] = l[2 + i - 1]
    BY <2>1, <1>1, SubSeqProperties
  <2> HIDE DEF s
  <2> QED
    BY <2>2, <1>1
<1>7. /\ Append(s, g) \in Seq(S) /\ Len(Append(s, g)) = Len(h) + 1
      /\ \A i \in 1 .. Len(h) : Append(s, g)[i] = s[i]
      /\ Append(s, g)[Len(h) + 1] = g
  <2> HIDE DEF s
  <2>1. /\ Append(s, g) \in Seq(S) /\ Len(Append(s, g)) = Len(s) + 1
        /\ \A i \in 1 .. Len(s) : Append(s, g)[i] = s[i]
        /\ Append(s, g)[Len(s) + 1] = g
    BY <1>6, AppendProperties, ZenonT(30)
  <2> QED
    BY <2>1, <1>6, Zenon
<1> HIDE DEF l, a, t, s, m
<1>8. \A i \in 1 .. Len(h) : a[i + 1] = l[i + 1]
  BY <1>1, <1>2, <1>3
<1>9. \A i \in 1 .. Len(h) + 1 : m[i] = Append(s, g)[i]
  BY <1>1, <1>4, <1>5, <1>6, <1>7, <1>8
<1>10. m = Append(s, g)
  BY <1>5, <1>7, <1>9, SeqEqual
<1> QED
  BY <1>10 DEF l, a, t, s, m

\* The last element of a stack goes between the stacks, and c to the other
\* stack: the line stays.
LEMMA MoveOnLine ==
    ASSUME NEW S, NEW h \in Seq(S), NEW c \in S, NEW f \in Seq(S), NEW d \in S
    PROVE  Line(Append(h, d), c, f) = Line(h, d, Append(f, c))
<1> DEFINE l == Line(Append(h, d), c, f)
           m == Line(h, d, Append(f, c))
           a == Append(h, d)
           b == Append(f, c)
<1>1. Len(h) \in Nat /\ Len(f) \in Nat
  BY LenProperties
<1>2. /\ a \in Seq(S) /\ Len(a) = Len(h) + 1
      /\ \A i \in 1 .. Len(h) : a[i] = h[i]
      /\ a[Len(h) + 1] = d
  BY AppendProperties
<1>3. /\ b \in Seq(S) /\ Len(b) = Len(f) + 1
      /\ \A i \in 1 .. Len(f) : b[i] = f[i]
      /\ b[Len(f) + 1] = c
  BY AppendProperties
<1> HIDE DEF a, b
<1>4. /\ l \in Seq(S) /\ Len(l) = Len(h) + 2 + Len(f)
      /\ \A i \in 1 .. Len(h) + 1 : l[i] = a[i]
      /\ l[Len(h) + 2] = c
      /\ \A i \in Len(h) + 3 .. Len(h) + 2 + Len(f) :
           l[i] = f[Len(h) + 3 + Len(f) - i]
  <2>1. l = Line(a, c, f)
    BY DEF a
  <2>2. /\ l \in Seq(S) /\ Len(l) = Len(a) + 1 + Len(f)
        /\ \A i \in 1 .. Len(a) : l[i] = a[i]
        /\ l[Len(a) + 1] = c
        /\ \A i \in Len(a) + 2 .. Len(a) + 1 + Len(f) :
             l[i] = f[Len(a) + 2 + Len(f) - i]
    <3>1. IsLine(l, S, a, c, f)
      BY <2>1, <1>2, LineElements
    <3> HIDE DEF l
    <3> QED
      BY <3>1 DEF IsLine
  <2> HIDE DEF l
  <2>3. Len(h) + 1 + 1 = Len(h) + 2 /\ Len(h) + 1 + 2 = Len(h) + 3
    BY <1>1
  <2> QED
    BY <2>2, <2>3, <1>1, <1>2
<1>5. /\ m \in Seq(S) /\ Len(m) = Len(h) + 2 + Len(f)
      /\ \A i \in 1 .. Len(h) : m[i] = h[i]
      /\ m[Len(h) + 1] = d
      /\ \A i \in Len(h) + 2 .. Len(h) + 2 + Len(f) :
           m[i] = b[Len(h) + 3 + Len(f) - i]
  <2>1. m = Line(h, d, b)
    BY DEF b
  <2>2. /\ m \in Seq(S) /\ Len(m) = Len(h) + 1 + Len(b)
        /\ \A i \in 1 .. Len(h) : m[i] = h[i]
        /\ m[Len(h) + 1] = d
        /\ \A i \in Len(h) + 2 .. Len(h) + 1 + Len(b) :
             m[i] = b[Len(h) + 2 + Len(b) - i]
    <3>1. IsLine(m, S, h, d, b)
      BY <2>1, <1>3, LineElements
    <3> HIDE DEF m
    <3> QED
      BY <3>1 DEF IsLine
  <2> HIDE DEF m
  <2>3. Len(h) + 1 + Len(b) = Len(h) + 2 + Len(f)
        /\ Len(h) + 2 + Len(b) = Len(h) + 3 + Len(f)
    BY <1>1, <1>3
  <2> QED
    BY <2>2, <2>3
<1> HIDE DEF l, m
<1>6. ASSUME NEW i \in Len(h) + 3 .. Len(h) + 2 + Len(f)
      PROVE  b[Len(h) + 3 + Len(f) - i] = f[Len(h) + 3 + Len(f) - i]
  <2>1. Len(h) + 3 + Len(f) - i \in 1 .. Len(f)
    BY <1>1
  <2> QED
    BY <2>1, <1>3
<1>7. Len(h) + 3 + Len(f) - (Len(h) + 2) = Len(f) + 1
  BY <1>1
<1>8. \A i \in 1 .. Len(h) + 2 + Len(f) : l[i] = m[i]
  <2> TAKE i \in 1 .. Len(h) + 2 + Len(f)
  <2>1. CASE i \in 1 .. Len(h)
    BY <2>1, <1>1, <1>2, <1>4, <1>5
  <2>2. CASE i = Len(h) + 1
    BY <2>2, <1>1, <1>2, <1>4, <1>5
  <2>3. CASE i = Len(h) + 2
    BY <2>3, <1>1, <1>3, <1>4, <1>5, <1>7, SMTT(30)
  <2>4. CASE i \in Len(h) + 3 .. Len(h) + 2 + Len(f)
    <3>1. i \in Len(h) + 2 .. Len(h) + 2 + Len(f)
      BY <2>4, <1>1
    <3> QED
      BY <3>1, <2>4, <1>4, <1>5, <1>6
  <2> QED
    BY <2>1, <2>2, <2>3, <2>4, <1>1
<1>9. l = m
  BY <1>4, <1>5, <1>8, SeqEqual
<1> QED
  BY <1>9 DEF l, m

\* A stack that is not empty is its front and its last element.
LEMMA FrontAndLast ==
    ASSUME NEW S, NEW h \in Seq(S), h # <<>>
    PROVE  /\ Front(h) \in Seq(S) /\ Last(h) \in S
           /\ Len(h) = Len(Front(h)) + 1
           /\ h = Append(Front(h), Last(h))
<1>1. PICK s \in Seq(S), e \in S : h = Append(s, e)
  BY SequenceEmptyOrAppend
<1>2. Len(s) \in Nat
  BY LenProperties
<1>3. Len(h) = Len(s) + 1 /\ h[Len(s) + 1] = e /\ \A i \in 1 .. Len(s) : h[i] = s[i]
  BY <1>1, AppendProperties
<1>4. Last(h) = e
  BY <1>3 DEF Last
<1>5. Front(h) = SubSeq(h, 1, Len(s))
  BY <1>2, <1>3 DEF Front
<1>6. \A i \in 1 .. Len(s) : h[i] \in S
  BY <1>2, <1>3, ElementOfSeq
<1>7. /\ Front(h) \in Seq(S) /\ Len(Front(h)) = Len(s)
      /\ \A i \in 1 .. Len(s) : Front(h)[i] = s[i]
  <2>1. /\ Front(h) \in Seq(S)
        /\ Len(Front(h)) = IF 1 <= Len(s) THEN Len(s) - 1 + 1 ELSE 0
        /\ \A i \in 1 .. Len(s) - 1 + 1 : Front(h)[i] = h[1 + i - 1]
    BY <1>2, <1>5, <1>6, SubSeqProperties
  <2>2. \A i \in 1 .. Len(s) : i \in 1 .. Len(s) - 1 + 1 /\ 1 + i - 1 = i
    BY <1>2
  <2>3. (IF 1 <= Len(s) THEN Len(s) - 1 + 1 ELSE 0) = Len(s)
    BY <1>2
  <2> QED
    BY <2>1, <2>2, <2>3, <1>3
<1>8. Front(h) = s
  BY <1>7, SeqEqual
<1> QED
  BY <1>1, <1>3, <1>4, <1>7, <1>8

-----------------------------------------------------------------------------
(* The steps of the composer are steps of the timeline. *)

\* The version that is shown; while a node is dragged, the one before.
Shown == IF dragStart = NoGraph THEN graph ELSE dragStart

\* The two stacks are sequences, over some set.
Stacks == \E S : history \in Seq(S) /\ future \in Seq(S)

\* The versions of the refinement are a line of the composer's stacks.
LEMMA VersionsAreALine ==
    history \o <<IF dragStart = NoGraph THEN graph ELSE dragStart>> \o Reverse(future)
      = Line(history, Shown, future)
BY DEF Line, Shown

\* Pushing the version that is shown and showing another one is an edit.
LEMMA PushIsEdit ==
    ASSUME NEW S, history \in Seq(S), future \in Seq(S), Shown \in S, Shown' \in S,
           history' = Append(history, Shown), future' = <<>>
    PROVE  Timeline!Next
<1> DEFINE l == Line(history, Shown, future)
           m == Line(history', Shown', future')
<1>1. m = Append(SubSeq(l, 1, Len(history) + 1), Shown')
  BY EditOfLine
<1>2. Len(history) \in Nat
  BY LenProperties
<1>3. history' \in Seq(S) /\ Len(history') = Len(history) + 1
  BY AppendProperties
<1>4. m[Len(m)] = Shown'
  <2>1. future' \in Seq(S) /\ Len(future') = 0
    BY EmptySeq
  <2>2. IsLine(m, S, history', Shown', future')
    BY <1>3, <2>1, LineElements
  <2> HIDE DEF m
  <2> QED
    BY <1>2, <1>3, <2>1, <2>2 DEF IsLine
<1>5. Timeline!Edit(Shown')
  BY <1>1, <1>3 DEF Timeline!Edit, Line, Shown
<1>6. \E v \in {m[Len(m)]} : Timeline!Edit(v)
  BY <1>4, <1>5
<1> QED
  BY <1>6 DEF Timeline!Next, Line, Shown

\* The same when the oldest version is forgotten.
LEMMA PushIsEditAndForget ==
    ASSUME NEW S, history \in Seq(S), future \in Seq(S), Shown \in S, Shown' \in S,
           history' = Tail(Append(history, Shown)), future' = <<>>,
           Len(history) + 1 > HistoryLimit
    PROVE  Timeline!Next
<1> DEFINE l == Line(history, Shown, future)
           m == Line(history', Shown', future')
<1>1. m = Append(SubSeq(l, 2, Len(history) + 1), Shown')
  BY ForgetOfLine
<1>2. Len(history) \in Nat
  BY LenProperties
<1>3. history' \in Seq(S) /\ Len(history') = Len(history)
  <2>1. /\ Append(history, Shown) \in Seq(S) /\ Append(history, Shown) # <<>>
        /\ Len(Append(history, Shown)) = Len(history) + 1
    BY AppendProperties
  <2> QED
    BY <1>2, <2>1, HeadTailProperties
<1>4. m[Len(m)] = Shown'
  <2>1. future' \in Seq(S) /\ Len(future') = 0
    BY EmptySeq
  <2>2. IsLine(m, S, history', Shown', future')
    BY <1>3, <2>1, LineElements
  <2> HIDE DEF m
  <2> QED
    BY <1>2, <1>3, <2>1, <2>2 DEF IsLine
<1>5. Timeline!EditAndForget(Shown')
  BY <1>1, <1>3 DEF Timeline!EditAndForget, Line, Shown
<1>6. \E v \in {m[Len(m)]} : Timeline!EditAndForget(v)
  BY <1>4, <1>5
<1> QED
  BY <1>6 DEF Timeline!Next, Line, Shown

\* replaceGraph, which limits the history, and the edits that do not.
LEMMA CommitIsEdit ==
    ASSUME NEW S, history \in Seq(S), future \in Seq(S), graph \in S, NEW g \in S,
           MayEdit, Commit(g) \/ CommitUnlimited(g)
    PROVE  Timeline!Next
<1>1. /\ Shown = graph /\ Shown' = g
      /\ future' = <<>>
  BY DEF MayEdit, Commit, CommitUnlimited, Shown
<1>2. Len(Append(history, graph)) = Len(history) + 1
  BY AppendProperties
<1>3. CASE history' = Append(history, graph)
  BY <1>1, <1>3, PushIsEdit
<1>4. CASE history' = Tail(Append(history, graph)) /\ Len(Append(history, graph)) > HistoryLimit
  BY <1>1, <1>2, <1>4, PushIsEditAndForget
<1> QED
  BY <1>3, <1>4 DEF Commit, CommitUnlimited

\* An edit of the graph is a commit of some graph.
Commits == MayEdit /\ \E g : Commit(g) \/ CommitUnlimited(g)

LEMMA EditsCommit ==
    ASSUME \/ \E o \in Ops : AddOperation(o)
           \/ Connect \/ DeleteNode \/ DeleteEdge \/ SetParameter \/ Rename
           \/ ExposeInput \/ ExposeOutput
    PROVE  Commits
<1>1. ASSUME NEW o \in Ops, AddOperation(o) PROVE Commits
  BY <1>1, Zenon DEF AddOperation, Commits
<1>2. CASE Connect
  BY <1>2, Zenon DEF Connect, Commits
<1>3. CASE DeleteNode
  BY <1>3, Zenon DEF DeleteNode, Commits
<1>4. CASE DeleteEdge
  BY <1>4, Zenon DEF DeleteEdge, Commits
<1>5. CASE SetParameter
  BY <1>5, Zenon DEF SetParameter, Commits
<1>6. CASE Rename
  BY <1>6, Zenon DEF Rename, Commits
<1>7. CASE ExposeInput
  BY <1>7, Zenon DEF ExposeInput, Commits
<1>8. CASE ExposeOutput
  BY <1>8, Zenon DEF ExposeOutput, Commits
<1> QED
  BY <1>1, <1>2, <1>3, <1>4, <1>5, <1>6, <1>7, <1>8, Zenon

\* A step keeps the stacks sequences and is a step of the timeline.
LEMMA StepIsTimeline ==
    ASSUME Stacks, [Next]_vars
    PROVE  Stacks' /\ [Timeline!Next]_Timeline!tvars
<1>1. PICK R : history \in Seq(R) /\ future \in Seq(R)
  BY DEF Stacks
<1> DEFINE S == R \cup {graph, graph', dragStart}
<1>2. /\ history \in Seq(S) /\ future \in Seq(S)
      /\ graph \in S /\ graph' \in S /\ dragStart \in S
  BY <1>1, SeqMonotonic
<1> HIDE DEF S
<1>3. Shown \in S
  BY <1>2 DEF Shown
<1>4. Len(history) \in Nat /\ Len(future) \in Nat
  BY <1>2, LenProperties
<1>5. <<>> \in Seq(S)
  BY EmptySeq
<1>6. ASSUME Commits PROVE Stacks' /\ Timeline!Next
  <2>1. PICK g : Commit(g) \/ CommitUnlimited(g)
    BY <1>6 DEF Commits
  <2>2. g = graph' /\ MayEdit
    BY <1>6, <2>1 DEF Commit, CommitUnlimited, Commits
  <2>3. Timeline!Next
    BY <1>2, <2>1, <2>2, CommitIsEdit
  <2>4. Append(history, graph) \in Seq(S) /\ Tail(Append(history, graph)) \in Seq(S)
    BY <1>2, AppendProperties, HeadTailProperties
  <2>5. history' \in Seq(S) /\ future' \in Seq(S)
    BY <1>5, <2>1, <2>4 DEF Commit, CommitUnlimited
  <2> QED
    BY <2>3, <2>5 DEF Stacks
<1>7. ASSUME history' = history, future' = future, Shown' = Shown
      PROVE  Stacks' /\ UNCHANGED Timeline!tvars
  BY <1>2, <1>7 DEF Stacks, Timeline!tvars, Shown
<1>8. CASE DragStart
  <2>1. Shown' = Shown
    BY <1>8 DEF DragStart, MayEdit, Shown
  <2> QED
    BY <1>7, <1>8, <2>1 DEF DragStart
<1>9. CASE Drag
  <2>1. Shown' = Shown
    BY <1>9 DEF Drag, Shown
  <2> QED
    BY <1>7, <1>9, <2>1 DEF Drag
<1>10. CASE DragStop
  <2>1. /\ Shown = dragStart /\ Shown' = graph'
        /\ history' = Append(history, Shown) /\ future' = <<>>
    BY <1>10 DEF DragStop, Shown
  <2>2. Append(history, Shown) \in Seq(S)
    BY <1>2, <1>3, AppendProperties
  <2>3. Timeline!Next
    BY <1>2, <1>3, <2>1, PushIsEdit
  <2> QED
    BY <1>5, <2>1, <2>2, <2>3 DEF Stacks
<1>11. CASE Undo
  <2>1. /\ history # <<>>
        /\ Shown = graph /\ Shown' = Last(history)
        /\ history' = Front(history) /\ future' = Append(future, graph)
    BY <1>11 DEF Undo, MayEdit, Shown
  <2>2. /\ history' \in Seq(S) /\ Shown' \in S
        /\ Len(history) = Len(history') + 1 /\ history = Append(history', Shown')
    BY <1>2, <2>1, FrontAndLast
  <2>3. Line(history, Shown, future) = Line(history', Shown', future')
    <3>1. Line(Append(history', Shown'), graph, future)
            = Line(history', Shown', Append(future, graph))
      BY <1>2, <2>2, MoveOnLine
    <3> QED
      BY <3>1, <2>1, <2>2, Zenon
  <2>4. Len(history') \in Nat
    BY <2>2, LenProperties
  <2>5. Timeline!Undo
    <3>1. Len(history) + 1 > 1 /\ Len(history') + 1 = (Len(history) + 1) - 1
      BY <2>2, <2>4
    <3> QED
      BY <3>1, <2>3, Zenon DEF Timeline!Undo, Line, Shown
  <2>6. future' \in Seq(S)
    BY <1>2, <2>1, AppendProperties
  <2> QED
    BY <2>2, <2>5, <2>6 DEF Timeline!Next, Stacks
<1>12. CASE Redo
  <2>1. /\ future # <<>>
        /\ Shown = graph /\ Shown' = Last(future)
        /\ future' = Front(future) /\ history' = Append(history, graph)
    BY <1>12 DEF Redo, MayEdit, Shown
  <2>2. /\ future' \in Seq(S) /\ Shown' \in S
        /\ Len(future) = Len(future') + 1 /\ future = Append(future', Shown')
    BY <1>2, <2>1, FrontAndLast
  <2>3. Line(history', Shown', future') = Line(history, Shown, future)
    <3>1. Line(Append(history, graph), Shown', future')
            = Line(history, graph, Append(future', Shown'))
      BY <1>2, <2>2, MoveOnLine
    <3> QED
      BY <3>1, <2>1, <2>2, Zenon
  <2>4. history' \in Seq(S) /\ Len(history') = Len(history) + 1
    BY <1>2, <2>1, AppendProperties
  <2>5. IsLine(Line(history, Shown, future), S, history, Shown, future)
    BY <1>2, <1>3, LineElements
  <2>6. Len(history) + 1 < Len(Line(history, Shown, future))
    <3>1. Len(future') \in Nat
      BY <2>2, LenProperties
    <3> QED
      BY <1>4, <2>2, <2>5, <3>1 DEF IsLine
  <2>7. Timeline!Redo
    BY <2>3, <2>4, <2>6 DEF Timeline!Redo, Line, Shown
  <2> QED
    BY <2>2, <2>4, <2>7 DEF Timeline!Next, Stacks
<1>13. CASE OpenDocument
  <2>1. /\ Shown' = graph' /\ history' = <<>> /\ future' = <<>>
    BY <1>13 DEF OpenDocument, Shown
  <2> DEFINE m == Line(history', Shown', future')
  <2>2. IsLine(m, S, <<>>, graph', <<>>) /\ Len(<<>>) = 0
    BY <1>2, <1>5, <2>1, LineElements, EmptySeq
  <2>3. m \in Seq(S) /\ Len(m) = 1 /\ m[1] = graph'
    <3> HIDE DEF m
    <3> QED
      BY <2>2 DEF IsLine
  <2>4. m = <<graph'>>
    <3> HIDE DEF m
    <3> QED
      BY <2>3
  <2>5. Timeline!Restart(graph')
    BY <2>1, <2>2, <2>4 DEF Timeline!Restart, Line, Shown
  <2>6. \E v \in {m[Len(m)]} : Timeline!Restart(v)
    <3> HIDE DEF m
    <3> QED
      BY <2>3, <2>5
  <2> QED
    BY <1>5, <2>1, <2>6 DEF Timeline!Next, Stacks, Line, Shown
<1>14. CASE UNCHANGED vars
  <2>1. Shown' = Shown
    BY <1>14 DEF vars, Shown
  <2> QED
    BY <1>7, <1>14, <2>1 DEF vars
<1> QED
  BY <1>6, <1>8, <1>9, <1>10, <1>11, <1>12, <1>13, <1>14, EditsCommit DEF Next

\* Undo and redo of the composer walk the versions that were shown, with
\* any operations, documents and limit, however edits, drags, renamings
\* and openings are mixed (replaceGraph, updateOperationNode, renameNode,
\* onNodeDragStart, onNodeDragStop, undo, redo, resetDocument).
THEOREM UndoIsATimeline == Spec => TimelineSpec
<1>1. Init => Stacks
  <2>1. <<>> \in Seq({})
    BY EmptySeq
  <2> QED
    BY <2>1 DEF Init, Stacks
<1>2. ASSUME Init PROVE Timeline!Start(Line(history, Shown, future)[1])
  <2> DEFINE S == {graph}
             l == Line(history, Shown, future)
  <2>1. <<>> \in Seq(S) /\ Len(<<>>) = 0
    BY EmptySeq
  <2>2. history = <<>> /\ future = <<>> /\ Shown = graph
    BY <1>2 DEF Init, Shown
  <2>3. IsLine(l, S, <<>>, graph, <<>>)
    BY <2>1, <2>2, LineElements
  <2>4. l \in Seq(S) /\ Len(l) = 1
    <3> HIDE DEF l, S
    <3> QED
      BY <2>1, <2>3 DEF IsLine
  <2>5. l = <<l[1]>>
    <3> HIDE DEF l, S
    <3> QED
      BY <2>4
  <2> QED
    BY <2>1, <2>2, <2>5 DEF Timeline!Start, Line, Shown
<1>3. Stacks /\ [Next]_vars => Stacks' /\ [Timeline!Next]_Timeline!tvars
  BY StepIsTimeline
<1>4. Init => Timeline!Start((history \o <<IF dragStart = NoGraph THEN graph
                                           ELSE dragStart>> \o Reverse(future))[1])
  BY <1>2, VersionsAreALine
<1> QED
  BY <1>1, <1>3, <1>4, PTL DEF Spec, TimelineSpec, Timeline!Spec

-----------------------------------------------------------------------------
(* Whatever is edited, the graph is sound.                                 *)
(*                                                                         *)
(* A graph without cycles is one in which every connection between         *)
(* operations leaves a set that no such connection leads back out of, into *)
(* the set: unlike a path, such a set is easily followed through an edit.  *)

ShapedNode(n) ==
    \/ /\ Kind(n.id) = "operation" /\ n.op \in Ops
       /\ n = [id |-> n.id, op |-> n.op, parameters |-> n.parameters, place |-> n.place]
    \/ /\ Kind(n.id) \in {"input", "output"}
       /\ n = [id |-> n.id, type |-> n.type, place |-> n.place]

ShapedEdge(e) ==
    /\ e = [from |-> EndpointOf(e.from.node, e.from.port),
            to |-> EndpointOf(e.to.node, e.to.port)]
    /\ Kind(e.from.node) = "input" => e.from.port = "it"
    /\ Kind(e.to.node) = "output" => e.to.port = "it"

UniqueIds(N) == \A m, n \in N : m.id = n.id => m = n
UniqueTargets(es) == \A e, o \in es : o.to = e.to => o = e

\* Port p of node s and port q of node t may be connected.
Joins(s, p, t, q) ==
    /\ s.id # t.id
    /\ <<Kind(s.id), Kind(t.id)>> \in
          {<<"operation", "operation">>, <<"input", "operation">>,
           <<"operation", "output">>}
    /\ SourceType(s, p) # {}
    /\ SourceType(s, p) = TargetType(t, q)

\* The connection e is one of two of the nodes N.
Connects(e, N) ==
    \E s, t \in N : /\ s.id = e.from.node /\ t.id = e.to.node
                    /\ Joins(s, e.from.port, t, e.to.port)

\* No connection between operations leads out of S.
Forward(S, es) ==
    \A e \in es : Internal(e) /\ e.from.node \in S => e.to.node \in S
Separated(a, b, es) == \E S : a \in S /\ b \notin S /\ Forward(S, es)
Acyclic(es) ==
    \A e \in es : Internal(e) => Separated(e.to.node, e.from.node, es)

Sound(g) ==
    /\ g = [nodes |-> g.nodes, edges |-> g.edges]
    /\ IsFiniteSet(g.nodes) /\ UniqueIds(g.nodes)
    /\ \A n \in g.nodes : ShapedNode(n)
    /\ \A e \in g.edges : ShapedEdge(e) /\ Connects(e, g.nodes)
    /\ UniqueTargets(g.edges) /\ Acyclic(g.edges)

\* There is no path where a set separates, and a set where there is none.
LEMMA PathOrSet ==
    ASSUME NEW a, NEW b, NEW es
    PROVE  ~PathExists(a, b, es) <=> Separated(a, b, es)
<1> DEFINE D == {a, b} \cup {e.from.node : e \in es} \cup {e.to.node : e \in es}
<1>1. ASSUME NEW S, a \in S, b \notin S, Forward(S, es)
      PROVE  ~PathExists(a, b, es)
  <2> DEFINE T == S \cap D
  <2>1. T \in SUBSET D /\ a \in T /\ b \notin T
    BY <1>1
  <2>2. \A e \in es : Internal(e) /\ e.from.node \in T => e.to.node \in T
    BY <1>1 DEF Forward
  <2> HIDE DEF T
  <2> QED
    BY <2>1, <2>2 DEF PathExists
<1>2. ASSUME ~PathExists(a, b, es) PROVE Separated(a, b, es)
  BY <1>2 DEF PathExists, Separated, Forward
<1> QED
  BY <1>1, <1>2 DEF Separated

\* The node of an id.
LEMMA NodeOfId ==
    ASSUME NEW g, UniqueIds(g.nodes), NEW n \in g.nodes
    PROVE  Node(g, n.id) = n /\ Has(g, n.id)
BY DEF Node, Has, UniqueIds

\* validateConnection, without the search for the nodes.
LEMMA ValidIsConnected ==
    ASSUME NEW g, UniqueIds(g.nodes), NEW e, NEW others
    PROVE  ValidConnection(e, g, others)
             <=> /\ Connects(e, g.nodes)
                 /\ \A o \in others : o.to # e.to
                 /\ Internal(e) => Separated(e.to.node, e.from.node, others)
<1>1. ASSUME Has(g, e.from.node), Has(g, e.to.node)
      PROVE  Connects(e, g.nodes)
               <=> LET s == Node(g, e.from.node)
                       t == Node(g, e.to.node)
                   IN /\ e.from.node # e.to.node
                      /\ Joins(s, e.from.port, t, e.to.port)
  <2>1. PICK s, t \in g.nodes : s.id = e.from.node /\ t.id = e.to.node
    BY <1>1 DEF Has
  <2>2. Node(g, e.from.node) = s /\ Node(g, e.to.node) = t
    BY <2>1, NodeOfId
  <2>3. \A m, n \in g.nodes : m.id = e.from.node /\ n.id = e.to.node
          => m = s /\ n = t
    BY <2>1 DEF UniqueIds
  <2> QED
    BY <2>1, <2>2, <2>3 DEF Connects, Joins
<1>2. Connects(e, g.nodes) => Has(g, e.from.node) /\ Has(g, e.to.node)
  BY DEF Connects, Has
<1>3. ASSUME Has(g, e.from.node), Has(g, e.to.node)
      PROVE  LET s == Node(g, e.from.node)
                 t == Node(g, e.to.node)
             IN s.id = e.from.node /\ t.id = e.to.node
  BY <1>3, NodeOfId DEF Has
<1> QED
  BY <1>1, <1>2, <1>3, PathOrSet DEF ValidConnection, Joins

\* A sound graph is what GraphOK says of graph.
LEMMA SoundIsValid ==
    ASSUME NEW g, Sound(g)
    PROVE  /\ UniqueIds(g.nodes)
           /\ \A e \in g.edges : ValidConnection(e, g, g.edges \ {e})
<1>1. UniqueIds(g.nodes)
  BY DEF Sound
<1>2. ASSUME NEW e \in g.edges PROVE ValidConnection(e, g, g.edges \ {e})
  <2>1. Connects(e, g.nodes) /\ \A o \in g.edges \ {e} : o.to # e.to
    BY DEF Sound, UniqueTargets
  <2>2. Internal(e) => Separated(e.to.node, e.from.node, g.edges \ {e})
    BY DEF Sound, Acyclic, Separated, Forward
  <2> QED
    BY <1>1, <2>1, <2>2, ValidIsConnected
<1> QED
  BY <1>1, <1>2

-----------------------------------------------------------------------------
(* What the edits make of a sound graph. *)

\* m has the id and the ports of n.
Alike(m, n) ==
    /\ m.id = n.id
    /\ \A p : SourceType(m, p) = SourceType(n, p) /\ TargetType(m, p) = TargetType(n, p)

\* Nodes may come, go and change, and connections go, if those that are
\* left keep their ends.
LEMMA SubgraphSound ==
    ASSUME NEW g, Sound(g),
           NEW N, IsFiniteSet(N), UniqueIds(N), \A n \in N : ShapedNode(n),
           NEW E, E \subseteq g.edges,
           \A e \in E, n \in g.nodes :
             n.id \in {e.from.node, e.to.node} => \E m \in N : Alike(m, n)
    PROVE  Sound([nodes |-> N, edges |-> E])
<1>1. ASSUME NEW e \in E PROVE Connects(e, N)
  <2>1. PICK s, t \in g.nodes : /\ s.id = e.from.node /\ t.id = e.to.node
                                /\ Joins(s, e.from.port, t, e.to.port)
    BY DEF Sound, Connects
  <2>2. PICK i, j \in N : Alike(i, s) /\ Alike(j, t)
    BY <2>1
  <2> QED
    BY <2>1, <2>2 DEF Connects, Joins, Alike
<1>2. UniqueTargets(E)
  BY DEF Sound, UniqueTargets
<1>3. ASSUME NEW e \in E, Internal(e) PROVE Separated(e.to.node, e.from.node, E)
  BY <1>3 DEF Sound, Acyclic, Separated, Forward
<1>4. \A e \in E : ShapedEdge(e)
  BY DEF Sound
<1> DEFINE h == [nodes |-> N, edges |-> E]
<1>5. h.nodes = N /\ h.edges = E /\ h = [nodes |-> h.nodes, edges |-> h.edges]
  OBVIOUS
<1> QED
  BY <1>1, <1>2, <1>3, <1>4, <1>5 DEF Sound, Acyclic

LEMMA AlikeItself == \A n : Alike(n, n)
BY DEF Alike

\* A node of a new id.
LEMMA WithNode ==
    ASSUME NEW g, Sound(g), NEW n, ShapedNode(n), ~Has(g, n.id)
    PROVE  Sound([nodes |-> g.nodes \cup {n}, edges |-> g.edges])
<1>1. IsFiniteSet(g.nodes \cup {n})
  BY FS_AddElement DEF Sound
<1>2. UniqueIds(g.nodes \cup {n}) /\ \A m \in g.nodes \cup {n} : ShapedNode(m)
  BY DEF Sound, UniqueIds, Has
<1>3. \A m \in g.nodes : \E k \in g.nodes \cup {n} : Alike(k, m)
  BY AlikeItself
<1> QED
  BY <1>1, <1>2, <1>3, SubgraphSound

\* A node that is replaced by one of its id and ports.
LEMMA WithChanged ==
    ASSUME NEW g, Sound(g), NEW n \in g.nodes, NEW m, ShapedNode(m), Alike(m, n)
    PROVE  Sound([nodes |-> (g.nodes \ {n}) \cup {m}, edges |-> g.edges])
<1> DEFINE N == (g.nodes \ {n}) \cup {m}
<1>1. IsFiniteSet(N)
  BY FS_AddElement, FS_RemoveElement DEF Sound
<1>2. UniqueIds(N) /\ \A k \in N : ShapedNode(k)
  BY DEF Sound, UniqueIds, Alike
<1>3. \A i \in g.nodes : \E k \in N : Alike(k, i)
  BY AlikeItself
<1> HIDE DEF N
<1>4. Sound([nodes |-> N, edges |-> g.edges])
  BY <1>1, <1>2, <1>3, SubgraphSound
<1> QED
  BY <1>4 DEF N

\* A connection that is valid among the others makes no cycle: a set that
\* separates the ends of an old one is joined with, or cut down to, the set
\* that separates the ends of the new one.
LEMMA WithEdgeAcyclic ==
    ASSUME NEW es, Acyclic(es), NEW e,
           Internal(e) => Separated(e.to.node, e.from.node, es)
    PROVE  Acyclic(es \cup {e})
<1> DEFINE fs == es \cup {e}
<1>1. ASSUME Internal(e) PROVE Separated(e.to.node, e.from.node, fs)
  BY <1>1 DEF Separated, Forward
<1>2. ASSUME NEW o \in es, Internal(o) PROVE Separated(o.to.node, o.from.node, fs)
  <2>1. PICK P : o.to.node \in P /\ o.from.node \notin P /\ Forward(P, es)
    BY <1>2 DEF Acyclic, Separated
  <2>2. CASE ~(Internal(e) /\ e.from.node \in P)
    BY <2>1, <2>2 DEF Separated, Forward
  <2>3. CASE Internal(e) /\ e.from.node \in P
    <3>1. PICK Q : e.to.node \in Q /\ e.from.node \notin Q /\ Forward(Q, es)
      BY <2>3 DEF Separated
    <3>2. CASE o.from.node \notin Q
      <4>1. /\ o.to.node \in P \cup Q /\ o.from.node \notin P \cup Q
            /\ Forward(P \cup Q, fs)
        BY <2>1, <3>1, <3>2 DEF Forward
      <4> QED
        BY <4>1 DEF Separated
    <3>3. CASE o.from.node \in Q
      <4>1. o.to.node \in Q
        BY <1>2, <3>1, <3>3 DEF Forward
      <4>2. /\ o.to.node \in P \cap Q /\ o.from.node \notin P \cap Q
            /\ Forward(P \cap Q, fs)
        BY <2>1, <3>1, <4>1 DEF Forward
      <4> QED
        BY <4>2 DEF Separated
    <3> QED
      BY <3>2, <3>3
  <2> QED
    BY <2>2, <2>3
<1> QED
  BY <1>1, <1>2 DEF Acyclic

LEMMA WithEdge ==
    ASSUME NEW g, Sound(g), NEW e, ShapedEdge(e), ValidConnection(e, g, g.edges)
    PROVE  Sound([nodes |-> g.nodes, edges |-> g.edges \cup {e}])
<1> DEFINE fs == g.edges \cup {e}
<1>1. /\ Connects(e, g.nodes) /\ \A o \in g.edges : o.to # e.to
      /\ Internal(e) => Separated(e.to.node, e.from.node, g.edges)
  BY ValidIsConnected DEF Sound
<1>2. Acyclic(fs)
  BY <1>1, WithEdgeAcyclic DEF Sound
<1>3. UniqueTargets(fs)
  BY <1>1 DEF Sound, UniqueTargets
<1>4. \A o \in fs : ShapedEdge(o) /\ Connects(o, g.nodes)
  BY <1>1 DEF Sound
<1> HIDE DEF fs
<1> DEFINE h == [nodes |-> g.nodes, edges |-> fs]
<1>5. h.nodes = g.nodes /\ h.edges = fs /\ h = [nodes |-> h.nodes, edges |-> h.edges]
  OBVIOUS
<1>6. Sound(h)
  BY <1>2, <1>3, <1>4, <1>5 DEF Sound
<1> QED
  BY <1>6 DEF fs

\* Nodes go, and their connections with them.
LEMMA WithoutNode ==
    ASSUME NEW g, Sound(g), NEW n \in g.nodes
    PROVE  Sound([nodes |-> g.nodes \ {n},
                  edges |-> {e \in g.edges : n.id \notin {e.from.node, e.to.node}}])
<1> DEFINE N == g.nodes \ {n}
           E == {e \in g.edges : n.id \notin {e.from.node, e.to.node}}
<1>1. IsFiniteSet(N)
  BY FS_RemoveElement DEF Sound
<1>2. UniqueIds(N) /\ \A m \in N : ShapedNode(m)
  BY DEF Sound, UniqueIds
<1>3. \A e \in E, m \in g.nodes :
        m.id \in {e.from.node, e.to.node} => \E k \in N : Alike(k, m)
  BY AlikeItself
<1>4. E \subseteq g.edges
  OBVIOUS
<1> HIDE DEF N, E
<1>5. Sound([nodes |-> N, edges |-> E])
  BY <1>1, <1>2, <1>3, <1>4, SubgraphSound
<1> QED
  BY <1>5 DEF N, E

\* uniqueNodeId and uniqueBoundaryName find an id that is free.
LEMMA FreeId ==
    ASSUME NEW kind, NEW base, NEW g, HasFreeId(kind, base, g)
    PROVE  /\ Kind(UniqueId(kind, base, g)) = kind
           /\ ~Has(g, UniqueId(kind, base, g))
<1> DEFINE free == {k \in Numbers : ~Has(g, <<kind, base, k>>)}
<1>1. free # {} /\ free \subseteq Nat
  BY DEF HasFreeId, Numbers
<1>2. \E k \in free : \A m \in free : k <= m
  <2>1. \E k \in free : \A m \in free : ~(<<m, k>> \in OpToRel(<, Nat))
    BY <1>1, NatLessThanWellFounded, WFMin
  <2>2. \A m, k \in Nat : m < k => <<m, k>> \in OpToRel(<, Nat)
    BY DEF OpToRel
  <2> HIDE DEF free
  <2>3. PICK k \in free : \A m \in free : ~(<<m, k>> \in OpToRel(<, Nat))
    BY <2>1
  <2>4. \A m \in free : m \in Nat /\ k \in Nat /\ ~(m < k)
    BY <1>1, <2>2, <2>3
  <2>5. \A m \in free : k <= m
    BY <2>4
  <2> QED
    BY <2>5
<1> DEFINE k == CHOOSE i \in free : \A m \in free : i <= m
<1>3. k \in free
  BY <1>2
<1>4. UniqueId(kind, base, g) = <<kind, base, k>>
  BY DEF UniqueId
<1> HIDE DEF k
<1> QED
  BY <1>3, <1>4 DEF Kind

\* renameNode: another id for a node, at both ends of its connections; a
\* set that separates is renamed with them.
LEMMA RenamedSound ==
    ASSUME NEW g, Sound(g), NEW n \in OpNodes(g), NEW new,
           Kind(new) = "operation", ~Has(g, new)
    PROVE  Sound(Renamed(g, n.id, new))
<1> DEFINE R(id) == IF id = n.id THEN new ELSE id
           NodeTo(m) == IF m.id = n.id THEN [m EXCEPT !.id = new] ELSE m
           EdgeTo(e) == [e EXCEPT !.from.node = IF @ = n.id THEN new ELSE @,
                                  !.to.node = IF @ = n.id THEN new ELSE @]
           N == {NodeTo(m) : m \in g.nodes}
           E == {EdgeTo(e) : e \in g.edges}
<1>1. Renamed(g, n.id, new) = [nodes |-> N, edges |-> E]
  BY DEF Renamed
<1>2. n \in g.nodes /\ Kind(n.id) = "operation"
  BY DEF OpNodes
<1>3. \A i, j : (\E m \in g.nodes : m.id = i) /\ (\E m \in g.nodes : m.id = j)
                /\ R(i) = R(j) => i = j
  BY DEF Has
<1>4. ASSUME NEW m \in g.nodes
      PROVE  /\ NodeTo(m).id = R(m.id) /\ Kind(NodeTo(m).id) = Kind(m.id)
             /\ ShapedNode(NodeTo(m))
             /\ \A p : /\ SourceType(NodeTo(m), p) = SourceType(m, p)
                       /\ TargetType(NodeTo(m), p) = TargetType(m, p)
  <2>1. CASE m.id = n.id
    <3>1. Kind(m.id) = "operation" /\ m.op \in Ops
          /\ m = [id |-> m.id, op |-> m.op, parameters |-> m.parameters,
                  place |-> m.place]
      BY <1>2, <2>1 DEF Sound, ShapedNode
    <3>2. NodeTo(m) = [id |-> new, op |-> m.op, parameters |-> m.parameters,
                       place |-> m.place]
      BY <2>1, <3>1
    <3> HIDE DEF NodeTo
    <3>3. NodeTo(m).id = new /\ NodeTo(m).op = m.op
      BY <3>2
    <3> QED
      BY <2>1, <3>1, <3>2, <3>3 DEF ShapedNode, SourceType, TargetType
  <2>2. CASE m.id # n.id
    BY <2>2 DEF Sound
  <2> QED
    BY <2>1, <2>2
<1>5. ASSUME NEW e \in g.edges
      PROVE  /\ EdgeTo(e) = [from |-> EndpointOf(R(e.from.node), e.from.port),
                             to |-> EndpointOf(R(e.to.node), e.to.port)]
             /\ EdgeTo(e).from.node = R(e.from.node) /\ EdgeTo(e).to.node = R(e.to.node)
             /\ EdgeTo(e).from.port = e.from.port /\ EdgeTo(e).to.port = e.to.port
             /\ \E m \in g.nodes : m.id = e.from.node
             /\ \E m \in g.nodes : m.id = e.to.node
  <2>1. e = [from |-> EndpointOf(e.from.node, e.from.port),
             to |-> EndpointOf(e.to.node, e.to.port)]
    BY DEF Sound, ShapedEdge
  <2>2. EdgeTo(e) = [from |-> EndpointOf(R(e.from.node), e.from.port),
                     to |-> EndpointOf(R(e.to.node), e.to.port)]
    <3>1. /\ DOMAIN e = {"from", "to"}
          /\ e.from = [node |-> e.from.node, port |-> e.from.port]
          /\ e.to = [node |-> e.to.node, port |-> e.to.port]
      BY <2>1 DEF EndpointOf
    <3>2. /\ [e.from EXCEPT !.node = R(e.from.node)] = EndpointOf(R(e.from.node), e.from.port)
          /\ [e.to EXCEPT !.node = R(e.to.node)] = EndpointOf(R(e.to.node), e.to.port)
      BY <3>1 DEF EndpointOf
    <3>3. EdgeTo(e) = [e EXCEPT !.from = [e.from EXCEPT !.node = R(e.from.node)],
                                !.to = [e.to EXCEPT !.node = R(e.to.node)]]
      BY <3>1
    <3>4. EdgeTo(e) = [from |-> [e.from EXCEPT !.node = R(e.from.node)],
                       to |-> [e.to EXCEPT !.node = R(e.to.node)]]
      <4> HIDE DEF R, EdgeTo
      <4> QED
        BY <2>1, <3>3
    <3> HIDE DEF R, EdgeTo
    <3> QED
      BY <3>2, <3>4
  <2>3. Connects(e, g.nodes)
    BY DEF Sound
  <2> HIDE DEF EdgeTo, R
  <2> QED
    BY <2>2, <2>3 DEF EndpointOf, Connects
<1>6. \A i : Kind(R(i)) = Kind(i)
  BY <1>2
<1>7. IsFiniteSet(N)
  <2> HIDE DEF NodeTo
  <2>1. [m \in g.nodes |-> NodeTo(m)] \in Surjection(g.nodes, N)
    BY DEF Surjection
  <2>2. IsFiniteSet(g.nodes)
    BY DEF Sound
  <2> QED
    BY <2>1, <2>2, FS_Surjection
<1>8. UniqueIds(N) /\ \A m \in N : ShapedNode(m)
  <2> HIDE DEF R, NodeTo
  <2> QED
    BY <1>3, <1>4 DEF Sound, UniqueIds
<1> HIDE DEF R, NodeTo, EdgeTo
<1>9. ASSUME NEW e \in g.edges
      PROVE  ShapedEdge(EdgeTo(e)) /\ Connects(EdgeTo(e), N)
  <2>1. ShapedEdge(e)
    BY DEF Sound
  <2>2. ShapedEdge(EdgeTo(e))
    BY <1>5, <1>6, <2>1 DEF ShapedEdge
  <2>3. PICK s, t \in g.nodes : /\ s.id = e.from.node /\ t.id = e.to.node
                                /\ Joins(s, e.from.port, t, e.to.port)
    BY DEF Sound, Connects
  <2>4. Joins(NodeTo(s), e.from.port, NodeTo(t), e.to.port)
    BY <1>3, <1>4, <2>3 DEF Joins
  <2> QED
    BY <1>4, <1>5, <2>2, <2>3, <2>4 DEF Connects
<1>10. UniqueTargets(E)
  <2> SUFFICES ASSUME NEW e \in g.edges, NEW o \in g.edges,
                      EdgeTo(o).to = EdgeTo(e).to
               PROVE  o = e
    BY DEF UniqueTargets
  <2>1. o.to.node = e.to.node /\ o.to.port = e.to.port
    BY <1>3, <1>5
  <2>2. o.to = e.to
    BY <2>1 DEF Sound, ShapedEdge
  <2> QED
    BY <2>2 DEF Sound, UniqueTargets
<1>11. \A e \in g.edges : Internal(EdgeTo(e)) = Internal(e)
  BY <1>5, <1>6 DEF Internal
<1>12. Acyclic(E)
  <2> SUFFICES ASSUME NEW e \in g.edges, Internal(e)
               PROVE  Separated(EdgeTo(e).to.node, EdgeTo(e).from.node, E)
    BY <1>11 DEF Acyclic
  <2>1. PICK S : e.to.node \in S /\ e.from.node \notin S /\ Forward(S, g.edges)
    BY DEF Sound, Acyclic, Separated
  <2> DEFINE T == {R(m.id) : m \in {k \in g.nodes : k.id \in S}}
  <2>2. \A m \in g.nodes : R(m.id) \in T <=> m.id \in S
    BY <1>3
  <2> HIDE DEF T
  <2>3. EdgeTo(e).to.node \in T /\ EdgeTo(e).from.node \notin T
    BY <1>5, <2>1, <2>2
  <2>4. Forward(T, E)
    BY <1>5, <1>11, <2>1, <2>2 DEF Forward
  <2> QED
    BY <2>3, <2>4 DEF Separated
<1> HIDE DEF N, E
<1> DEFINE h == [nodes |-> N, edges |-> E]
<1>13. h.nodes = N /\ h.edges = E /\ h = [nodes |-> h.nodes, edges |-> h.edges]
  OBVIOUS
<1>14. \A e \in E : ShapedEdge(e) /\ Connects(e, N)
  BY <1>9 DEF E
<1>15. Sound(h)
  BY <1>7, <1>8, <1>10, <1>12, <1>13, <1>14 DEF Sound
<1> QED
  BY <1>1, <1>15

\* The boundaries of a kind that are connected, and their connection in the
\* workflow that is saved.
Used(g, kind) ==
    {n \in Boundaries(g, kind) :
       \E e \in g.edges : n.id = IF kind = "input" THEN e.from.node ELSE e.to.node}
FromInput(g, n) == CHOOSE e \in g.edges : e.from.node = n.id
ToOutput(g, n) == CHOOSE e \in g.edges : e.to.node = n.id

\* What is opened after it was saved: boundaries without a connection are
\* gone, and all but one of the connections of a workflow input.
SavedCanvas(g) ==
    [nodes |-> OpNodes(g) \cup Used(g, "input") \cup Used(g, "output"),
     edges |-> {e \in g.edges : Internal(e)}
               \cup {FromInput(g, n) : n \in Used(g, "input")}
               \cup {ToOutput(g, n) : n \in Used(g, "output")}]

LEMMA ChosenConnections ==
    ASSUME NEW g, Sound(g)
    PROVE  /\ \A n \in Used(g, "input") :
                /\ FromInput(g, n) \in g.edges
                /\ FromInput(g, n) = [from |-> EndpointOf(n.id, "it"),
                                      to |-> FromInput(g, n).to]
           /\ \A n \in Used(g, "output") :
                /\ ToOutput(g, n) \in g.edges
                /\ ToOutput(g, n) = [from |-> ToOutput(g, n).from,
                                     to |-> EndpointOf(n.id, "it")]
<1>1. ASSUME NEW n \in Used(g, "input")
      PROVE  /\ FromInput(g, n) \in g.edges
             /\ FromInput(g, n) = [from |-> EndpointOf(n.id, "it"),
                                   to |-> FromInput(g, n).to]
  <2> DEFINE e == FromInput(g, n)
  <2>1. Kind(n.id) = "input" /\ e \in g.edges /\ e.from.node = n.id
    BY DEF Used, Boundaries, FromInput
  <2> HIDE DEF e
  <2>2. /\ e = [from |-> EndpointOf(e.from.node, e.from.port),
                to |-> EndpointOf(e.to.node, e.to.port)]
        /\ e.from.port = "it"
    BY <2>1 DEF Sound, ShapedEdge
  <2>3. e.to = EndpointOf(e.to.node, e.to.port)
    BY <2>2
  <2>4. e \in g.edges /\ e = [from |-> EndpointOf(n.id, "it"), to |-> e.to]
    BY <2>1, <2>2, <2>3
  <2> QED
    BY <2>4 DEF e
<1>2. ASSUME NEW n \in Used(g, "output")
      PROVE  /\ ToOutput(g, n) \in g.edges
             /\ ToOutput(g, n) = [from |-> ToOutput(g, n).from,
                                  to |-> EndpointOf(n.id, "it")]
  <2> DEFINE e == ToOutput(g, n)
  <2>1. Kind(n.id) = "output" /\ e \in g.edges /\ e.to.node = n.id
    BY DEF Used, Boundaries, ToOutput
  <2> HIDE DEF e
  <2>2. /\ e = [from |-> EndpointOf(e.from.node, e.from.port),
                to |-> EndpointOf(e.to.node, e.to.port)]
        /\ e.to.port = "it"
    BY <2>1 DEF Sound, ShapedEdge
  <2>3. e.from = EndpointOf(e.from.node, e.from.port)
    BY <2>2
  <2>4. e \in g.edges /\ e = [from |-> e.from, to |-> EndpointOf(n.id, "it")]
    BY <2>1, <2>2, <2>3
  <2> QED
    BY <2>4 DEF e
<1> QED
  BY <1>1, <1>2

\* canvasToWorkflow
LEMMA WorkflowParts ==
    ASSUME NEW g
    PROVE  LET w == ToWorkflow(g) IN
           /\ w.nodes = OpNodes(g) /\ w.edges = {e \in g.edges : Internal(e)}
           /\ w.inputs = {[name |-> n, to |-> FromInput(g, n).to] :
                            n \in Used(g, "input")}
           /\ w.outputs = {[name |-> n, from |-> ToOutput(g, n).from] :
                             n \in Used(g, "output")}
<1> DEFINE ins == Used(g, "input")
           outs == Used(g, "output")
<1>1. /\ ins = {m \in Boundaries(g, "input") : \E e \in g.edges : e.from.node = m.id}
      /\ outs = {m \in Boundaries(g, "output") : \E e \in g.edges : e.to.node = m.id}
  BY DEF Used
<1> HIDE DEF ins, outs
<1>2. LET w == ToWorkflow(g) IN
      /\ w.nodes = OpNodes(g) /\ w.edges = {e \in g.edges : Internal(e)}
      /\ w.inputs = {[name |-> n, to |-> FromInput(g, n).to] : n \in ins}
      /\ w.outputs = {[name |-> n, from |-> ToOutput(g, n).from] : n \in outs}
  BY <1>1 DEF ToWorkflow, FromInput, ToOutput
<1> QED
  BY <1>2 DEF ins, outs

\* canvasToWorkflow and then workflowToCanvas.
LEMMA SavedAndOpened ==
    ASSUME NEW g, Sound(g)
    PROVE  ToCanvas(ToWorkflow(g)) = SavedCanvas(g)
<1> DEFINE w == ToWorkflow(g)
           ins == Used(g, "input")
           outs == Used(g, "output")
<1>1. /\ w.nodes = OpNodes(g) /\ w.edges = {e \in g.edges : Internal(e)}
      /\ w.inputs = {[name |-> n, to |-> FromInput(g, n).to] : n \in ins}
      /\ w.outputs = {[name |-> n, from |-> ToOutput(g, n).from] : n \in outs}
  BY WorkflowParts
<1> HIDE DEF w, ins, outs
<1> DEFINE TheInput(n) == [name |-> n, to |-> FromInput(g, n).to]
           TheOutput(n) == [name |-> n, from |-> ToOutput(g, n).from]
<1>2. /\ \A n \in ins : TheInput(n) \in w.inputs
      /\ \A i \in w.inputs : \E n \in ins : i = TheInput(n)
      /\ \A n \in outs : TheOutput(n) \in w.outputs
      /\ \A o \in w.outputs : \E n \in outs : o = TheOutput(n)
  BY <1>1
<1>3. /\ \A n : TheInput(n).name = n /\ TheInput(n).to = FromInput(g, n).to
      /\ \A n : TheOutput(n).name = n /\ TheOutput(n).from = ToOutput(g, n).from
  OBVIOUS
<1> HIDE DEF TheInput, TheOutput
<1>4. {i.name : i \in w.inputs} = ins /\ {o.name : o \in w.outputs} = outs
  BY <1>2, <1>3
<1>5. {[from |-> EndpointOf(i.name.id, "it"), to |-> i.to] : i \in w.inputs}
        = {FromInput(g, n) : n \in ins}
  <2> DEFINE Opened(i) == [from |-> EndpointOf(i.name.id, "it"), to |-> i.to]
  <2>1. \A n \in ins : Opened(TheInput(n)) = FromInput(g, n)
    BY <1>3, ChosenConnections DEF ins
  <2> HIDE DEF Opened
  <2>2. {Opened(i) : i \in w.inputs} = {FromInput(g, n) : n \in ins}
    BY <1>2, <2>1
  <2> QED
    BY <2>2 DEF Opened
<1>6. {[from |-> o.from, to |-> EndpointOf(o.name.id, "it")] : o \in w.outputs}
        = {ToOutput(g, n) : n \in outs}
  <2> DEFINE Opened(o) == [from |-> o.from, to |-> EndpointOf(o.name.id, "it")]
  <2>1. \A n \in outs : Opened(TheOutput(n)) = ToOutput(g, n)
    BY <1>3, ChosenConnections DEF outs
  <2> HIDE DEF Opened
  <2>2. {Opened(o) : o \in w.outputs} = {ToOutput(g, n) : n \in outs}
    BY <1>2, <2>1
  <2> QED
    BY <2>2 DEF Opened
<1> QED
  BY <1>1, <1>4, <1>5, <1>6 DEF ToCanvas, SavedCanvas, w, ins, outs

\* The ends of a connection are of the kinds that are joined.
LEMMA EndKinds ==
    ASSUME NEW g, Sound(g), NEW e \in g.edges
    PROVE  /\ <<Kind(e.from.node), Kind(e.to.node)>> \in
                 {<<"operation", "operation">>, <<"input", "operation">>,
                  <<"operation", "output">>}
           /\ \E s \in g.nodes : s.id = e.from.node
           /\ \E t \in g.nodes : t.id = e.to.node
BY DEF Sound, Connects, Joins

LEMMA SavedSound ==
    ASSUME NEW g, Sound(g)
    PROVE  Sound(ToCanvas(ToWorkflow(g)))
<1> DEFINE N == OpNodes(g) \cup Used(g, "input") \cup Used(g, "output")
           E == {e \in g.edges : Internal(e)}
                \cup {FromInput(g, n) : n \in Used(g, "input")}
                \cup {ToOutput(g, n) : n \in Used(g, "output")}
<1>1. N \subseteq g.nodes /\ E \subseteq g.edges
  BY ChosenConnections DEF OpNodes, Used, Boundaries
<1>2. IsFiniteSet(N) /\ UniqueIds(N) /\ \A n \in N : ShapedNode(n)
  <2> HIDE DEF N
  <2> QED
    BY <1>1, FS_Subset DEF Sound, UniqueIds
<1>3. ASSUME NEW e \in E, NEW n \in g.nodes, n.id \in {e.from.node, e.to.node}
      PROVE  n \in N
  <2>1. Kind(n.id) = "operation" => n \in N
    BY DEF OpNodes
  <2>2. CASE Internal(e)
    BY <1>3, <2>1, <2>2 DEF Internal
  <2>3. CASE \E m \in Used(g, "input") : e = FromInput(g, m)
    <3>1. PICK m \in Used(g, "input") : e = FromInput(g, m)
      BY <2>3
    <3>2. e.from.node = m.id /\ m \in g.nodes /\ Kind(m.id) = "input"
      BY <3>1, ChosenConnections DEF EndpointOf, Used, Boundaries
    <3>3. Kind(e.to.node) = "operation"
      BY <1>1, <3>2, EndKinds
    <3>4. n.id = m.id => n = m
      BY <3>2 DEF Sound, UniqueIds
    <3> QED
      BY <1>3, <2>1, <3>2, <3>3, <3>4
  <2>4. CASE \E m \in Used(g, "output") : e = ToOutput(g, m)
    <3>1. PICK m \in Used(g, "output") : e = ToOutput(g, m)
      BY <2>4
    <3>2. e.to.node = m.id /\ m \in g.nodes /\ Kind(m.id) = "output"
      BY <3>1, ChosenConnections DEF EndpointOf, Used, Boundaries
    <3>3. Kind(e.from.node) = "operation"
      BY <1>1, <3>2, EndKinds
    <3>4. n.id = m.id => n = m
      BY <3>2 DEF Sound, UniqueIds
    <3> QED
      BY <1>3, <2>1, <3>2, <3>3, <3>4
  <2> QED
    BY <2>2, <2>3, <2>4
<1> HIDE DEF N, E
<1>4. \A e \in E, n \in g.nodes :
        n.id \in {e.from.node, e.to.node} => \E m \in N : Alike(m, n)
  BY <1>3, AlikeItself
<1>5. Sound([nodes |-> N, edges |-> E])
  BY <1>1, <1>2, <1>4, SubgraphSound
<1> QED
  BY <1>5, SavedAndOpened DEF SavedCanvas, N, E

-----------------------------------------------------------------------------
(* The steps of the composer keep every graph sound. *)

GraphInv ==
    /\ Sound(graph)
    /\ dragStart # NoGraph => Sound(dragStart)
    /\ \E S : /\ history \in Seq(S) /\ future \in Seq(S)
              /\ \A g \in S : Sound(g)

\* An edit that commits a sound graph.
LEMMA CommitSound ==
    ASSUME GraphInv, NEW g, Sound(g), Commit(g) \/ CommitUnlimited(g)
    PROVE  GraphInv'
<1>1. PICK R : history \in Seq(R) /\ future \in Seq(R) /\ \A h \in R : Sound(h)
  BY DEF GraphInv
<1> DEFINE S == R \cup {graph}
<1>2. history \in Seq(S) /\ <<>> \in Seq(S) /\ \A h \in S : Sound(h)
  BY <1>1, SeqMonotonic, EmptySeq DEF GraphInv
<1>3. graph \in S
  OBVIOUS
<1> HIDE DEF S
<1>4. /\ Append(history, graph) \in Seq(S) /\ Append(history, graph) # <<>>
  BY <1>2, <1>3, AppendProperties
<1>5. Tail(Append(history, graph)) \in Seq(S)
  BY <1>4, HeadTailProperties
<1>6. history' \in Seq(S) /\ future' \in Seq(S)
  BY <1>2, <1>4, <1>5 DEF Commit, CommitUnlimited
<1>7. graph' = g /\ dragStart' = dragStart
  BY DEF Commit, CommitUnlimited
<1> QED
  BY <1>2, <1>6, <1>7 DEF GraphInv

\* The edits of the graph commit sound graphs.
LEMMA EditsSound ==
    ASSUME GraphInv,
           \/ \E o \in Ops : AddOperation(o)
           \/ Connect \/ DeleteNode \/ DeleteEdge \/ SetParameter \/ Rename
           \/ ExposeInput \/ ExposeOutput
    PROVE  GraphInv'
<1> DEFINE g == graph
<1>1. Sound(g) /\ g = [nodes |-> g.nodes, edges |-> g.edges]
  BY DEF GraphInv, Sound
<1>2. ASSUME NEW o \in Ops, AddOperation(o) PROVE GraphInv'
  <2> DEFINE n == [id |-> UniqueId("operation", o, g), op |-> o,
                   parameters |-> 0, place |-> 0]
  <2>1. Kind(n.id) = "operation" /\ ~Has(g, n.id)
    BY <1>2, FreeId DEF AddOperation
  <2>2. ShapedNode(n)
    BY <2>1 DEF ShapedNode
  <2>3. Sound([nodes |-> g.nodes \cup {n}, edges |-> g.edges])
    <3> HIDE DEF n, g
    <3> QED
      BY <1>1, <2>1, <2>2, WithNode
  <2>4. [g EXCEPT !.nodes = @ \cup {n}] = [nodes |-> g.nodes \cup {n}, edges |-> g.edges]
    BY <1>1
  <2>5. Commit([g EXCEPT !.nodes = @ \cup {n}])
    BY <1>2 DEF AddOperation
  <2> QED
    BY <2>3, <2>4, <2>5, CommitSound
<1>3. CASE Connect
  <2>1. PICK s \in Ports(g), t \in Ports(g) :
          /\ ValidConnection([from |-> s, to |-> t], g, g.edges)
          /\ Commit([g EXCEPT !.edges = @ \cup {[from |-> s, to |-> t]}])
    BY <1>3 DEF Connect
  <2> DEFINE e == [from |-> s, to |-> t]
  <2>2. \A q \in Ports(g) : /\ q = EndpointOf(q.node, q.port)
                            /\ Kind(q.node) = "operation" \/ q.port = "it"
    BY DEF Ports, EndpointOf, OpNodes
  <2>3. ShapedEdge(e)
    BY <2>2 DEF ShapedEdge
  <2>4. ValidConnection(e, g, g.edges)
    BY <2>1
  <2> HIDE DEF e
  <2>5. Sound([nodes |-> g.nodes, edges |-> g.edges \cup {e}])
    BY <1>1, <2>3, <2>4, WithEdge
  <2>6. [g EXCEPT !.edges = @ \cup {e}] = [nodes |-> g.nodes, edges |-> g.edges \cup {e}]
    BY <1>1
  <2> QED
    BY <2>1, <2>5, <2>6, CommitSound DEF e
<1>4. CASE DeleteNode
  BY <1>1, <1>4, WithoutNode, CommitSound DEF DeleteNode
<1>5. CASE DeleteEdge
  <2>1. PICK e \in g.edges : Commit([g EXCEPT !.edges = @ \ {e}])
    BY <1>5 DEF DeleteEdge
  <2>2. Sound([nodes |-> g.nodes, edges |-> g.edges \ {e}])
    <3>1. /\ IsFiniteSet(g.nodes) /\ UniqueIds(g.nodes)
          /\ \A n \in g.nodes : ShapedNode(n)
      BY <1>1 DEF Sound
    <3>2. g.edges \ {e} \subseteq g.edges
      OBVIOUS
    <3> HIDE DEF g
    <3> QED
      BY <1>1, <3>1, <3>2, SubgraphSound, AlikeItself
  <2>3. [g EXCEPT !.edges = @ \ {e}] = [nodes |-> g.nodes, edges |-> g.edges \ {e}]
    BY <1>1
  <2> QED
    BY <2>1, <2>2, <2>3, CommitSound
<1>6. CASE SetParameter
  <2>1. PICK n \in OpNodes(g) :
          CommitUnlimited([g EXCEPT !.nodes =
            (@ \ {n}) \cup {[n EXCEPT !.parameters = 1 - @]}])
    BY <1>6 DEF SetParameter
  <2> DEFINE m == [n EXCEPT !.parameters = 1 - @]
  <2>2. n \in g.nodes /\ Kind(n.id) = "operation" /\ n.op \in Ops
        /\ n = [id |-> n.id, op |-> n.op, parameters |-> n.parameters, place |-> n.place]
    BY <1>1 DEF OpNodes, Sound, ShapedNode
  <2>3. m = [id |-> n.id, op |-> n.op, parameters |-> 1 - n.parameters, place |-> n.place]
    BY <2>2
  <2> HIDE DEF m
  <2>4. ShapedNode(m) /\ Alike(m, n)
    BY <2>2, <2>3 DEF ShapedNode, Alike, SourceType, TargetType
  <2>5. Sound([nodes |-> (g.nodes \ {n}) \cup {m}, edges |-> g.edges])
    BY <1>1, <2>2, <2>4, WithChanged
  <2>6. [g EXCEPT !.nodes = (@ \ {n}) \cup {m}]
          = [nodes |-> (g.nodes \ {n}) \cup {m}, edges |-> g.edges]
    BY <1>1
  <2> QED
    BY <2>1, <2>5, <2>6, CommitSound DEF m
<1>7. CASE Rename
  <2>1. PICK n \in OpNodes(g), name \in Names :
          /\ ~Has(g, <<"operation", name, 1>>)
          /\ CommitUnlimited(Renamed(g, n.id, <<"operation", name, 1>>))
    BY <1>7 DEF Rename
  <2>2. Kind(<<"operation", name, 1>>) = "operation"
    BY DEF Kind
  <2>3. Sound(Renamed(g, n.id, <<"operation", name, 1>>))
    BY <1>1, <2>1, <2>2, RenamedSound
  <2> QED
    BY <2>1, <2>3, CommitSound
<1>8. CASE ExposeInput
  <2>1. PICK n \in OpNodes(g) : \E p \in DOMAIN Inputs[n.op] :
          LET id == UniqueId("input", p, g) IN
          /\ HasFreeId("input", p, g)
          /\ \A o \in g.edges : o.to # EndpointOf(n.id, p)
          /\ Commit([nodes |-> g.nodes \cup
                        {[id |-> id, type |-> Inputs[n.op][p].type, place |-> 0]},
                     edges |-> g.edges \cup
                        {[from |-> EndpointOf(id, "it"), to |-> EndpointOf(n.id, p)]}])
    BY <1>8 DEF ExposeInput
  <2>2. PICK p \in DOMAIN Inputs[n.op] :
          LET id == UniqueId("input", p, g) IN
          /\ HasFreeId("input", p, g)
          /\ \A o \in g.edges : o.to # EndpointOf(n.id, p)
          /\ Commit([nodes |-> g.nodes \cup
                        {[id |-> id, type |-> Inputs[n.op][p].type, place |-> 0]},
                     edges |-> g.edges \cup
                        {[from |-> EndpointOf(id, "it"), to |-> EndpointOf(n.id, p)]}])
    BY <2>1
  <2> DEFINE id == UniqueId("input", p, g)
             b == [id |-> id, type |-> Inputs[n.op][p].type, place |-> 0]
             e == [from |-> EndpointOf(id, "it"), to |-> EndpointOf(n.id, p)]
             h == [nodes |-> g.nodes \cup {b}, edges |-> g.edges]
  <2>3. Kind(id) = "input" /\ ~Has(g, id) /\ n \in g.nodes /\ Kind(n.id) = "operation"
    BY <2>2, FreeId DEF OpNodes
  <2> HIDE DEF id
  <2>4. /\ ShapedNode(b) /\ ~Has(g, b.id) /\ b.id = id
        /\ SourceType(b, "it") = {Inputs[n.op][p].type}
    BY <2>3 DEF ShapedNode, SourceType
  <2>5. TargetType(n, p) = {Inputs[n.op][p].type}
    BY <2>3 DEF TargetType
  <2>6. /\ e.from.node = id /\ e.from.port = "it" /\ e.to.node = n.id /\ e.to.port = p
        /\ e.to = EndpointOf(n.id, p) /\ ShapedEdge(e) /\ ~Internal(e)
    BY <2>3 DEF EndpointOf, ShapedEdge, Internal
  <2>7. Joins(b, e.from.port, n, e.to.port)
    BY <2>3, <2>4, <2>5, <2>6 DEF Joins
  <2>8. h.nodes = g.nodes \cup {b} /\ h.edges = g.edges
    OBVIOUS
  <2>9. Commit([nodes |-> g.nodes \cup {b}, edges |-> g.edges \cup {e}])
    BY <2>2 DEF id
  <2> HIDE DEF b, e
  <2>10. Sound(h)
    BY <1>1, <2>4, WithNode
  <2> HIDE DEF h
  <2>11. Connects(e, h.nodes)
    BY <2>3, <2>4, <2>6, <2>7, <2>8 DEF Connects
  <2>12. ValidConnection(e, h, h.edges)
    BY <2>2, <2>6, <2>8, <2>10, <2>11, ValidIsConnected DEF Sound
  <2>13. Sound([nodes |-> h.nodes, edges |-> h.edges \cup {e}])
    BY <2>6, <2>10, <2>12, WithEdge
  <2> QED
    BY <2>8, <2>9, <2>13, CommitSound
<1>9. CASE ExposeOutput
  <2>1. PICK n \in OpNodes(g) : \E p \in DOMAIN Outputs[n.op] :
          LET id == UniqueId("output", p, g) IN
          /\ HasFreeId("output", p, g)
          /\ Commit([nodes |-> g.nodes \cup
                        {[id |-> id, type |-> Outputs[n.op][p], place |-> 0]},
                     edges |-> g.edges \cup
                        {[from |-> EndpointOf(n.id, p), to |-> EndpointOf(id, "it")]}])
    BY <1>9 DEF ExposeOutput
  <2>2. PICK p \in DOMAIN Outputs[n.op] :
          LET id == UniqueId("output", p, g) IN
          /\ HasFreeId("output", p, g)
          /\ Commit([nodes |-> g.nodes \cup
                        {[id |-> id, type |-> Outputs[n.op][p], place |-> 0]},
                     edges |-> g.edges \cup
                        {[from |-> EndpointOf(n.id, p), to |-> EndpointOf(id, "it")]}])
    BY <2>1
  <2> DEFINE id == UniqueId("output", p, g)
             b == [id |-> id, type |-> Outputs[n.op][p], place |-> 0]
             e == [from |-> EndpointOf(n.id, p), to |-> EndpointOf(id, "it")]
             h == [nodes |-> g.nodes \cup {b}, edges |-> g.edges]
  <2>3. Kind(id) = "output" /\ ~Has(g, id) /\ n \in g.nodes /\ Kind(n.id) = "operation"
    BY <2>2, FreeId DEF OpNodes
  <2> HIDE DEF id
  <2>4. /\ ShapedNode(b) /\ ~Has(g, b.id) /\ b.id = id
        /\ TargetType(b, "it") = {Outputs[n.op][p]}
    BY <2>3 DEF ShapedNode, TargetType
  <2>5. SourceType(n, p) = {Outputs[n.op][p]}
    BY <2>3 DEF SourceType
  <2>6. /\ e.to.node = id /\ e.to.port = "it" /\ e.from.node = n.id /\ e.from.port = p
        /\ ShapedEdge(e) /\ ~Internal(e)
    BY <2>3 DEF EndpointOf, ShapedEdge, Internal
  <2>7. Joins(n, e.from.port, b, e.to.port)
    BY <2>3, <2>4, <2>5, <2>6 DEF Joins
  <2>8. h.nodes = g.nodes \cup {b} /\ h.edges = g.edges
    OBVIOUS
  <2>9. Commit([nodes |-> g.nodes \cup {b}, edges |-> g.edges \cup {e}])
    BY <2>2 DEF id
  <2> HIDE DEF b, e
  <2>10. Sound(h)
    BY <1>1, <2>4, WithNode
  <2> HIDE DEF h
  <2>11. Connects(e, h.nodes)
    BY <2>3, <2>4, <2>6, <2>7, <2>8 DEF Connects
  <2>12. \A o \in h.edges : o.to # e.to
    <3>1. \A o \in g.edges : Has(g, o.to.node)
      BY <1>1, EndKinds DEF Has
    <3> QED
      BY <2>3, <2>6, <2>8, <3>1
  <2>13. ValidConnection(e, h, h.edges)
    BY <2>6, <2>10, <2>11, <2>12, ValidIsConnected DEF Sound
  <2>14. Sound([nodes |-> h.nodes, edges |-> h.edges \cup {e}])
    BY <2>6, <2>10, <2>13, WithEdge
  <2> QED
    BY <2>8, <2>9, <2>14, CommitSound
<1> QED
  BY <1>2, <1>3, <1>4, <1>5, <1>6, <1>7, <1>8, <1>9

\* Dragging a node moves it and nothing else.
LEMMA DragSound ==
    ASSUME GraphInv, Drag
    PROVE  Sound(graph')
<1> DEFINE g == graph
<1>1. PICK n \in g.nodes :
        graph' = [g EXCEPT !.nodes = (@ \ {n}) \cup {[n EXCEPT !.place = 1 - @]}]
  BY DEF Drag
<1> DEFINE m == [n EXCEPT !.place = 1 - @]
<1>2. Sound(g) /\ g = [nodes |-> g.nodes, edges |-> g.edges] /\ ShapedNode(n)
  BY DEF GraphInv, Sound
<1>3. CASE Kind(n.id) = "operation"
  <2>1. /\ n.op \in Ops
        /\ n = [id |-> n.id, op |-> n.op, parameters |-> n.parameters, place |-> n.place]
    BY <1>2, <1>3 DEF ShapedNode
  <2>2. m = [id |-> n.id, op |-> n.op, parameters |-> n.parameters, place |-> 1 - n.place]
    BY <2>1
  <2> HIDE DEF m
  <2> QED
    <3>1. ShapedNode(m) /\ Alike(m, n)
      BY <1>3, <2>1, <2>2 DEF ShapedNode, Alike, SourceType, TargetType
    <3>2. Sound([nodes |-> (g.nodes \ {n}) \cup {m}, edges |-> g.edges])
      BY <1>2, <3>1, WithChanged
    <3> QED
      BY <1>1, <1>2, <3>2 DEF m
<1>4. CASE Kind(n.id) # "operation"
  <2>1. /\ Kind(n.id) \in {"input", "output"}
        /\ n = [id |-> n.id, type |-> n.type, place |-> n.place]
    BY <1>2, <1>4 DEF ShapedNode
  <2>2. m = [id |-> n.id, type |-> n.type, place |-> 1 - n.place]
    BY <2>1
  <2> HIDE DEF m
  <2> QED
    <3>1. ShapedNode(m) /\ Alike(m, n)
      BY <1>4, <2>1, <2>2 DEF ShapedNode, Alike, SourceType, TargetType
    <3>2. Sound([nodes |-> (g.nodes \ {n}) \cup {m}, edges |-> g.edges])
      BY <1>2, <3>1, WithChanged
    <3> QED
      BY <1>1, <1>2, <3>2 DEF m
<1> QED
  BY <1>3, <1>4

\* The documents open as sound graphs.
SoundDocuments == \A w \in Documents : Sound(ToCanvas(w))

LEMMA GraphStep ==
    ASSUME GraphInv, SoundDocuments, [Next]_vars
    PROVE  GraphInv'
<1>1. PICK R : history \in Seq(R) /\ future \in Seq(R) /\ \A h \in R : Sound(h)
  BY DEF GraphInv
<1> DEFINE S == R \cup (IF dragStart = NoGraph THEN {graph} ELSE {graph, dragStart})
<1>2. /\ history \in Seq(S) /\ future \in Seq(S) /\ <<>> \in Seq(S)
      /\ graph \in S /\ \A h \in S : Sound(h)
      /\ dragStart # NoGraph => dragStart \in S
  BY <1>1, SeqMonotonic, EmptySeq DEF GraphInv
<1> HIDE DEF S
<1>3. ASSUME UNCHANGED vars PROVE GraphInv'
  BY <1>3 DEF vars, GraphInv
<1>4. CASE DragStart
  BY <1>2, <1>4 DEF DragStart, GraphInv
<1>5. CASE Drag
  BY <1>1, <1>5, DragSound DEF Drag, GraphInv
<1>6. CASE DragStop
  <2>1. Append(history, dragStart) \in Seq(S)
    BY <1>2, <1>6, AppendProperties DEF DragStop
  <2> QED
    BY <1>2, <1>6, <2>1 DEF DragStop, GraphInv
<1>7. CASE Undo
  <2>1. Front(history) \in Seq(S) /\ Last(history) \in S /\ Append(future, graph) \in Seq(S)
    BY <1>2, <1>7, FrontAndLast, AppendProperties DEF Undo
  <2> QED
    BY <1>2, <1>7, <2>1 DEF Undo, MayEdit, GraphInv
<1>8. CASE Redo
  <2>1. Front(future) \in Seq(S) /\ Last(future) \in S /\ Append(history, graph) \in Seq(S)
    BY <1>2, <1>8, FrontAndLast, AppendProperties DEF Redo
  <2> QED
    BY <1>2, <1>8, <2>1 DEF Redo, MayEdit, GraphInv
<1>9. CASE OpenDocument
  <2>1. Sound(graph')
    <3>1. PICK w \in Documents \cup {ToWorkflow(graph)} : graph' = ToCanvas(w)
      BY <1>9 DEF OpenDocument
    <3>2. Sound(ToCanvas(ToWorkflow(graph)))
      BY SavedSound DEF GraphInv
    <3> QED
      BY <3>1, <3>2 DEF SoundDocuments
  <2> QED
    BY <1>2, <1>9, <2>1 DEF OpenDocument, GraphInv
<1> QED
  BY <1>3, <1>4, <1>5, <1>6, <1>7, <1>8, <1>9, EditsSound DEF Next

\* The graph on the screen, the one before a drag and every graph that undo
\* or redo can return to are sound, whatever is edited, renamed, exposed,
\* dragged, undone and saved and opened again (graph.ts and ComposerApp.tsx).
THEOREM GraphInvariance ==
    ASSUME SoundDocuments
    PROVE  Spec => []GraphInv
<1>1. Init => GraphInv
  <2>1. <<>> \in Seq({})
    BY EmptySeq
  <2>2. ASSUME Init PROVE GraphInv
    <3>1. Sound(graph)
      BY <2>2 DEF Init, SoundDocuments
    <3>2. /\ history \in Seq({}) /\ future \in Seq({})
          /\ \A g \in {} : Sound(g)
      BY <2>1, <2>2 DEF Init
    <3>3. dragStart = NoGraph
      BY <2>2 DEF Init
    <3> QED
      BY <3>1, <3>2, <3>3 DEF GraphInv
  <2> QED
    BY <2>2
<1>2. GraphInv /\ [Next]_vars => GraphInv'
  BY GraphStep
<1> QED
  BY <1>1, <1>2, PTL DEF Spec

\* Ids stay unique and every connection valid, though validateConnection is
\* asked by onConnect only: for any registry of operations and any documents
\* that open as such a graph.
THEOREM GraphStaysOK ==
    ASSUME SoundDocuments
    PROVE  Spec => []GraphOK
<1>1. GraphInv => GraphOK
  BY SoundIsValid DEF GraphInv, GraphOK, UniqueIds
<1> QED
  BY <1>1, GraphInvariance, PTL

-----------------------------------------------------------------------------
(* A canvas without issues is saved as what it is, and resolves. *)

\* All boundaries and connections of such a canvas are kept.
LEMMA SavedIsSame ==
    ASSUME NEW g, Sound(g), NoIssues(g), NoFanOut(g)
    PROVE  ToCanvas(ToWorkflow(g)) = g
<1> DEFINE N == OpNodes(g) \cup Used(g, "input") \cup Used(g, "output")
           E == {e \in g.edges : Internal(e)}
                \cup {FromInput(g, n) : n \in Used(g, "input")}
                \cup {ToOutput(g, n) : n \in Used(g, "output")}
<1>1. N \subseteq g.nodes /\ E \subseteq g.edges
  BY ChosenConnections DEF OpNodes, Used, Boundaries
<1>2. \A n \in g.nodes : Kind(n.id) # "operation"
        => n \in Used(g, Kind(n.id)) /\ Kind(n.id) \in {"input", "output"}
  BY DEF Sound, ShapedNode, Used, Boundaries, NoIssues
<1>3. ASSUME NEW n \in g.nodes PROVE n \in N
  BY <1>2 DEF OpNodes
<1>4. ASSUME NEW e \in g.edges PROVE e \in E
  <2>1. CASE Internal(e)
    BY <2>1
  <2>2. CASE Kind(e.from.node) = "input"
    <3>1. PICK n \in Used(g, "input") : n.id = e.from.node
      BY <1>2, <2>2, EndKinds
    <3>2. FromInput(g, n) \in g.edges /\ FromInput(g, n).from.node = e.from.node
      BY <3>1, ChosenConnections DEF EndpointOf
    <3>3. FromInput(g, n) = e
      BY <2>2, <3>2 DEF NoFanOut
    <3> QED
      BY <3>3
  <2>3. CASE Kind(e.to.node) = "output"
    <3>1. PICK n \in Used(g, "output") : n.id = e.to.node
      BY <1>2, <2>3, EndKinds
    <3>2. ToOutput(g, n) \in g.edges /\ ToOutput(g, n).to = EndpointOf(n.id, "it")
      BY <3>1, ChosenConnections
    <3>3. e.to = EndpointOf(e.to.node, "it")
      <4>1. /\ e = [from |-> EndpointOf(e.from.node, e.from.port),
                    to |-> EndpointOf(e.to.node, e.to.port)]
            /\ e.to.port = "it"
        BY <2>3 DEF Sound, ShapedEdge
      <4> QED
        BY <4>1
    <3>4. ToOutput(g, n) = e
      BY <3>1, <3>2, <3>3 DEF Sound, UniqueTargets
    <3> QED
      BY <3>4
  <2> QED
    BY <2>1, <2>2, <2>3, EndKinds DEF Internal
<1> HIDE DEF N, E
<1>5. N = g.nodes /\ E = g.edges
  BY <1>1, <1>3, <1>4
<1>6. SavedCanvas(g) = [nodes |-> N, edges |-> E]
  BY DEF SavedCanvas, N, E
<1>7. g = [nodes |-> g.nodes, edges |-> g.edges]
  BY DEF Sound
<1> QED
  BY <1>5, <1>6, <1>7, SavedAndOpened

\* Of some nodes of a graph without cycles one has no predecessor among them:
\* one of the least sets that no connection enters, else it were not least.
LEMMA AcyclicHasSource ==
    ASSUME NEW es, Acyclic(es), \A e \in es : Internal(e),
           NEW S, IsFiniteSet(S), S # {}
    PROVE  \E id \in S : \A e \in es : e.to.node = id => e.from.node \notin S
<1> SUFFICES ASSUME \A id \in S : \E e \in es : e.to.node = id /\ e.from.node \in S
             PROVE  FALSE
  OBVIOUS
<1> DEFINE Entered == {X \in SUBSET S : X # {} /\ \E U : X = S \ U /\ Forward(U, es)}
<1>1. S \in Entered
  <2>1. S = S \ {} /\ Forward({}, es)
    BY DEF Forward
  <2> QED
    BY <2>1
<1>2. IsWellFoundedOn(StrictSubsetOrdering(S), SUBSET S)
  BY FS_StrictSubsetOrderingWellFounded, FS_FiniteSubsetsOfFinite
<1>3. Entered \subseteq SUBSET S /\ Entered # {}
  BY <1>1
<1>4. PICK X \in Entered : \A Y \in Entered : <<Y, X>> \notin StrictSubsetOrdering(S)
  <2> HIDE DEF Entered
  <2> QED
    BY <1>2, <1>3, WFMin
<1>5. PICK U : X = S \ U /\ Forward(U, es)
  OBVIOUS
<1>6. PICK x \in X : TRUE
  OBVIOUS
<1>7. PICK e \in es : e.to.node = x /\ e.from.node \in S
  BY <1>3
<1>8. e.from.node \in X
  BY <1>5, <1>6, <1>7 DEF Forward
<1>9. PICK V : x \in V /\ e.from.node \notin V /\ Forward(V, es)
  BY <1>7 DEF Acyclic, Separated
<1> DEFINE Y == S \ (U \cup V)
<1>10. Forward(U \cup V, es)
  BY <1>5, <1>9 DEF Forward
<1>11. Y \in SUBSET S /\ e.from.node \in Y
  BY <1>5, <1>8, <1>9
<1>12. Y \in Entered
  BY <1>10, <1>11
<1>13. Y \subseteq X /\ Y # X
  BY <1>5, <1>6, <1>9
<1>14. <<Y, X>> \in StrictSubsetOrdering(S)
  <2> HIDE DEF Y
  <2> QED
    BY <1>11, <1>13 DEF StrictSubsetOrdering
<1> HIDE DEF Y, Entered
<1> QED
  BY <1>4, <1>12, <1>14

\* A set of at most one element.
LEMMA AtMostOne ==
    ASSUME NEW S, \A x, y \in S : x = y
    PROVE  Cardinality(S) \in Nat /\ (S # {} => Cardinality(S) > 0)
<1>1. CASE S = {}
  BY <1>1, FS_EmptySet
<1>2. CASE S # {}
  <2>1. PICK x \in S : S = {x}
    BY <1>2
  <2>2. Cardinality(S) = 1
    BY <2>1, FS_Singleton
  <2> QED
    BY <2>2
<1> QED
  BY <1>1, <1>2

\* The types of the ports that a connection joins.
LEMMA JoinedTypes ==
    ASSUME NEW s, NEW p, NEW t, NEW q, Joins(s, p, t, q)
    PROVE  /\ Kind(s.id) = "operation" => p \in DOMAIN Outputs[s.op]
           /\ Kind(t.id) = "operation" => q \in DOMAIN Inputs[t.op]
           /\ (IF Kind(s.id) = "operation" THEN Outputs[s.op][p] ELSE s.type)
                = (IF Kind(t.id) = "operation" THEN Inputs[t.op][q].type ELSE t.type)
<1>1. PICK x \in SourceType(s, p) : x \in TargetType(t, q)
  BY DEF Joins
<1>2. /\ Kind(s.id) = "operation" => p \in DOMAIN Outputs[s.op] /\ x = Outputs[s.op][p]
      /\ Kind(s.id) # "operation" => x = s.type
  BY DEF SourceType
<1>3. /\ Kind(t.id) = "operation" => q \in DOMAIN Inputs[t.op] /\ x = Inputs[t.op][q].type
      /\ Kind(t.id) # "operation" => x = t.type
  BY <1>1 DEF TargetType
<1> QED
  BY <1>2, <1>3

\* The operation of an id among the operations.
OpOfId(g, id) == (CHOOSE n \in OpNodes(g) : n.id = id).op

LEMMA OpOfNode ==
    ASSUME NEW g, Sound(g), NEW n \in OpNodes(g)
    PROVE  OpOfId(g, n.id) = n.op
<1>1. \A m \in OpNodes(g) : m.id = n.id => m = n
  BY DEF Sound, UniqueIds, OpNodes
<1>2. (CHOOSE m \in OpNodes(g) : m.id = n.id) = n
  BY <1>1
<1> QED
  BY <1>2 DEF OpOfId

\* What the server asks of a connection between operations.
LEMMA InternalResolves ==
    ASSUME NEW g, Sound(g), NEW e \in g.edges, Internal(e)
    PROVE  /\ {e.from.node, e.to.node} \subseteq {n.id : n \in OpNodes(g)}
           /\ e.from.node # e.to.node
           /\ e.from.port \in DOMAIN Outputs[OpOfId(g, e.from.node)]
           /\ e.to.port \in DOMAIN Inputs[OpOfId(g, e.to.node)]
           /\ Outputs[OpOfId(g, e.from.node)][e.from.port]
                = Inputs[OpOfId(g, e.to.node)][e.to.port].type
<1>1. PICK s, t \in g.nodes : /\ s.id = e.from.node /\ t.id = e.to.node
                              /\ Joins(s, e.from.port, t, e.to.port)
  BY DEF Sound, Connects
<1>2. s \in OpNodes(g) /\ t \in OpNodes(g) /\ s.id # t.id
      /\ Kind(s.id) = "operation" /\ Kind(t.id) = "operation"
  BY <1>1 DEF Internal, OpNodes, Joins
<1>3. OpOfId(g, e.from.node) = s.op /\ OpOfId(g, e.to.node) = t.op
  BY <1>1, <1>2, OpOfNode
<1>4. /\ e.from.port \in DOMAIN Outputs[s.op] /\ e.to.port \in DOMAIN Inputs[t.op]
      /\ Outputs[s.op][e.from.port] = Inputs[t.op][e.to.port].type
  BY <1>1, <1>2, JoinedTypes
<1>5. {s.id, t.id} \subseteq {n.id : n \in OpNodes(g)}
  BY <1>2
<1> QED
  BY <1>1, <1>2, <1>3, <1>4, <1>5

\* What it asks of a workflow input and of a workflow output.
LEMMA InputResolves ==
    ASSUME NEW g, Sound(g), NEW n \in Used(g, "input")
    PROVE  LET to == FromInput(g, n).to IN
           /\ to.node \in {m.id : m \in OpNodes(g)}
           /\ to.port \in DOMAIN Inputs[OpOfId(g, to.node)]
           /\ Inputs[OpOfId(g, to.node)][to.port].type = n.type
<1> DEFINE e == FromInput(g, n)
<1>1. e \in g.edges /\ e.from.node = n.id /\ n \in g.nodes /\ Kind(n.id) = "input"
  BY ChosenConnections DEF EndpointOf, Used, Boundaries
<1> HIDE DEF e
<1>2. PICK s, t \in g.nodes : /\ s.id = e.from.node /\ t.id = e.to.node
                              /\ Joins(s, e.from.port, t, e.to.port)
  BY <1>1 DEF Sound, Connects
<1>3. s = n /\ t \in OpNodes(g) /\ Kind(t.id) = "operation"
  BY <1>1, <1>2 DEF Sound, UniqueIds, Joins, OpNodes
<1>4. OpOfId(g, e.to.node) = t.op
  BY <1>2, <1>3, OpOfNode
<1>5. e.to.port \in DOMAIN Inputs[t.op] /\ n.type = Inputs[t.op][e.to.port].type
  BY <1>1, <1>2, <1>3, JoinedTypes
<1> QED
  BY <1>2, <1>3, <1>4, <1>5 DEF e

LEMMA OutputResolves ==
    ASSUME NEW g, Sound(g), NEW n \in Used(g, "output")
    PROVE  LET from == ToOutput(g, n).from IN
           /\ from.node \in {m.id : m \in OpNodes(g)}
           /\ from.port \in DOMAIN Outputs[OpOfId(g, from.node)]
           /\ Outputs[OpOfId(g, from.node)][from.port] = n.type
<1> DEFINE e == ToOutput(g, n)
<1>1. e \in g.edges /\ e.to.node = n.id /\ n \in g.nodes /\ Kind(n.id) = "output"
  BY ChosenConnections DEF EndpointOf, Used, Boundaries
<1> HIDE DEF e
<1>2. PICK s, t \in g.nodes : /\ s.id = e.from.node /\ t.id = e.to.node
                              /\ Joins(s, e.from.port, t, e.to.port)
  BY <1>1 DEF Sound, Connects
<1>3. t = n /\ s \in OpNodes(g) /\ Kind(s.id) = "operation"
  BY <1>1, <1>2 DEF Sound, UniqueIds, Joins, OpNodes
<1>4. OpOfId(g, e.from.node) = s.op
  BY <1>2, <1>3, OpOfNode
<1>5. e.from.port \in DOMAIN Outputs[s.op] /\ Outputs[s.op][e.from.port] = n.type
  BY <1>1, <1>2, <1>3, JoinedTypes
<1> QED
  BY <1>2, <1>3, <1>4, <1>5 DEF e

\* A port that is connected on the canvas is connected in the workflow.
LEMMA IncomingKept ==
    ASSUME NEW g, Sound(g), NoIssues(g), NoFanOut(g), NEW e \in g.edges,
           Kind(e.to.node) = "operation"
    PROVE  Incoming(ToWorkflow(g), e.to) > 0
<1> DEFINE w == ToWorkflow(g)
           A == {o \in w.edges : o.to = e.to}
           B == {i \in w.inputs : i.to = e.to}
<1>1. /\ w.edges = {o \in g.edges : Internal(o)}
      /\ w.inputs = {[name |-> n, to |-> FromInput(g, n).to] : n \in Used(g, "input")}
  BY WorkflowParts
<1> HIDE DEF w
<1>2. \A o \in g.edges : o.to = e.to => o = e
  BY DEF Sound, UniqueTargets
<1>3. \A x, y \in A : x = y
  BY <1>1, <1>2
<1>4. ASSUME NEW i \in B
      PROVE  \E n \in Used(g, "input") : i.name = n /\ i = [name |-> n, to |-> e.to]
                                         /\ n.id = e.from.node
  <2>1. PICK n \in Used(g, "input") : i = [name |-> n, to |-> FromInput(g, n).to]
    BY <1>1
  <2>2. FromInput(g, n).to = e.to /\ i.name = n
    BY <2>1
  <2>3. FromInput(g, n) = e /\ FromInput(g, n).from.node = n.id
    BY <1>2, <2>2, ChosenConnections DEF EndpointOf
  <2> QED
    BY <2>1, <2>2, <2>3
<1>5. \A m, n \in Used(g, "input") : m.id = n.id => m = n
  BY DEF Used, Boundaries, Sound, UniqueIds
<1>6. \A x, y \in B : x = y
  BY <1>4, <1>5
<1>7. A # {} \/ B # {}
  <2>1. CASE Internal(e)
    BY <1>1, <2>1
  <2>2. CASE ~Internal(e)
    <3>1. Kind(e.from.node) = "input"
      BY <2>2, EndKinds DEF Internal
    <3>2. PICK n \in g.nodes : n.id = e.from.node
      BY EndKinds
    <3>3. n \in Used(g, "input")
      BY <3>1, <3>2 DEF Used, Boundaries
    <3>4. FromInput(g, n) = e
      <4>1. FromInput(g, n) \in g.edges /\ FromInput(g, n).from.node = e.from.node
        BY <3>2, <3>3, ChosenConnections DEF EndpointOf
      <4> QED
        BY <3>1, <4>1 DEF NoFanOut
    <3> DEFINE i == [name |-> n, to |-> FromInput(g, n).to]
    <3>5. i \in w.inputs /\ i.to = e.to
      BY <1>1, <3>3, <3>4
    <3> QED
      BY <3>5
  <2> QED
    BY <2>1, <2>2
<1>8. Incoming(w, e.to) = Cardinality(A) + Cardinality(B)
  BY DEF Incoming
<1> HIDE DEF A, B
<1>9. /\ Cardinality(A) \in Nat /\ (A # {} => Cardinality(A) > 0)
      /\ Cardinality(B) \in Nat /\ (B # {} => Cardinality(B) > 0)
  BY <1>3, <1>6, AtMostOne
<1>10. Incoming(w, e.to) > 0
  BY <1>7, <1>8, <1>9
<1> QED
  BY <1>10 DEF w

LEMMA SavedResolves ==
    ASSUME NEW g, Sound(g), NoIssues(g), NoFanOut(g)
    PROVE  Resolves(ToWorkflow(g))
<1> DEFINE w == ToWorkflow(g)
           ids == {n.id : n \in w.nodes}
<1>1. /\ w.nodes = OpNodes(g) /\ w.edges = {e \in g.edges : Internal(e)}
      /\ w.inputs = {[name |-> n, to |-> FromInput(g, n).to] : n \in Used(g, "input")}
      /\ w.outputs = {[name |-> n, from |-> ToOutput(g, n).from] :
                        n \in Used(g, "output")}
  BY WorkflowParts
<1> HIDE DEF w
<1>2. \A id : (CHOOSE n \in w.nodes : n.id = id).op = OpOfId(g, id)
  BY <1>1 DEF OpOfId
<1>3. /\ IsFiniteSet(w.nodes) /\ IsFiniteSet(ids)
      /\ Cardinality(ids) = Cardinality(w.nodes)
  <2>1. w.nodes \in SUBSET g.nodes /\ IsFiniteSet(g.nodes)
    BY <1>1 DEF OpNodes, Sound
  <2>2. IsFiniteSet(w.nodes)
    BY <2>1, FS_Subset
  <2>3. \A m, n \in w.nodes : m.id = n.id => m = n
    BY <2>1 DEF Sound, UniqueIds
  <2>4. [n \in w.nodes |-> n.id] \in Bijection(w.nodes, ids)
    BY <2>3 DEF Bijection, Injection, Surjection, IsInjective
  <2>5. ExistsBijection(w.nodes, ids)
    BY <2>4 DEF ExistsBijection
  <2> HIDE DEF ids
  <2> QED
    BY <2>2, <2>5, FS_Bijection
<1>4. w.nodes # {}
  BY <1>1 DEF NoIssues
<1>5. ASSUME NEW e \in w.edges
      PROVE  /\ {e.from.node, e.to.node} \subseteq ids /\ e.from.node # e.to.node
             /\ e.from.port \in DOMAIN Outputs[OpOfId(g, e.from.node)]
             /\ e.to.port \in DOMAIN Inputs[OpOfId(g, e.to.node)]
             /\ Outputs[OpOfId(g, e.from.node)][e.from.port]
                  = Inputs[OpOfId(g, e.to.node)][e.to.port].type
             /\ Cardinality({o \in w.edges : o.to = e.to}) = 1
  <2>1. e \in g.edges /\ Internal(e)
    BY <1>1
  <2>2. {o \in w.edges : o.to = e.to} = {e}
    BY <1>1, <2>1 DEF Sound, UniqueTargets
  <2>3. Cardinality({o \in w.edges : o.to = e.to}) = 1
    BY <2>2, FS_Singleton
  <2> QED
    BY <1>1, <2>1, <2>3, InternalResolves
<1>6. ASSUME NEW S \in SUBSET ids, S # {}
      PROVE  \E id \in S : \A e \in w.edges : e.to.node = id => e.from.node \notin S
  <2>1. IsFiniteSet(S)
    <3> HIDE DEF ids
    <3> QED
      BY <1>3, FS_Subset
  <2>2. Acyclic(w.edges) /\ \A e \in w.edges : Internal(e)
    BY <1>1 DEF Sound, Acyclic, Separated, Forward
  <2> QED
    BY <1>6, <2>1, <2>2, AcyclicHasSource
<1>7. ASSUME NEW i \in w.inputs
      PROVE  /\ i.to.node \in ids /\ i.to.port \in DOMAIN Inputs[OpOfId(g, i.to.node)]
             /\ Inputs[OpOfId(g, i.to.node)][i.to.port].type = i.name.type
  <2>1. PICK n \in Used(g, "input") : i = [name |-> n, to |-> FromInput(g, n).to]
    BY <1>1
  <2>2. i.name = n /\ i.to = FromInput(g, n).to
    BY <2>1
  <2> QED
    BY <1>1, <2>2, InputResolves
<1>8. ASSUME NEW o \in w.outputs
      PROVE  /\ o.from.node \in ids
             /\ o.from.port \in DOMAIN Outputs[OpOfId(g, o.from.node)]
             /\ Outputs[OpOfId(g, o.from.node)][o.from.port] = o.name.type
  <2>1. PICK n \in Used(g, "output") : o = [name |-> n, from |-> ToOutput(g, n).from]
    BY <1>1
  <2>2. o.name = n /\ o.from = ToOutput(g, n).from
    BY <2>1
  <2> QED
    BY <1>1, <2>2, OutputResolves
<1>9. ASSUME NEW n \in w.nodes, NEW p \in DOMAIN Inputs[n.op], Inputs[n.op][p].required
      PROVE  Incoming(w, EndpointOf(n.id, p)) > 0
  <2>1. n \in OpNodes(g) /\ Kind(n.id) = "operation"
    BY <1>1 DEF OpNodes
  <2>2. PICK e \in g.edges : e.to = EndpointOf(n.id, p)
    BY <1>9, <2>1 DEF NoIssues
  <2>3. Kind(e.to.node) = "operation"
    BY <2>1, <2>2 DEF EndpointOf
  <2> QED
    BY <2>2, <2>3, IncomingKept DEF w
<1> DEFINE OpOf(id) == (CHOOSE n \in w.nodes : n.id = id).op
<1> HIDE DEF ids, OpOf
<1>10. \A id : OpOf(id) = OpOfId(g, id)
  BY <1>2 DEF OpOf
<1>11. \A e \in w.edges :
         /\ {e.from.node, e.to.node} \subseteq ids /\ e.from.node # e.to.node
         /\ e.from.port \in DOMAIN Outputs[OpOf(e.from.node)]
         /\ e.to.port \in DOMAIN Inputs[OpOf(e.to.node)]
         /\ Outputs[OpOf(e.from.node)][e.from.port]
              = Inputs[OpOf(e.to.node)][e.to.port].type
         /\ Cardinality({o \in w.edges : o.to = e.to}) = 1
  BY <1>5, <1>10
<1>12. \A i \in w.inputs :
         /\ i.to.node \in ids /\ i.to.port \in DOMAIN Inputs[OpOf(i.to.node)]
         /\ Inputs[OpOf(i.to.node)][i.to.port].type = i.name.type
  BY <1>7, <1>10
<1>13. \A o \in w.outputs :
         /\ o.from.node \in ids /\ o.from.port \in DOMAIN Outputs[OpOf(o.from.node)]
         /\ Outputs[OpOf(o.from.node)][o.from.port] = o.name.type
  BY <1>8, <1>10
<1>14. \A S \in SUBSET ids : S # {} =>
         \E id \in S : \A e \in w.edges : e.to.node = id => e.from.node \notin S
  BY <1>6
<1>15. \A n \in w.nodes : \A p \in DOMAIN Inputs[n.op] :
         Inputs[n.op][p].required => Incoming(w, EndpointOf(n.id, p)) > 0
  BY <1>9
<1>16. w.nodes # {} /\ Cardinality(ids) = Cardinality(w.nodes)
  BY <1>3, <1>4
<1>17. Resolves(w)
  BY <1>11, <1>12, <1>13, <1>14, <1>15, <1>16, Zenon DEF Resolves, ids, OpOf
<1> QED
  BY <1>17 DEF w

\* A canvas without issues, of which no workflow input feeds two ports, is
\* saved by canvasToWorkflow as a workflow that resolve_workflow accepts
\* (workflow.py) and that workflowToCanvas opens as the same canvas.
THEOREM CanvasStaysSaved ==
    ASSUME SoundDocuments
    PROVE  Spec => []CanvasIsSaved
<1>1. GraphInv => CanvasIsSaved
  BY SavedIsSame, SavedResolves DEF GraphInv, CanvasIsSaved
<1> QED
  BY <1>1, GraphInvariance, PTL
=============================================================================
