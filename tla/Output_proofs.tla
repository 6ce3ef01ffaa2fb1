----------------------------- MODULE Output_proofs -----------------------------
(***************************************************************************)
(* TLAPS proofs about Output.  A pass over a text is a recursive function  *)
(* of a position, so what it does is proved by induction from the end of   *)
(* the text.                                                               *)
(***************************************************************************)
EXTENDS Output, SequenceTheorems, WellFoundedInduction, TLAPS

Text == Seq(Byte)

-------------------------------------------------------------------------------
(* Induction, smallest and largest elements.                               *)

LEMMA Smallest ==
  ASSUME NEW S, S \subseteq Nat, S # {}
  PROVE  Min(S) \in S /\ \A x \in S : Min(S) <= x
<1> DEFINE R == OpToRel(<, Nat)
<1>1. IsWellFoundedOn(R, Nat)
  BY NatLessThanWellFounded
<1>2. PICK least \in S : \A x \in S : <<x, least>> \notin R
  <2> HIDE DEF R
  <2>1. QED
    BY <1>1, WFMin
<1>3. ASSUME NEW x \in S PROVE least <= x
  <2>1. x \in Nat /\ least \in Nat
    OBVIOUS
  <2>2. ~(x < least)
    BY <1>2, <2>1 DEF OpToRel
  <2>3. QED
    BY <2>1, <2>2
<1>4. QED
  BY <1>3 DEF Min

LEMMA Induction ==
  ASSUME NEW T, 0 \in T, \A n \in Nat : n \in T => n + 1 \in T
  PROVE  Nat \subseteq T
<1> DEFINE Out == Nat \ T
<1>1. SUFFICES ASSUME Out # {} PROVE FALSE
  OBVIOUS
<1>2. PICK n \in Out : \A x \in Out : n <= x
  <2> HIDE DEF Out
  <2>1. Out \subseteq Nat
    BY DEF Out
  <2>2. QED
    BY <1>1, <2>1, Smallest
<1>3. n \in Nat /\ n # 0 /\ n - 1 \in Nat
  OBVIOUS
<1>4. n - 1 \in T
  BY <1>2, <1>3
<1>5. QED
  BY <1>3, <1>4

(* From the end of a text back to its beginning.                           *)
LEMMA Backwards ==
  ASSUME NEW n \in Nat, NEW T, n + 1 \in T,
         \A i \in 1..n : (\A j \in (i + 1)..(n + 1) : j \in T) => i \in T
  PROVE  1..(n + 1) \subseteq T
<1> DEFINE U == {m \in Nat : m <= n => \A j \in (n + 1 - m)..(n + 1) : j \in T}
<1>1. 0 \in U
  OBVIOUS
<1>2. ASSUME NEW m \in Nat, m \in U PROVE m + 1 \in U
  <2> SUFFICES ASSUME m + 1 <= n PROVE \A j \in (n - m)..(n + 1) : j \in T
    OBVIOUS
  <2>1. \A j \in (n - m + 1)..(n + 1) : j \in T
    BY <1>2
  <2>2. n - m \in T
    BY <2>1
  <2>3. QED
    BY <2>1, <2>2
<1>3. n \in U
  <2> HIDE DEF U
  <2>1. QED
    BY <1>1, <1>2, Induction
<1>4. QED
  BY <1>3

(* Some value of a sequence of numbers is the largest.                     *)
LEMMA Largest ==
  ASSUME NEW S, S \subseteq Nat, S # {}, NEW b \in Nat, \A x \in S : x <= b
  PROVE  Max(S) \in S /\ \A x \in S : x <= Max(S)
<1> DEFINE T == {b - x : x \in S}
<1>1. T \subseteq Nat /\ T # {}
  <2>1. \A x \in S : x \in Nat /\ x <= b
    OBVIOUS
  <2>2. \A x \in S : b - x \in Nat
    BY <2>1
  <2>3. T # {}
    OBVIOUS
  <2>4. QED
    BY <2>2, <2>3
<1>2. PICK t \in T : \A u \in T : t <= u
  BY <1>1, Smallest
<1>3. PICK top \in S : t = b - top
  OBVIOUS
<1>4. ASSUME NEW x \in S PROVE x <= top
  <2>1. t <= b - x
    BY <1>2
  <2>2. QED
    BY <1>3, <2>1
<1>5. QED
  BY <1>4 DEF Max

LEMMA Bounded ==
  ASSUME NEW f, NEW n \in Nat, \A k \in 1..n : f[k] \in Nat
  PROVE  \E b \in Nat : \A k \in 1..n : f[k] <= b
<1> DEFINE T == {m \in Nat : m <= n => \E b \in Nat : \A k \in 1..m : f[k] <= b}
<1>1. 0 \in T
  OBVIOUS
<1>2. ASSUME NEW m \in Nat, m \in T PROVE m + 1 \in T
  <2> SUFFICES ASSUME m + 1 <= n PROVE \E b \in Nat : \A k \in 1..(m + 1) : f[k] <= b
    OBVIOUS
  <2>1. PICK b \in Nat : \A k \in 1..m : f[k] <= b
    BY <1>2
  <2>2. f[m + 1] \in Nat /\ b + f[m + 1] \in Nat
    OBVIOUS
  <2>3. \A k \in 1..(m + 1) : f[k] <= b + f[m + 1]
    BY <2>1, <2>2
  <2>4. QED
    BY <2>2, <2>3
<1>3. n \in T
  <2> HIDE DEF T
  <2>1. QED
    BY <1>1, <1>2, Induction
<1>4. QED
  BY <1>3

-------------------------------------------------------------------------------
(* The forms of a secret are texts.                                        *)

LEMMA LongerStill ==
  ASSUME NEW a \in Text, a # <<>>, NEW b \in Text
  PROVE  a \o b \in Text /\ a \o b # <<>>
BY ConcatProperties, ConcatEqualIffEmpty DEF Text

(* Texts that are not empty, put together, are one that is not empty.      *)
LEMMA FlattenTyped ==
  ASSUME NEW texts \in Seq(Text \ {<<>>}), texts # <<>>
  PROVE  FlattenSeq(texts) \in Text \ {<<>>}
<1> DEFINE Body(f, n) == [i \in 1..n |-> IF i = 1 THEN texts[i] ELSE f[i - 1] \o texts[i]]
           T == {n \in Nat : \E f : f = Body(f, n)}
<1>1. Nat \subseteq T
  <2>1. 0 \in T
    <3>1. Body(<<>>, 0) = <<>>
      OBVIOUS
    <3>2. QED
      BY <3>1
  <2>2. ASSUME NEW n \in Nat, n \in T PROVE n + 1 \in T
    <3>1. PICK f : f = Body(f, n)
      BY <2>2
    <3> DEFINE last == IF n + 1 = 1 THEN texts[n + 1] ELSE f[n] \o texts[n + 1]
               longer == [i \in 1..(n + 1) |-> IF i = n + 1 THEN last ELSE f[i]]
    <3>2. ASSUME NEW i \in 1..(n + 1) PROVE longer[i] = Body(longer, n + 1)[i]
      <4>1. CASE i = n + 1
        <5>1. n + 1 # 1 => n \in 1..(n + 1) /\ longer[n] = f[n]
          OBVIOUS
        <5>2. QED
          BY <4>1, <5>1
      <4>2. CASE i \in 1..n
        <5>1. longer[i] = f[i] /\ f[i] = Body(f, n)[i]
          <6>1. longer[i] = f[i]
            BY <4>2
          <6> HIDE DEF Body, longer
          <6>2. QED
            BY <3>1, <6>1
        <5>2. i # 1 => longer[i - 1] = f[i - 1]
          BY <4>2
        <5>3. QED
          BY <4>2, <5>1, <5>2
      <4>3. QED
        BY <4>1, <4>2
    <3>3. longer = Body(longer, n + 1)
      <4> HIDE DEF last
      <4>1. QED
        BY <3>2
    <3>4. QED
      <4> HIDE DEF Body, longer
      <4>1. QED
        BY <3>3
  <2>3. QED
    <3> HIDE DEF T
    <3>1. QED
      BY <2>1, <2>2, Induction
<1>2. Len(texts) \in Nat \ {0}
  OBVIOUS
<1>3. PICK f : f = Body(f, Len(texts))
  <2> HIDE DEF Body
  <2>1. QED
    BY <1>1, <1>2
<1> DEFINE flat == CHOOSE g : g = Body(g, Len(texts))
<1>4. flat = Body(flat, Len(texts))
  <2> HIDE DEF Body
  <2>1. QED
    BY <1>3
<1>5. FlattenSeq(texts) = flat[Len(texts)]
  BY <1>2 DEF FlattenSeq
<1> HIDE DEF flat
<1> DEFINE U == {n \in Nat : n + 1 <= Len(texts) => flat[n + 1] \in Text \ {<<>>}}
<1>6. 0 \in U
  <2>1. flat[1] = texts[1]
    BY <1>2, <1>4
  <2>2. QED
    BY <1>2, <2>1
<1>7. ASSUME NEW n \in Nat, n \in U PROVE n + 1 \in U
  <2> SUFFICES ASSUME n + 2 <= Len(texts) PROVE flat[n + 2] \in Text \ {<<>>}
    OBVIOUS
  <2>1. flat[n + 2] = flat[n + 1] \o texts[n + 2]
    <3>1. n + 2 \in 1..Len(texts) /\ n + 2 # 1 /\ (n + 2) - 1 = n + 1
      BY <1>2
    <3>2. QED
      BY <1>4, <3>1
  <2>2. flat[n + 1] \in Text \ {<<>>}
    BY <1>2, <1>7
  <2>3. texts[n + 2] \in Text
    BY <1>2
  <2>4. QED
    <3> HIDE DEF U, Body
    <3>1. QED
      BY <2>1, <2>2, <2>3, LongerStill
<1>8. Nat \subseteq U
  <2> HIDE DEF U
  <2>1. QED
    BY <1>6, <1>7, Induction
<1>9. QED
  <2>1. Len(texts) - 1 \in U /\ (Len(texts) - 1) + 1 = Len(texts)
    BY <1>2, <1>8
  <2>2. QED
    BY <1>5, <2>1

LEMMA EncodeTyped ==
  ASSUME NEW s \in Secrets, NEW k \in DOMAIN Codes
  PROVE  Encode(Codes[k], s) \in Text \ {<<>>}
<1> DEFINE code == Codes[k]
           pieces == [i \in DOMAIN s |-> IF s[i] \in DOMAIN code THEN code[s[i]] ELSE <<s[i]>>]
<1>1. s \in Text /\ s # <<>> /\ DOMAIN s = 1..Len(s) /\ Len(s) \in Nat
  BY OutputAssumption DEF Text
<1>2. code \in ToSet(Codes)
  BY DEF ToSet
<1>3. ASSUME NEW i \in DOMAIN s PROVE pieces[i] \in Text \ {<<>>}
  <2>1. CASE s[i] \in DOMAIN code
    BY <1>2, <2>1, OutputAssumption DEF Text
  <2>2. CASE s[i] \notin DOMAIN code
    <3>1. s[i] \in Byte
      BY <1>1 DEF Text
    <3>2. QED
      BY <2>2, <3>1 DEF Text
  <2>3. QED
    BY <2>1, <2>2
<1>4. pieces \in Seq(Text \ {<<>>}) /\ pieces # <<>>
  <2>1. pieces = [i \in 1..Len(s) |-> pieces[i]]
    BY <1>1
  <2>2. \A i \in 1..Len(s) : pieces[i] \in Text \ {<<>>}
    BY <1>1, <1>3
  <2> HIDE DEF pieces
  <2>3. pieces \in Seq(Text \ {<<>>})
    BY <1>1, <2>1, <2>2, IsASeq
  <2>4. Len(pieces) = Len(s)
    BY <1>1, <2>1
  <2>5. QED
    BY <1>1, <2>3, <2>4, EmptySeq
<1>5. QED
  <2>1. Encode(Codes[k], s) = FlattenSeq(pieces)
    BY DEF Encode
  <2> HIDE DEF pieces
  <2>2. QED
    BY <1>4, <2>1, FlattenTyped

LEMMA FormsTyped ==
  ASSUME NEW s \in Secrets
  PROVE  /\ Forms[s] \in Seq(Text) /\ DOMAIN Forms[s] = 1..Len(Forms[s])
         /\ Len(Forms[s]) \in Nat /\ 1 \in DOMAIN Forms[s]
         /\ \A k \in DOMAIN Forms[s] :
              Forms[s][k] \in Text /\ Len(Forms[s][k]) \in Nat /\ Len(Forms[s][k]) >= 1
<1> DEFINE coded == [k \in DOMAIN Codes |-> Encode(Codes[k], s)]
           Form == Text \ {<<>>}
<1>1. DOMAIN Codes = 1..Len(Codes) /\ Len(Codes) \in Nat
  BY OutputAssumption, LenProperties
<1>2. coded \in Seq(Form)
  <2>1. \A k \in 1..Len(Codes) : coded[k] \in Form
    BY <1>1, EncodeTyped
  <2>2. coded = [k \in 1..Len(Codes) |-> coded[k]]
    BY <1>1
  <2> HIDE DEF coded, Form
  <2>3. QED
    BY <1>1, <2>1, <2>2, IsASeq
<1>3. <<s>> \in Seq(Form) /\ Len(<<s>>) = 1
  BY OutputAssumption DEF Text
<1>4. Forms[s] = <<s>> \o coded
  BY DEF Forms
<1>5. Forms[s] \in Seq(Form) /\ Len(Forms[s]) >= 1
  <2> HIDE DEF coded, Form
  <2>1. Len(coded) \in Nat
    BY <1>2, LenProperties
  <2>2. QED
    BY <1>2, <1>3, <1>4, <2>1, ConcatProperties
<1>6. DOMAIN Forms[s] = 1..Len(Forms[s]) /\ Len(Forms[s]) \in Nat
  BY <1>5, LenProperties
<1>7. \A k \in DOMAIN Forms[s] : Forms[s][k] \in Form
  BY <1>5, <1>6, ElementOfSeq
<1>8. \A w \in Form : w \in Text /\ Len(w) \in Nat /\ Len(w) >= 1
  BY LenProperties, EmptySeq DEF Text
<1>9. Forms[s] \in Seq(Text)
  BY <1>5, <1>6, <1>7, <1>8, IsASeq, SeqMonotonic
<1>10. QED
  BY <1>5, <1>6, <1>7, <1>8, <1>9

-------------------------------------------------------------------------------
(* Words in texts, and one pass.                                           *)

LEMMA AtPointwise ==
  ASSUME NEW text \in Text, NEW word \in Text, NEW i \in Nat \ {0}
  PROVE  At(text, i, word) <=>
           /\ i + Len(word) - 1 <= Len(text)
           /\ \A p \in 1..Len(word) : text[i + p - 1] = word[p]
<1> DEFINE last == i + Len(word) - 1
<1>1. Len(word) \in Nat /\ Len(text) \in Nat /\ last \in Int
  BY LenProperties DEF Text
<1>2. ASSUME last <= Len(text)
      PROVE  SubSeq(text, i, last) = word <=> \A p \in 1..Len(word) : text[i + p - 1] = word[p]
  <2>1. \A q \in i..last : text[q] \in Byte
    BY <1>1, <1>2, ElementOfSeq DEF Text
  <2>2. /\ SubSeq(text, i, last) \in Text
        /\ Len(SubSeq(text, i, last)) = Len(word)
        /\ \A p \in 1..Len(word) : SubSeq(text, i, last)[p] = text[i + p - 1]
    <3>1. last - i + 1 = Len(word)
      BY <1>1
    <3>2. i <= last \/ Len(word) = 0
      BY <1>1
    <3> HIDE DEF last
    <3>3. QED
      BY <1>1, <2>1, <3>1, <3>2, SubSeqProperties DEF Text
  <2>3. (\A p \in 1..Len(word) : SubSeq(text, i, last)[p] = word[p]) => SubSeq(text, i, last) = word
    BY <2>2, SeqEqual DEF Text
  <2>4. QED
    BY <2>2, <2>3
<1>3. QED
  BY <1>2 DEF At

(* The forms at a position of the text, and the first of them.             *)
LEMMA FirstMatch ==
  ASSUME NEW text \in Text, NEW s \in Secrets, NEW i \in 1..Len(text), Matching(text, i, s) # {}
  PROVE  LET form == Forms[s][Min(Matching(text, i, s))]
         IN /\ Min(Matching(text, i, s)) \in DOMAIN Forms[s] /\ form \in Text
            /\ At(text, i, form) /\ Len(form) \in Nat /\ Len(form) >= 1
            /\ i + Len(form) \in (i + 1)..(Len(text) + 1)
<1>1. Matching(text, i, s) \subseteq DOMAIN Forms[s] /\ DOMAIN Forms[s] \subseteq Nat
  BY FormsTyped DEF Matching
<1>2. Min(Matching(text, i, s)) \in Matching(text, i, s)
  BY <1>1, Smallest
<1> DEFINE form == Forms[s][Min(Matching(text, i, s))]
<1>3. Min(Matching(text, i, s)) \in DOMAIN Forms[s] /\ At(text, i, form)
  BY <1>2 DEF Matching
<1>4. form \in Text /\ Len(form) \in Nat /\ Len(form) >= 1
  BY <1>3, FormsTyped
<1>5. i + Len(form) - 1 <= Len(text) /\ Len(text) \in Nat
  BY <1>3, LenProperties DEF At, Text
<1>6. QED
  BY <1>3, <1>4, <1>5

(* rest[i] is what a pass makes of the text from i on.                     *)
Scan(rest, text, s) ==
  rest = [i \in 1..(Len(text) + 1) |->
            IF i > Len(text) THEN <<>>
            ELSE IF Matching(text, i, s) = {} THEN <<text[i]>> \o rest[i + 1]
            ELSE Marker \o rest[i + Len(Forms[s][Min(Matching(text, i, s))])]]

LEMMA ScanExists ==
  ASSUME NEW text \in Text, NEW s \in Secrets
  PROVE  \E rest : Scan(rest, text, s) /\ Pass(text, s) = rest[1]
<1> DEFINE len == Len(text)
           Item(f, i) == IF i > len THEN <<>>
                         ELSE IF Matching(text, i, s) = {} THEN <<text[i]>> \o f[i + 1]
                         ELSE Marker \o f[i + Len(Forms[s][Min(Matching(text, i, s))])]
           Body(f, m) == [i \in (len + 1 - m)..(len + 1) |-> Item(f, i)]
           T == {m \in Nat : m <= len => \E f : f = Body(f, m)}
<1>1. len \in Nat
  BY LenProperties DEF Text
<1> HIDE DEF len
<1>2. 0 \in T
  <2> DEFINE f == [i \in (len + 1 - 0)..(len + 1) |-> <<>>]
  <2>1. f = Body(f, 0)
    <3>1. \A i \in (len + 1 - 0)..(len + 1) : i > len
      BY <1>1
    <3>2. QED
      BY <3>1
  <2>2. QED
    BY <2>1
<1>3. ASSUME NEW m \in Nat, m \in T PROVE m + 1 \in T
  <2> SUFFICES ASSUME m + 1 <= len PROVE \E f : f = Body(f, m + 1)
    <3> HIDE DEF Body
    <3>1. QED
      OBVIOUS
  <2>1. PICK f : f = Body(f, m)
    <3> HIDE DEF Body
    <3>1. QED
      BY <1>1, <1>3
  <2> DEFINE first == len + 1 - (m + 1)
             longer == [i \in first..(len + 1) |-> IF i = first THEN Item(f, first) ELSE f[i]]
  <2>2. first \in 1..len /\ first + 1 = len + 1 - m
    BY <1>1
  <2> HIDE DEF first
  \* An item only depends on what comes later.
  <2>3. ASSUME NEW i \in first..(len + 1) PROVE Item(longer, i) = Item(f, i)
    <3>1. CASE i > len
      BY <3>1
    <3>2. CASE i <= len /\ Matching(text, i, s) = {}
      <4>1. i + 1 \in first..(len + 1) /\ i + 1 # first
        BY <1>1, <2>2, <3>2
      <4>2. longer[i + 1] = f[i + 1]
        BY <4>1
      <4> HIDE DEF longer
      <4>3. QED
        BY <3>2, <4>2
    <3>3. CASE i <= len /\ Matching(text, i, s) # {}
      <4> DEFINE next == i + Len(Forms[s][Min(Matching(text, i, s))])
      <4>1. i \in 1..len
        BY <1>1, <2>2, <3>3
      <4>2. next \in (i + 1)..(len + 1)
        BY <3>3, <4>1, FirstMatch DEF len
      <4>3. next \in first..(len + 1) /\ next # first
        BY <1>1, <2>2, <4>1, <4>2
      <4>4. longer[next] = f[next]
        BY <4>3
      <4> HIDE DEF longer
      <4>5. QED
        BY <3>3, <4>4
    <3>4. QED
      BY <1>1, <2>2, <3>1, <3>2, <3>3
  <2>4. ASSUME NEW i \in first..(len + 1) PROVE longer[i] = Item(longer, i)
    <3>1. CASE i = first
      <4>1. longer[i] = Item(f, i)
        BY <3>1
      <4>2. QED
        BY <2>3, <4>1
    <3>2. CASE i # first
      <4>1. i \in (len + 1 - m)..(len + 1)
        BY <1>1, <2>2, <3>2
      <4>2. longer[i] = f[i]
        BY <3>2
      <4>3. f[i] = Item(f, i)
        <5> HIDE DEF Item, longer
        <5>1. QED
          BY <2>1, <4>1
      <4>4. QED
        <5> HIDE DEF Item, longer
        <5>1. QED
          BY <2>3, <4>2, <4>3
    <3>3. QED
      BY <3>1, <3>2
  <2>5. longer = [i \in first..(len + 1) |-> longer[i]]
    OBVIOUS
  <2>6. longer = Body(longer, m + 1)
    <3> HIDE DEF Item, longer
    <3>1. QED
      BY <2>4, <2>5 DEF first
  <2>7. QED
    <3> HIDE DEF Body, longer
    <3>1. QED
      BY <2>6
<1>4. len \in T
  <2> HIDE DEF T
  <2>1. QED
    BY <1>1, <1>2, <1>3, Induction
<1>5. PICK f : f = Body(f, len)
  <2> HIDE DEF Body
  <2>1. QED
    BY <1>1, <1>4
<1> DEFINE Whole(f_) == [i \in 1..(len + 1) |-> Item(f_, i)]
<1>6. f = Whole(f)
  <2>1. len + 1 - len = 1
    BY <1>1
  <2> HIDE DEF Item
  <2>2. QED
    BY <1>5, <2>1
<1> DEFINE from == CHOOSE g : g = Whole(g)
<1>7. from = Whole(from)
  <2> HIDE DEF Whole
  <2>1. QED
    BY <1>6
<1>8. Pass(text, s) = from[1]
  BY DEF Pass, len
<1>9. Scan(from, text, s)
  <2> HIDE DEF from
  <2>1. QED
    BY <1>7 DEF Scan, len
<1>10. QED
  <2> HIDE DEF from
  <2>1. QED
    BY <1>8, <1>9

-------------------------------------------------------------------------------
(* What a pass makes of a text.                                            *)

(* At each position a pass copies a byte or replaces a form.               *)
LEMMA ScanEnds ==
  ASSUME NEW text \in Text, NEW s \in Secrets, NEW rest, Scan(rest, text, s)
  PROVE  rest[Len(text) + 1] = <<>>
<1>1. Len(text) + 1 \in 1..(Len(text) + 1) /\ Len(text) + 1 > Len(text)
  BY LenProperties DEF Text
<1>2. QED
  BY <1>1 DEF Scan

LEMMA ScanCopies ==
  ASSUME NEW text \in Text, NEW s \in Secrets, NEW rest, Scan(rest, text, s),
         NEW i \in 1..Len(text), Matching(text, i, s) = {}
  PROVE  rest[i] = <<text[i]>> \o rest[i + 1]
<1>1. i \in 1..(Len(text) + 1) /\ ~(i > Len(text))
  BY LenProperties DEF Text
<1>2. QED
  BY <1>1 DEF Scan

LEMMA ScanReplaces ==
  ASSUME NEW text \in Text, NEW s \in Secrets, NEW rest, Scan(rest, text, s),
         NEW i \in 1..Len(text), Matching(text, i, s) # {}
  PROVE  rest[i] = Marker \o rest[i + Len(Forms[s][Min(Matching(text, i, s))])]
<1>1. i \in 1..(Len(text) + 1) /\ ~(i > Len(text))
  BY LenProperties DEF Text
<1>2. QED
  BY <1>1 DEF Scan

Copies(rest, text, s, i) == Matching(text, i, s) = {} /\ rest[i] = <<text[i]>> \o rest[i + 1]
Replaces(rest, text, i) == \E j \in (i + 1)..(Len(text) + 1) : rest[i] = Marker \o rest[j]

LEMMA ScanStep ==
  ASSUME NEW text \in Text, NEW s \in Secrets, NEW rest, Scan(rest, text, s),
         NEW i \in 1..Len(text)
  PROVE  Copies(rest, text, s, i) \/ Replaces(rest, text, i)
<1>1. CASE Matching(text, i, s) = {}
  BY <1>1, ScanCopies DEF Copies
<1>2. CASE Matching(text, i, s) # {}
  <2> DEFINE j == i + Len(Forms[s][Min(Matching(text, i, s))])
  <2>1. rest[i] = Marker \o rest[j]
    BY <1>2, ScanReplaces
  <2>2. j \in (i + 1)..(Len(text) + 1)
    BY <1>2, FirstMatch
  <2> HIDE DEF j
  <2>3. QED
    BY <2>1, <2>2 DEF Replaces
<1>3. QED
  BY <1>1, <1>2

LEMMA MarkerTyped == Marker \in Text /\ Len(Marker) \in Nat /\ Len(Marker) >= 1
BY OutputAssumption, EmptySeq, LenProperties DEF Text

LEMMA RestTyped ==
  ASSUME NEW text \in Text, NEW s \in Secrets, NEW rest, Scan(rest, text, s)
  PROVE  \A i \in 1..(Len(text) + 1) : rest[i] \in Text
<1> DEFINE T == {i \in 1..(Len(text) + 1) : rest[i] \in Text}
<1>1. Len(text) \in Nat
  BY LenProperties DEF Text
<1>2. Len(text) + 1 \in T
  <2>1. rest[Len(text) + 1] = <<>>
    BY ScanEnds
  <2>2. <<>> \in Text
    BY EmptySeq DEF Text
  <2>3. Len(text) + 1 \in 1..(Len(text) + 1)
    BY <1>1
  <2>4. QED
    BY <2>1, <2>2, <2>3
<1>3. ASSUME NEW i \in 1..Len(text), \A j \in (i + 1)..(Len(text) + 1) : j \in T
      PROVE  i \in T
  <2>1. i \in 1..(Len(text) + 1) /\ i + 1 \in (i + 1)..(Len(text) + 1)
    BY <1>1
  <2>2. CASE Copies(rest, text, s, i)
    <3>1. <<text[i]>> \in Text
      BY ElementOfSeq DEF Text
    <3>2. rest[i + 1] \in Text
      BY <1>3, <2>1
    <3>3. rest[i] = <<text[i]>> \o rest[i + 1]
      BY <2>2 DEF Copies
    <3>4. <<text[i]>> \o rest[i + 1] \in Text
      <4> HIDE DEF T
      <4>1. QED
        BY <3>1, <3>2, ConcatProperties DEF Text
    <3>5. QED
      BY <2>1, <3>3, <3>4
  <2>3. CASE Replaces(rest, text, i)
    <3>1. PICK j \in (i + 1)..(Len(text) + 1) : rest[i] = Marker \o rest[j]
      BY <2>3 DEF Replaces
    <3>2. rest[j] \in Text
      BY <1>3
    <3>3. Marker \o rest[j] \in Text
      <4> HIDE DEF T
      <4>1. QED
        BY <3>2, MarkerTyped, ConcatProperties DEF Text
    <3>4. QED
      BY <2>1, <3>1, <3>3
  <2>4. QED
    BY <2>2, <2>3, ScanStep
<1>4. 1..(Len(text) + 1) \subseteq T
  <2> HIDE DEF T
  <2>1. QED
    BY <1>1, <1>2, <1>3, Backwards
<1>5. QED
  BY <1>4

LEMMA PassTyped ==
  ASSUME NEW text \in Text, NEW s \in Secrets
  PROVE  Pass(text, s) \in Text
<1>1. PICK rest : Scan(rest, text, s) /\ Pass(text, s) = rest[1]
  BY ScanExists
<1>2. 1 \in 1..(Len(text) + 1)
  BY LenProperties DEF Text
<1>3. QED
  BY <1>1, <1>2, RestTyped

(* The bytes of a text put together, by position.                          *)
LEMMA ByteThen ==
  ASSUME NEW b \in Byte, NEW t \in Text
  PROVE  /\ <<b>> \o t \in Text /\ Len(t) \in Nat /\ Len(<<b>> \o t) = Len(t) + 1
         /\ (<<b>> \o t)[1] = b
         /\ \A p \in 2..(Len(t) + 1) : (<<b>> \o t)[p] = t[p - 1]
<1>1. <<b>> \in Text /\ Len(<<b>>) = 1 /\ <<b>>[1] = b
  BY DEF Text
<1>2. Len(t) \in Nat
  BY LenProperties DEF Text
<1>3. QED
  BY <1>1, <1>2, ConcatProperties DEF Text

LEMMA MarkerThen ==
  ASSUME NEW t \in Text
  PROVE  /\ Marker \o t \in Text /\ Len(t) \in Nat
         /\ Len(Marker \o t) = Len(Marker) + Len(t)
         /\ \A p \in 1..Len(Marker) : (Marker \o t)[p] = Marker[p]
         /\ \A p \in (Len(Marker) + 1)..(Len(Marker) + Len(t)) :
              (Marker \o t)[p] = t[p - Len(Marker)]
         /\ At(Marker \o t, 1, Marker)
<1>1. Len(t) \in Nat
  BY LenProperties DEF Text
<1>2. /\ Marker \o t \in Text /\ Len(Marker \o t) = Len(Marker) + Len(t)
      /\ \A p \in 1..(Len(Marker) + Len(t)) :
           (Marker \o t)[p] = IF p <= Len(Marker) THEN Marker[p] ELSE t[p - Len(Marker)]
  BY MarkerTyped, ConcatProperties DEF Text
<1>3. \A p \in 1..Len(Marker) : (Marker \o t)[1 + p - 1] = Marker[p]
  <2>1. \A p \in 1..Len(Marker) : 1 + p - 1 = p /\ p \in 1..(Len(Marker) + Len(t)) /\ p <= Len(Marker)
    BY <1>1, MarkerTyped
  <2>2. QED
    BY <1>2, <2>1
<1>4. At(Marker \o t, 1, Marker)
  <2>1. 1 \in Nat \ {0} /\ 1 + Len(Marker) - 1 <= Len(Marker \o t)
    BY <1>1, <1>2, MarkerTyped
  <2>2. QED
    BY <1>2, <1>3, <2>1, MarkerTyped, AtPointwise
<1>5. QED
  BY <1>1, <1>2, <1>4, MarkerTyped

(* What follows is found where it is now.                                  *)
LEMMA AtLater ==
  ASSUME NEW a \in Text, NEW t \in Text, NEW word \in Text, NEW p \in Nat \ {0}
  PROVE  At(a \o t, Len(a) + p, word) <=> At(t, p, word)
<1>1. Len(a) \in Nat /\ Len(t) \in Nat /\ Len(word) \in Nat
  BY LenProperties DEF Text
<1>2. /\ a \o t \in Text /\ Len(a \o t) = Len(a) + Len(t)
      /\ \A q \in 1..(Len(a) + Len(t)) : (a \o t)[q] = IF q <= Len(a) THEN a[q] ELSE t[q - Len(a)]
  BY ConcatProperties DEF Text
<1>3. Len(a) + p \in Nat \ {0}
  BY <1>1
<1>4. At(a \o t, Len(a) + p, word) <=>
        /\ Len(a) + p + Len(word) - 1 <= Len(a) + Len(t)
        /\ \A q \in 1..Len(word) : (a \o t)[Len(a) + p + q - 1] = word[q]
  BY <1>2, <1>3, AtPointwise
<1>5. At(t, p, word) <=>
        p + Len(word) - 1 <= Len(t) /\ \A q \in 1..Len(word) : t[p + q - 1] = word[q]
  BY AtPointwise
<1>6. ASSUME p + Len(word) - 1 <= Len(t), NEW q \in 1..Len(word)
      PROVE  (a \o t)[Len(a) + p + q - 1] = t[p + q - 1]
  <2>1. /\ Len(a) + p + q - 1 \in 1..(Len(a) + Len(t)) /\ ~(Len(a) + p + q - 1 <= Len(a))
        /\ (Len(a) + p + q - 1) - Len(a) = p + q - 1
    BY <1>1, <1>6
  <2>2. QED
    BY <1>2, <2>1
<1>7. Len(a) + p + Len(word) - 1 <= Len(a) + Len(t) <=> p + Len(word) - 1 <= Len(t)
  BY <1>1
<1>8. QED
  BY <1>4, <1>5, <1>6, <1>7

(* Two markers in a text do not overlap.                                   *)
LEMMA MarkersApart ==
  ASSUME NEW t \in Text, NEW r \in Nat \ {0}, NEW q \in Nat \ {0}, r < q,
         At(t, r, Marker), At(t, q, Marker)
  PROVE  r + Len(Marker) <= q
<1>1. SUFFICES ASSUME q < r + Len(Marker) PROVE FALSE
  BY MarkerTyped
<1> DEFINE d == q - r
<1>2. d \in 1..(Len(Marker) - 1)
  BY <1>1, MarkerTyped
<1>3. DOMAIN Marker = 1..Len(Marker)
  BY MarkerTyped, LenProperties DEF Text
<1>4. ASSUME NEW p \in DOMAIN Marker, p + d \in DOMAIN Marker
      PROVE  Marker[p] = Marker[p + d]
  <2>1. t[q + p - 1] = Marker[p]
    BY <1>3, MarkerTyped, AtPointwise
  <2>2. t[r + (p + d) - 1] = Marker[p + d]
    <3>1. \A k \in 1..Len(Marker) : t[r + k - 1] = Marker[k]
      BY MarkerTyped, AtPointwise
    <3>2. p + d \in 1..Len(Marker)
      BY <1>3, <1>4
    <3>3. QED
      BY <3>1, <3>2
  <2>3. r + (p + d) - 1 = q + p - 1
    BY <1>3
  <2>4. QED
    BY <2>1, <2>2, <2>3
<1>5. Agree(Marker, Marker, d)
  BY <1>4 DEF Agree
<1>6. QED
  BY <1>2, <1>5, OutputAssumption

(* A word that cannot lie over the marker is before it or behind it.       *)
LEMMA WordsApart ==
  ASSUME NEW t \in Text, NEW word \in Text, ~Meets(word),
         NEW r \in Nat \ {0}, NEW q \in Nat \ {0}, At(t, q, word), At(t, r, Marker)
  PROVE  q + Len(word) <= r \/ r + Len(Marker) <= q
<1>1. Len(word) \in Nat /\ DOMAIN word = 1..Len(word) /\ DOMAIN Marker = 1..Len(Marker)
  BY MarkerTyped, LenProperties DEF Text
<1>2. SUFFICES ASSUME r < q + Len(word), q < r + Len(Marker) PROVE FALSE
  BY <1>1, MarkerTyped
<1> DEFINE d == q - r
<1>3. d \in (1 - Len(word))..(Len(Marker) - 1)
  BY <1>1, <1>2, MarkerTyped
<1>4. ASSUME NEW p \in DOMAIN word, p + d \in DOMAIN Marker
      PROVE  word[p] = Marker[p + d]
  <2>1. t[q + p - 1] = word[p]
    BY <1>1, AtPointwise
  <2>2. t[r + (p + d) - 1] = Marker[p + d]
    BY <1>1, <1>4, MarkerTyped, AtPointwise
  <2>3. r + (p + d) - 1 = q + p - 1
    BY <1>1
  <2>4. QED
    BY <2>1, <2>2, <2>3
<1>5. Agree(word, Marker, d)
  BY <1>4 DEF Agree
<1>6. QED
  BY <1>3, <1>5 DEF Meets

(* As far as there is no marker in it, the output is the text.             *)
Copied(rest, text, i, n, r) ==
  \/ i + n - 1 <= Len(text) /\ \A p \in 1..n : rest[i][p] = text[i + p - 1]
  \/ \E q \in r..n : At(rest[i], q, Marker)

LEMMA CopiedOne ==
  ASSUME NEW text \in Text, NEW s \in Secrets, NEW rest, Scan(rest, text, s),
         NEW i \in 1..Len(text), rest[i] = <<text[i]>> \o rest[i + 1],
         NEW n \in 1..Len(rest[i]), Copied(rest, text, i + 1, n - 1, 1)
  PROVE  Copied(rest, text, i, n, 2)
<1>1. i + 1 \in 1..(Len(text) + 1) /\ text[i] \in Byte /\ Len(text) \in Nat
  BY ElementOfSeq, LenProperties DEF Text
<1>2. rest[i + 1] \in Text
  BY <1>1, RestTyped
<1>3. /\ rest[i] \in Text /\ Len(rest[i + 1]) \in Nat /\ Len(rest[i]) = Len(rest[i + 1]) + 1
      /\ rest[i][1] = text[i]
      /\ \A p \in 2..Len(rest[i]) : rest[i][p] = rest[i + 1][p - 1]
  BY <1>1, <1>2, ByteThen
<1>4. CASE /\ (i + 1) + (n - 1) - 1 <= Len(text)
           /\ \A p \in 1..(n - 1) : rest[i + 1][p] = text[(i + 1) + p - 1]
  <2>1. i + n - 1 <= Len(text)
    BY <1>1, <1>3, <1>4
  <2>2. ASSUME NEW p \in 1..n PROVE rest[i][p] = text[i + p - 1]
    <3>1. CASE p = 1
      BY <1>1, <1>3, <3>1
    <3>2. CASE p # 1
      <4>1. p \in 2..Len(rest[i]) /\ p - 1 \in 1..(n - 1) /\ (i + 1) + (p - 1) - 1 = i + p - 1
        BY <1>3, <3>2
      <4>2. rest[i + 1][p - 1] = text[(i + 1) + (p - 1) - 1]
        BY <1>4, <4>1
      <4>3. QED
        BY <1>3, <4>1, <4>2
    <3>3. QED
      BY <3>1, <3>2
  <2>3. QED
    BY <2>1, <2>2 DEF Copied
<1>5. CASE \E q \in 1..(n - 1) : At(rest[i + 1], q, Marker)
  <2>1. PICK q \in 1..(n - 1) : At(rest[i + 1], q, Marker)
    BY <1>5
  <2>2. At(rest[i], 1 + q, Marker)
    <3>1. <<text[i]>> \in Text /\ Len(<<text[i]>>) = 1 /\ q \in Nat \ {0}
      BY <1>1, <1>3 DEF Text
    <3>2. \A a \in Text : At(a \o rest[i + 1], Len(a) + q, Marker) <=> At(rest[i + 1], q, Marker)
      BY <1>2, <3>1, MarkerTyped, AtLater
    <3>3. At(<<text[i]>> \o rest[i + 1], 1 + q, Marker)
      BY <2>1, <3>1, <3>2
    <3>4. QED
      BY <3>3
  <2>3. 1 + q \in 2..n
    BY <1>3
  <2>4. QED
    BY <2>2, <2>3 DEF Copied
<1>6. QED
  BY <1>4, <1>5 DEF Copied

LEMMA CopiedUntilMarker ==
  ASSUME NEW text \in Text, NEW s \in Secrets, NEW rest, Scan(rest, text, s)
  PROVE  \A i \in 1..(Len(text) + 1) : \A n \in 0..Len(rest[i]) : Copied(rest, text, i, n, 1)
<1> DEFINE T == {i \in 1..(Len(text) + 1) :
                   \A n \in 0..Len(rest[i]) : Copied(rest, text, i, n, 1)}
<1>1. Len(text) \in Nat
  BY LenProperties DEF Text
<1>2. ASSUME NEW i \in 1..(Len(text) + 1) PROVE Copied(rest, text, i, 0, 1)
  <2>1. i + 0 - 1 <= Len(text) /\ \A p \in 1..0 : rest[i][p] = text[i + p - 1]
    BY <1>1
  <2>2. QED
    BY <2>1 DEF Copied
<1>3. Len(text) + 1 \in T
  <2>1. Len(rest[Len(text) + 1]) = 0
    BY ScanEnds, EmptySeq
  <2>2. Len(text) + 1 \in 1..(Len(text) + 1)
    BY <1>1
  <2>3. QED
    BY <1>2, <2>1, <2>2
<1>4. ASSUME NEW i \in 1..Len(text), \A j \in (i + 1)..(Len(text) + 1) : j \in T
      PROVE  i \in T
  <2>1. i \in 1..(Len(text) + 1) /\ i + 1 \in (i + 1)..(Len(text) + 1)
        /\ i + 1 \in 1..(Len(text) + 1)
    BY <1>1
  <2> SUFFICES ASSUME NEW n \in 0..Len(rest[i]) PROVE Copied(rest, text, i, n, 1)
    BY <2>1
  <2>2. CASE n = 0
    BY <1>2, <2>1, <2>2
  <2>3. CASE n # 0 /\ Copies(rest, text, s, i)
    <3>1. rest[i + 1] \in Text /\ text[i] \in Byte
      BY <2>1, RestTyped, ElementOfSeq DEF Text
    <3>2. Len(rest[i]) = Len(rest[i + 1]) + 1 /\ Len(rest[i + 1]) \in Nat
      BY <2>3, <3>1, ByteThen DEF Copies
    <3>3. n \in 1..Len(rest[i]) /\ n - 1 \in 0..Len(rest[i + 1])
      BY <2>3, <3>2
    <3>4. Copied(rest, text, i + 1, n - 1, 1)
      BY <1>4, <2>1, <3>3
    <3>5. Copied(rest, text, i, n, 2)
      <4> HIDE DEF T
      <4>1. QED
        BY <2>3, <3>3, <3>4, CopiedOne DEF Copies
    <3>6. QED
      BY <3>2, <3>3, <3>5 DEF Copied
  <2>4. CASE n # 0 /\ Replaces(rest, text, i)
    <3>1. PICK j \in (i + 1)..(Len(text) + 1) : rest[i] = Marker \o rest[j]
      BY <2>4 DEF Replaces
    <3>2. rest[j] \in Text
      <4>1. j \in 1..(Len(text) + 1)
        BY <1>1
      <4>2. QED
        BY <4>1, RestTyped
    <3>3. At(rest[i], 1, Marker) /\ Len(rest[i]) \in Nat
      BY <3>1, <3>2, MarkerTyped, MarkerThen
    <3>4. 1 \in 1..n
      BY <2>4, <3>3
    <3>5. QED
      BY <3>3, <3>4 DEF Copied
  <2>5. QED
    BY <2>2, <2>3, <2>4, ScanStep
<1>5. 1..(Len(text) + 1) \subseteq T
  <2> HIDE DEF T
  <2>1. QED
    BY <1>1, <1>3, <1>4, Backwards
<1>6. QED
  BY <1>5

-------------------------------------------------------------------------------
(* When the forms of the secret cannot lie over the marker, one pass is    *)
(* enough.                                                                 *)

LEMMA CleanPointwise ==
  ASSUME NEW text \in Text, NEW s \in Secrets
  PROVE  Clean(text, s) <=>
           \A k \in DOMAIN Forms[s] : \A i \in Nat \ {0} : ~At(text, i, Forms[s][k])
<1>1. ASSUME NEW k \in DOMAIN Forms[s], NEW i \in Nat \ {0}, At(text, i, Forms[s][k])
      PROVE  i \in DOMAIN text
  <2>1. Forms[s][k] \in Text /\ Len(Forms[s][k]) \in Nat /\ Len(Forms[s][k]) >= 1
    BY FormsTyped
  <2>2. i + Len(Forms[s][k]) - 1 <= Len(text)
    BY <1>1, <2>1, AtPointwise
  <2>3. DOMAIN text = 1..Len(text) /\ Len(text) \in Nat
    BY LenProperties DEF Text
  <2>4. QED
    BY <2>1, <2>2, <2>3
<1>2. \A i \in DOMAIN text : i \in Nat \ {0}
  BY LenProperties DEF Text
<1>3. QED
  BY <1>1, <1>2 DEF Clean

LEMMA CleanOne ==
  ASSUME NEW text \in Text, NEW s \in Secrets, NEW rest, Scan(rest, text, s),
         \A k \in DOMAIN Forms[s] : ~Meets(Forms[s][k]),
         NEW i \in 1..Len(text), Matching(text, i, s) = {},
         rest[i] = <<text[i]>> \o rest[i + 1], Clean(rest[i + 1], s)
  PROVE  Clean(rest[i], s)
<1>1. i + 1 \in 1..(Len(text) + 1) /\ i \in 1..(Len(text) + 1) /\ text[i] \in Byte
      /\ Len(text) \in Nat /\ i \in Nat \ {0}
  BY ElementOfSeq, LenProperties DEF Text
<1>2. rest[i + 1] \in Text /\ rest[i] \in Text
  BY <1>1, RestTyped
<1>3. SUFFICES ASSUME NEW k \in DOMAIN Forms[s], NEW p \in Nat \ {0}, At(rest[i], p, Forms[s][k])
               PROVE  FALSE
  BY <1>2, CleanPointwise
<1> DEFINE form == Forms[s][k]
<1>4. form \in Text /\ Len(form) \in Nat /\ Len(form) >= 1 /\ ~Meets(form)
  BY FormsTyped
<1>5. CASE p # 1
  <2>1. p - 1 \in Nat \ {0} /\ 1 + (p - 1) = p /\ <<text[i]>> \in Text /\ Len(<<text[i]>>) = 1
    BY <1>1, <1>5 DEF Text
  <2>2. \A a \in Text : At(a \o rest[i + 1], Len(a) + (p - 1), form) <=> At(rest[i + 1], p - 1, form)
    BY <1>2, <1>4, <2>1, AtLater
  <2>3. At(rest[i + 1], p - 1, form)
    BY <1>3, <2>1, <2>2
  <2>4. QED
    BY <1>2, <2>1, <2>3, CleanPointwise
<1>6. CASE p = 1
  <2> DEFINE n == Len(form)
  <2>1. /\ 1 + n - 1 <= Len(rest[i])
        /\ \A q \in 1..n : rest[i][1 + q - 1] = form[q]
    BY <1>2, <1>3, <1>4, <1>6, AtPointwise
  <2>2. n \in 0..Len(rest[i]) /\ Len(rest[i]) \in Nat
    BY <1>2, <1>4, <2>1, LenProperties DEF Text
  <2>3. Copied(rest, text, i, n, 1)
    BY <1>1, <2>2, CopiedUntilMarker
  <2>4. CASE i + n - 1 <= Len(text) /\ \A q \in 1..n : rest[i][q] = text[i + q - 1]
    <3>1. \A q \in 1..n : text[i + q - 1] = form[q]
      <4>1. \A q \in 1..n : 1 + q - 1 = q
        OBVIOUS
      <4>2. QED
        BY <2>1, <2>4, <4>1
    <3>2. At(text, i, form)
      BY <1>1, <1>4, <2>4, <3>1, AtPointwise
    <3>3. QED
      BY <3>2 DEF Matching
  <2>5. CASE \E q \in 1..n : At(rest[i], q, Marker)
    <3>1. PICK q \in 1..n : At(rest[i], q, Marker)
      BY <2>5
    <3>2. 1 + n <= q \/ q + Len(Marker) <= 1
      BY <1>2, <1>3, <1>4, <1>6, <3>1, WordsApart
    <3>3. QED
      BY <1>4, <3>2, MarkerTyped
  <2>6. QED
    BY <2>3, <2>4, <2>5 DEF Copied
<1>7. QED
  BY <1>5, <1>6

LEMMA CleanMarker ==
  ASSUME NEW s \in Secrets, \A k \in DOMAIN Forms[s] : ~Meets(Forms[s][k]),
         NEW t \in Text, Clean(t, s)
  PROVE  Clean(Marker \o t, s)
<1>1. Marker \o t \in Text /\ At(Marker \o t, 1, Marker)
  BY MarkerThen
<1>2. SUFFICES ASSUME NEW k \in DOMAIN Forms[s], NEW p \in Nat \ {0}, At(Marker \o t, p, Forms[s][k])
               PROVE  FALSE
  BY <1>1, CleanPointwise
<1> DEFINE form == Forms[s][k]
<1>3. form \in Text /\ Len(form) \in Nat /\ Len(form) >= 1 /\ ~Meets(form)
  BY FormsTyped
<1>4. p + Len(form) <= 1 \/ 1 + Len(Marker) <= p
  BY <1>1, <1>2, <1>3, WordsApart
<1>5. p - Len(Marker) \in Nat \ {0} /\ Len(Marker) + (p - Len(Marker)) = p
  BY <1>3, <1>4, MarkerTyped
<1>6. At(t, p - Len(Marker), form)
  BY <1>2, <1>3, <1>5, MarkerTyped, AtLater
<1>7. QED
  BY <1>5, <1>6, CleanPointwise

LEMMA ScanCleans ==
  ASSUME NEW text \in Text, NEW s \in Secrets, NEW rest, Scan(rest, text, s),
         \A k \in DOMAIN Forms[s] : ~Meets(Forms[s][k])
  PROVE  Clean(rest[1], s)
<1> DEFINE T == {i \in 1..(Len(text) + 1) : Clean(rest[i], s)}
<1>2. Len(text) \in Nat
  BY LenProperties DEF Text
<1>3. Len(text) + 1 \in T
  <2>1. rest[Len(text) + 1] = <<>>
    BY ScanEnds
  <2>2. Clean(<<>>, s)
    BY DEF Clean
  <2>3. QED
    BY <1>2, <2>1, <2>2
<1>4. ASSUME NEW i \in 1..Len(text), \A j \in (i + 1)..(Len(text) + 1) : j \in T
      PROVE  i \in T
  <2>1. i \in 1..(Len(text) + 1) /\ i + 1 \in (i + 1)..(Len(text) + 1)
    BY <1>2
  <2>2. CASE Copies(rest, text, s, i)
    <3>1. Clean(rest[i + 1], s)
      BY <1>4, <2>1
    <3>2. Clean(rest[i], s)
      BY <2>2, <3>1, CleanOne DEF Copies
    <3>3. QED
      BY <2>1, <3>2
  <2>3. CASE Replaces(rest, text, i)
    <3>1. PICK j \in (i + 1)..(Len(text) + 1) : rest[i] = Marker \o rest[j]
      BY <2>3 DEF Replaces
    <3>2. Clean(rest[j], s) /\ j \in 1..(Len(text) + 1)
      BY <1>2, <1>4
    <3>3. rest[j] \in Text
      BY <3>2, RestTyped
    <3>4. Clean(rest[i], s)
      BY <3>1, <3>2, <3>3, CleanMarker
    <3>5. QED
      BY <2>1, <3>4
  <2>4. QED
    BY <2>2, <2>3, ScanStep
<1>5. 1 \in T
  <2> HIDE DEF T
  <2>1. 1..(Len(text) + 1) \subseteq T
    BY <1>2, <1>3, <1>4, Backwards
  <2>2. QED
    BY <1>2, <2>1
<1>6. QED
  BY <1>5

LEMMA PassCleans ==
  ASSUME NEW text \in Text, NEW s \in Secrets, \A k \in DOMAIN Forms[s] : ~Meets(Forms[s][k])
  PROVE  Clean(Pass(text, s), s)
BY ScanExists, ScanCleans

(* A pass leaves a clean text as it is.                                    *)
LEMMA ScanKeeps ==
  ASSUME NEW text \in Text, NEW s \in Secrets, NEW rest, Scan(rest, text, s), Clean(text, s)
  PROVE  rest[1] = text
<1> DEFINE Same(i) == /\ Len(rest[i]) = Len(text) + 1 - i
                      /\ \A p \in 1..(Len(text) + 1 - i) : rest[i][p] = text[i + p - 1]
           T == {i \in 1..(Len(text) + 1) : Same(i)}
<1>1. Len(text) \in Nat /\ DOMAIN text = 1..Len(text)
  BY LenProperties DEF Text
<1>2. Len(text) + 1 \in T
  <2>1. Len(rest[Len(text) + 1]) = 0
    BY ScanEnds, EmptySeq
  <2>2. QED
    BY <1>1, <2>1
<1>3. ASSUME NEW i \in 1..Len(text), \A j \in (i + 1)..(Len(text) + 1) : j \in T
      PROVE  i \in T
  <2>1. i \in 1..(Len(text) + 1) /\ i + 1 \in (i + 1)..(Len(text) + 1)
        /\ i + 1 \in 1..(Len(text) + 1)
    BY <1>1
  <2>2. Matching(text, i, s) = {}
    BY <1>1 DEF Matching, Clean
  <2>3. rest[i] = <<text[i]>> \o rest[i + 1]
    <3> HIDE DEF T
    <3>1. QED
      BY <2>2, ScanCopies
  <2>4. rest[i + 1] \in Text /\ text[i] \in Byte
    BY <2>1, RestTyped, ElementOfSeq DEF Text
  <2>5. /\ Len(rest[i]) = Len(rest[i + 1]) + 1 /\ rest[i][1] = text[i]
        /\ \A p \in 2..(Len(rest[i + 1]) + 1) : rest[i][p] = rest[i + 1][p - 1]
    BY <2>3, <2>4, ByteThen
  <2>6. Same(i + 1)
    BY <1>3, <2>1
  <2>7. ASSUME NEW p \in 1..(Len(text) + 1 - i) PROVE rest[i][p] = text[i + p - 1]
    <3>1. CASE p = 1
      BY <2>5, <3>1
    <3>2. CASE p # 1
      <4>1. p \in 2..(Len(rest[i + 1]) + 1) /\ p - 1 \in 1..(Len(text) + 1 - (i + 1))
            /\ (i + 1) + (p - 1) - 1 = i + p - 1
        BY <1>1, <2>6, <3>2
      <4>2. rest[i + 1][p - 1] = text[(i + 1) + (p - 1) - 1]
        BY <2>6, <4>1
      <4>3. QED
        BY <2>5, <4>1, <4>2
    <3>3. QED
      BY <3>1, <3>2
  <2>8. Len(rest[i]) = Len(text) + 1 - i
    BY <1>1, <2>5, <2>6
  <2>9. QED
    BY <2>1, <2>7, <2>8
<1>4. Same(1)
  <2>1. 1..(Len(text) + 1) \subseteq T
    <3> HIDE DEF T
    <3>1. QED
      BY <1>1, <1>2, <1>3, Backwards
  <2>2. 1 \in 1..(Len(text) + 1)
    BY <1>1
  <2>3. QED
    BY <2>1, <2>2
<1>5. rest[1] \in Text
  BY <1>1, RestTyped
<1>6. Len(rest[1]) = Len(text) /\ \A p \in 1..Len(text) : rest[1][p] = text[p]
  <2>1. Len(text) + 1 - 1 = Len(text) /\ \A p \in 1..Len(text) : 1 + p - 1 = p
    BY <1>1
  <2>2. QED
    BY <1>4, <2>1
<1>7. QED
  BY <1>5, <1>6, SeqEqual DEF Text

LEMMA PassKeeps ==
  ASSUME NEW text \in Text, NEW s \in Secrets, Clean(text, s)
  PROVE  Pass(text, s) = text
BY ScanExists, ScanKeeps

(* The passes, one after the other.                                        *)
LEMMA PassesExist ==
  ASSUME NEW text \in Text, NEW s \in Secrets
  PROVE  \E after : /\ after[0] = text
                    /\ \A n \in 1..MaxPasses : after[n] = Pass(after[n - 1], s)
                    /\ Redacted(text, s) = after[MaxPasses]
<1> DEFINE Body(f, m) == [n \in 0..m |-> IF n = 0 THEN text ELSE Pass(f[n - 1], s)]
           T == {m \in Nat : \E f : f = Body(f, m)}
<1>1. MaxPasses \in Nat
  BY OutputAssumption
<1>2. 0 \in T
  <2>1. Body([n \in 0..0 |-> text], 0) = [n \in 0..0 |-> text]
    OBVIOUS
  <2>2. QED
    BY <2>1
<1>3. ASSUME NEW m \in Nat, m \in T PROVE m + 1 \in T
  <2>1. PICK f : f = Body(f, m)
    <3> HIDE DEF Body
    <3>1. QED
      BY <1>3
  <2> DEFINE longer == [n \in 0..(m + 1) |-> IF n = m + 1 THEN Pass(f[m], s) ELSE f[n]]
  <2>2. ASSUME NEW n \in 0..(m + 1) PROVE longer[n] = Body(longer, m + 1)[n]
    <3>1. CASE n = m + 1
      <4>1. longer[m] = f[m] /\ n # 0 /\ n - 1 = m
        BY <3>1
      <4>2. QED
        BY <3>1, <4>1
    <3>2. CASE n \in 0..m
      <4>1. longer[n] = f[n]
        BY <3>2
      <4>2. f[n] = Body(f, m)[n]
        <5> HIDE DEF Body, longer
        <5>1. QED
          BY <2>1
      <4>3. n # 0 => longer[n - 1] = f[n - 1]
        BY <3>2
      <4>4. QED
        BY <3>2, <4>1, <4>2, <4>3
    <3>3. QED
      BY <3>1, <3>2
  <2>3. longer = Body(longer, m + 1)
    BY <2>2
  <2>4. QED
    <3> HIDE DEF Body, longer
    <3>1. QED
      BY <2>3
<1>4. MaxPasses \in T
  <2> HIDE DEF T
  <2>1. QED
    BY <1>1, <1>2, <1>3, Induction
<1>5. PICK f : f = Body(f, MaxPasses)
  <2> HIDE DEF Body
  <2>1. QED
    BY <1>4
<1> DEFINE after == CHOOSE g : g = Body(g, MaxPasses)
<1>6. after = Body(after, MaxPasses)
  <2> HIDE DEF Body
  <2>1. QED
    BY <1>5
<1>7. Redacted(text, s) = after[MaxPasses]
  BY DEF Redacted
<1> HIDE DEF after
<1>8. after[0] = text
  BY <1>1, <1>6
<1>9. ASSUME NEW n \in 1..MaxPasses PROVE after[n] = Pass(after[n - 1], s)
  <2>1. n \in 0..MaxPasses /\ n # 0
    BY <1>1
  <2>2. QED
    BY <1>6, <2>1
<1>10. QED
  BY <1>7, <1>8, <1>9

LEMMA RedactedTyped ==
  ASSUME NEW text \in Text, NEW s \in Secrets
  PROVE  Redacted(text, s) \in Text
<1>1. PICK after : /\ after[0] = text
                   /\ \A n \in 1..MaxPasses : after[n] = Pass(after[n - 1], s)
                   /\ Redacted(text, s) = after[MaxPasses]
  BY PassesExist
<1> DEFINE T == {n \in Nat : n <= MaxPasses => after[n] \in Text}
<1>2. 0 \in T
  BY <1>1
<1>3. ASSUME NEW n \in Nat, n \in T PROVE n + 1 \in T
  <2> SUFFICES ASSUME n + 1 <= MaxPasses PROVE after[n + 1] \in Text
    OBVIOUS
  <2>1. MaxPasses \in Nat
    BY OutputAssumption
  <2>2. n + 1 \in 1..MaxPasses /\ (n + 1) - 1 = n /\ n <= MaxPasses
    BY <2>1
  <2>3. after[n + 1] = Pass(after[n], s) /\ after[n] \in Text
    BY <1>1, <1>3, <2>2
  <2>4. QED
    BY <2>3, PassTyped
<1>4. MaxPasses \in T
  <2> HIDE DEF T
  <2>1. QED
    BY <1>2, <1>3, Induction, OutputAssumption
<1>5. QED
  BY <1>1, <1>4

LEMMA OnePassIsEnough ==
  ASSUME NEW text \in Text, NEW s \in Secrets, \A k \in DOMAIN Forms[s] : ~Meets(Forms[s][k])
  PROVE  Redacted(text, s) = Pass(text, s) /\ Clean(Redacted(text, s), s)
<1>1. PICK after : /\ after[0] = text
                   /\ \A n \in 1..MaxPasses : after[n] = Pass(after[n - 1], s)
                   /\ Redacted(text, s) = after[MaxPasses]
  BY PassesExist
<1>2. Pass(text, s) \in Text /\ Clean(Pass(text, s), s)
  BY PassTyped, PassCleans
<1> DEFINE T == {n \in Nat : n + 1 <= MaxPasses => after[n + 1] = Pass(text, s)}
<1>3. MaxPasses \in Nat /\ MaxPasses >= 1
  BY OutputAssumption
<1>4. 0 \in T
  <2>1. 1 \in 1..MaxPasses /\ 1 - 1 = 0
    BY <1>3
  <2>2. after[1] = Pass(after[0], s)
    BY <1>1, <2>1
  <2>3. QED
    BY <1>1, <2>2
<1>5. ASSUME NEW n \in Nat, n \in T PROVE n + 1 \in T
  <2> SUFFICES ASSUME (n + 1) + 1 <= MaxPasses PROVE after[(n + 1) + 1] = Pass(text, s)
    OBVIOUS
  <2>1. (n + 1) + 1 \in 1..MaxPasses /\ ((n + 1) + 1) - 1 = n + 1 /\ n + 1 <= MaxPasses
    BY <1>3
  <2>2. after[(n + 1) + 1] = Pass(after[n + 1], s) /\ after[n + 1] = Pass(text, s)
    BY <1>1, <1>5, <2>1
  <2>3. QED
    BY <1>2, <2>2, PassKeeps
<1>6. MaxPasses - 1 \in T
  <2> HIDE DEF T
  <2>1. QED
    BY <1>3, <1>4, <1>5, Induction
<1>7. after[MaxPasses] = Pass(text, s)
  <2>1. (MaxPasses - 1) + 1 = MaxPasses /\ MaxPasses <= MaxPasses
    BY <1>3
  <2>2. QED
    BY <1>6, <2>1
<1>8. QED
  BY <1>1, <1>2, <1>7

-------------------------------------------------------------------------------
(* Prefixes and limits.                                                    *)

LEMMA Prefix ==
  ASSUME NEW text \in Text, NEW n \in 0..Len(text)
  PROVE  /\ SubSeq(text, 1, n) \in Text /\ Len(SubSeq(text, 1, n)) = n
         /\ \A p \in 1..n : SubSeq(text, 1, n)[p] = text[p]
<1>1. Len(text) \in Nat /\ n \in Nat
  BY LenProperties DEF Text
<1>2. \A p \in 1..n : text[p] \in Byte
  BY <1>1, ElementOfSeq DEF Text
<1>3. /\ SubSeq(text, 1, n) \in Seq(Byte)
      /\ Len(SubSeq(text, 1, n)) = IF 1 <= n THEN n - 1 + 1 ELSE 0
      /\ \A p \in 1..(n - 1 + 1) : SubSeq(text, 1, n)[p] = text[1 + p - 1]
  BY <1>1, <1>2, SubSeqProperties
<1>4. (IF 1 <= n THEN n - 1 + 1 ELSE 0) = n /\ n - 1 + 1 = n /\ \A p \in 1..n : 1 + p - 1 = p
  BY <1>1
<1>5. QED
  BY <1>3, <1>4 DEF Text

LEMMA CleanPrefix ==
  ASSUME NEW text \in Text, NEW s \in Secrets, Clean(text, s), NEW n \in 0..Len(text)
  PROVE  Clean(SubSeq(text, 1, n), s)
<1> DEFINE cut == SubSeq(text, 1, n)
<1>1. cut \in Text /\ Len(cut) = n /\ \A p \in 1..n : cut[p] = text[p]
  BY Prefix
<1> HIDE DEF cut
<1>2. SUFFICES ASSUME NEW k \in DOMAIN Forms[s], NEW i \in Nat \ {0}, At(cut, i, Forms[s][k])
               PROVE  At(text, i, Forms[s][k])
  BY <1>1, CleanPointwise DEF cut
<1> DEFINE form == Forms[s][k]
<1>3. form \in Text /\ Len(form) \in Nat /\ Len(text) \in Nat
  BY FormsTyped, LenProperties DEF Text
<1>4. i + Len(form) - 1 <= n /\ \A p \in 1..Len(form) : cut[i + p - 1] = form[p]
  BY <1>1, <1>2, <1>3, AtPointwise
<1>5. \A p \in 1..Len(form) : i + p - 1 \in 1..n
  BY <1>3, <1>4
<1>6. i + Len(form) - 1 <= Len(text) /\ \A p \in 1..Len(form) : text[i + p - 1] = form[p]
  BY <1>1, <1>3, <1>4, <1>5
<1>7. QED
  BY <1>3, <1>6, AtPointwise

LEMMA CutTyped ==
  ASSUME NEW text \in Text, NEW max \in Nat
  PROVE  Cut(text, max) \in 0..Len(text) /\ Cut(text, max) <= max
<1> DEFINE split == {j \in 1..max : j + Len(Marker) - 1 > max /\ At(text, j, Marker)}
<1>1. Len(text) \in Nat
  BY LenProperties DEF Text
<1>2. CASE Len(text) <= max
  BY <1>1, <1>2 DEF Cut
<1>3. CASE ~(Len(text) <= max) /\ split = {}
  <2>1. Cut(text, max) = max
    BY <1>3 DEF Cut
  <2>2. QED
    BY <1>1, <1>3, <2>1
<1>4. CASE ~(Len(text) <= max) /\ split # {}
  <2>1. Cut(text, max) = Min(split) - 1
    BY <1>4 DEF Cut
  <2>2. Min(split) \in split
    <3>1. split \subseteq Nat
      OBVIOUS
    <3>2. QED
      BY <1>4, <3>1, Smallest
  <2>3. Min(split) \in 1..max
    BY <2>2
  <2>4. QED
    BY <1>1, <1>4, <2>1, <2>3
<1>5. QED
  BY <1>2, <1>3, <1>4

LEMMA LongestIs ==
  ASSUME NEW s \in Secrets
  PROVE  /\ Longest[s] \in Nat /\ Longest[s] >= 1
         /\ \A k \in DOMAIN Forms[s] : Len(Forms[s][k]) <= Longest[s]
<1> DEFINE lengths == {Len(Forms[s][k]) : k \in DOMAIN Forms[s]}
           length == [k \in 1..Len(Forms[s]) |-> Len(Forms[s][k])]
<1>1. /\ DOMAIN Forms[s] = 1..Len(Forms[s]) /\ Len(Forms[s]) \in Nat /\ 1 \in DOMAIN Forms[s]
      /\ \A k \in DOMAIN Forms[s] : Len(Forms[s][k]) \in Nat /\ Len(Forms[s][k]) >= 1
  BY FormsTyped
<1>2. PICK b \in Nat : \A k \in 1..Len(Forms[s]) : length[k] <= b
  <2>1. \A k \in 1..Len(Forms[s]) : length[k] \in Nat
    BY <1>1
  <2> HIDE DEF length
  <2>2. QED
    BY <1>1, <2>1, Bounded
<1>3. lengths \subseteq Nat /\ lengths # {} /\ \A x \in lengths : x <= b
  BY <1>1, <1>2
<1>4. Max(lengths) \in lengths /\ \A x \in lengths : x <= Max(lengths)
  <2> HIDE DEF lengths
  <2>1. QED
    BY <1>3, Largest
<1>5. Longest[s] = Max(lengths)
  BY DEF Longest
<1>6. QED
  BY <1>1, <1>4, <1>5

LEMMA Quotient ==
  ASSUME NEW max \in Nat, NEW size \in Nat, size >= 1
  PROVE  (max + size) \div size \in Nat /\ ((max + size) \div size) * size >= max + 1
OBVIOUS

LEMMA LimitTyped ==
  ASSUME NEW max \in Nat, NEW longest \in Nat, longest >= 1
  PROVE  CaptureLimit(max, longest) \in Nat /\ CaptureLimit(max, longest) >= longest
<1> DEFINE q == (max + Len(Marker)) \div Len(Marker)
<1>1. q \in Nat
  BY MarkerTyped, Quotient
<1> HIDE DEF q
<1>2. q * longest \in Nat
  BY <1>1
<1>3. CASE longest > Len(Marker)
  <2>1. CaptureLimit(max, longest) = q * longest + longest - 1
    BY <1>3 DEF CaptureLimit, q
  <2>2. q >= 1
    <3>1. q * Len(Marker) >= max + 1
      BY MarkerTyped, Quotient DEF q
    <3>2. q # 0
      BY <3>1, MarkerTyped
    <3>3. QED
      BY <1>1, <3>2
  <2>3. q * longest >= 1
    BY <1>1, <2>2
  <2>4. QED
    BY <1>2, <2>1, <2>3
<1>4. CASE ~(longest > Len(Marker))
  BY <1>4 DEF CaptureLimit
<1>5. QED
  BY <1>3, <1>4

-------------------------------------------------------------------------------
(* The invariant: what a reader has kept is the beginning of what was      *)
(* written, up to the limit of the capture, and a report is made of it.    *)

TypeInv ==
  /\ secret \in Secrets /\ cap \in [Stream -> Nat]
  /\ written \in [Stream -> Text] /\ retained \in [Stream -> Text]

Limit(s) == CaptureLimit(cap[s], Longest[secret])

Kept(s) ==
  /\ Len(retained[s]) = IF Len(written[s]) <= Limit(s) THEN Len(written[s]) ELSE Limit(s)
  /\ \A p \in 1..Len(retained[s]) : retained[s][p] = written[s][p]

Outcome ==
  LET redacted == [s \in Stream |-> Redacted(retained[s], secret)]
      truncated == [s \in Stream |-> Len(redacted[s]) > cap[s]]
      left == [s \in Stream |-> SubSeq(redacted[s], 1, Cut(redacted[s], cap[s]))]
  IN IF Suppressed(redacted) THEN [verdict |-> "suppressed"]
     ELSE [verdict |-> "shown", truncated |-> truncated,
           text |-> [s \in Stream |-> Shown(left[s], truncated[s])]]

IInv ==
  /\ TypeInv
  /\ \A s \in Stream : Kept(s)
  /\ report = NotYet \/ report = Outcome

LEMMA InitIInv == Init => IInv
<1> SUFFICES ASSUME Init PROVE IInv
  OBVIOUS
<1>1. <<>> \in Text /\ Len(<<>>) = 0
  BY EmptySeq DEF Text
<1>2. TypeInv
  BY <1>1, OutputAssumption DEF Init, TypeInv
<1>3. ASSUME NEW s \in Stream PROVE Kept(s)
  <2>1. Limit(s) \in Nat
    BY <1>2, LongestIs, LimitTyped DEF TypeInv, Limit
  <2>2. QED
    BY <1>1, <2>1 DEF Init, Kept
<1>4. QED
  BY <1>2, <1>3 DEF Init, IInv

LEMMA WordsTyped == TypeInv => \A word \in Words : word \in Text
<1> SUFFICES ASSUME TypeInv, NEW word \in Words PROVE word \in Text
  OBVIOUS
<1>1. PICK whole \in Text : word \in Beginnings(whole)
  <2>1. \A k \in DOMAIN Forms[secret] : Forms[secret][k] \in Text
    BY FormsTyped DEF TypeInv
  <2>2. word \in Beginnings(Marker) \/ \E k \in DOMAIN Forms[secret] : word \in Beginnings(Forms[secret][k])
    BY DEF Words
  <2>3. QED
    BY <2>1, <2>2, MarkerTyped
<1>2. PICK n \in 1..Len(whole) : word = SubSeq(whole, 1, n)
  BY <1>1 DEF Beginnings
<1>3. n \in 0..Len(whole)
  BY LenProperties DEF Text
<1>4. QED
  BY <1>2, <1>3, Prefix

LEMMA WriteKeepsIInv == ASSUME IInv, NEW s \in Stream, Write(s) PROVE IInv'
<1> DEFINE old == retained[s]
           limit == Limit(s)
           room == limit - Len(old)
<1>1. PICK word \in Words :
        /\ written' = [written EXCEPT ![s] = written[s] \o word]
        /\ retained' = [retained EXCEPT ![s] =
             old \o SubSeq(word, 1, IF Len(word) < room THEN Len(word) ELSE room)]
  BY DEF Write, Limit
<1>2. secret' = secret /\ cap' = cap /\ report' = NotYet
  BY DEF Write, NotYet
<1>3. /\ secret \in Secrets /\ cap[s] \in Nat /\ written[s] \in Text /\ old \in Text /\ word \in Text
      /\ written \in [Stream -> Text] /\ retained \in [Stream -> Text] /\ cap \in [Stream -> Nat]
  BY WordsTyped DEF IInv, TypeInv
<1>4. limit \in Nat
  BY <1>3, LongestIs, LimitTyped DEF Limit
<1>5. Len(written[s]) \in Nat /\ Len(old) \in Nat /\ Len(word) \in Nat
  BY <1>3, LenProperties DEF Text
<1>6. Len(old) = IF Len(written[s]) <= limit THEN Len(written[s]) ELSE limit
  BY DEF IInv, Kept
<1> HIDE DEF limit
<1> DEFINE n == IF Len(word) < room THEN Len(word) ELSE room
<1>7. /\ n \in 0..Len(word)
      /\ Len(old) + n = IF Len(written[s]) + Len(word) <= limit
                          THEN Len(written[s]) + Len(word) ELSE limit
      /\ Len(old) + n <= Len(written[s]) + Len(word) /\ (n >= 1 => Len(old) = Len(written[s]))
  <2> DEFINE w == Len(written[s])
             d == Len(word)
             o == Len(old)
  <2>1. w \in Nat /\ d \in Nat /\ o \in Nat /\ o = IF w <= limit THEN w ELSE limit
    BY <1>5, <1>6
  <2> HIDE DEF w, d, o
  <2> DEFINE m == IF d < limit - o THEN d ELSE limit - o
  <2>2. /\ m \in 0..d /\ o + m = (IF w + d <= limit THEN w + d ELSE limit)
        /\ o <= w /\ o + m <= w + d /\ (m >= 1 => o = w)
    BY <1>4, <2>1
  <2>3. QED
    BY <2>2 DEF w, d, o
<1> DEFINE piece == SubSeq(word, 1, n)
<1>8. piece \in Text /\ Len(piece) = n /\ \A p \in 1..n : piece[p] = word[p]
  <2> HIDE DEF n
  <2>1. QED
    BY <1>3, <1>7, Prefix
<1>9. /\ old \o piece \in Text /\ Len(old \o piece) = Len(old) + n
      /\ \A p \in 1..(Len(old) + n) :
           (old \o piece)[p] = IF p <= Len(old) THEN old[p] ELSE piece[p - Len(old)]
  <2> HIDE DEF n, piece
  <2>1. QED
    BY <1>3, <1>8, ConcatProperties DEF Text
<1>10. /\ written[s] \o word \in Text /\ Len(written[s] \o word) = Len(written[s]) + Len(word)
       /\ \A p \in 1..(Len(written[s]) + Len(word)) :
            (written[s] \o word)[p] = IF p <= Len(written[s]) THEN written[s][p] ELSE word[p - Len(written[s])]
  BY <1>3, ConcatProperties DEF Text
<1> HIDE DEF piece
<1>11. written'[s] = written[s] \o word /\ retained'[s] = old \o piece
  BY <1>1, <1>3 DEF piece
<1>12. TypeInv'
  BY <1>1, <1>2, <1>3, <1>9, <1>10 DEF TypeInv, piece
<1>13. Kept(s)'
  <2>1. Limit(s)' = limit
    BY <1>2 DEF Limit, limit
  <2>2. Len(retained'[s]) = IF Len(written'[s]) <= limit THEN Len(written'[s]) ELSE limit
    <3> HIDE DEF n
    <3>1. QED
      BY <1>7, <1>9, <1>10, <1>11
  <2>3. ASSUME NEW p \in 1..Len(retained'[s]) PROVE retained'[s][p] = written'[s][p]
    <3>1. p \in 1..(Len(old) + n) /\ p \in 1..(Len(written[s]) + Len(word))
      <4> HIDE DEF n
      <4>1. QED
        BY <1>5, <1>7, <1>9, <1>11
    <3>2. CASE p <= Len(old)
      <4>1. old[p] = written[s][p] /\ p <= Len(written[s])
        <5>1. p \in 1..Len(old)
          BY <1>5, <3>1, <3>2
        <5>2. Len(old) <= Len(written[s])
          BY <1>4, <1>5, <1>6
        <5>3. QED
          BY <1>5, <5>1, <5>2 DEF IInv, Kept
      <4>2. QED
        BY <1>9, <1>10, <1>11, <3>1, <3>2, <4>1
    <3>3. CASE ~(p <= Len(old))
      <4>1. Len(old) = Len(written[s])
        <5> HIDE DEF n
        <5>1. n \in Nat /\ n >= 1
          BY <1>5, <1>7, <3>1, <3>3
        <5>2. QED
          BY <1>7, <5>1
      <4>2. p - Len(old) \in 1..n
        BY <1>5, <1>7, <3>1, <3>3
      <4>3. piece[p - Len(old)] = word[p - Len(old)]
        <5> HIDE DEF n
        <5>1. QED
          BY <1>8, <4>2
      <4>4. QED
        <5> HIDE DEF n
        <5>1. QED
          BY <1>9, <1>10, <1>11, <3>1, <3>3, <4>1, <4>3
    <3>4. QED
      BY <3>2, <3>3
  <2>4. QED
    BY <2>1, <2>2, <2>3 DEF Kept
<1>14. ASSUME NEW t \in Stream, t # s PROVE Kept(t)'
  <2>1. written'[t] = written[t] /\ retained'[t] = retained[t] /\ Limit(t)' = Limit(t)
    BY <1>1, <1>2, <1>3, <1>14 DEF Limit
  <2>2. QED
    BY <2>1 DEF IInv, Kept
<1>15. QED
  BY <1>2, <1>12, <1>13, <1>14 DEF IInv, NotYet

LEMMA ProcessKeepsIInv == IInv /\ Process => IInv'
BY DEF IInv, Process, TypeInv, Kept, Limit, Outcome, Suppressed

(* The reader keeps the beginning of what was written, up to its limit.    *)
THEOREM InvariantHolds == Spec => []IInv
<1>1. IInv /\ UNCHANGED vars => IInv'
  BY DEF IInv, vars, TypeInv, Kept, Limit, Outcome, Suppressed
<1>2. IInv /\ [Next]_vars => IInv'
  BY <1>1, WriteKeepsIInv, ProcessKeepsIInv DEF Next
<1>3. QED
  BY InitIInv, <1>2, PTL DEF Spec

-------------------------------------------------------------------------------

\* What a report shows, and why one is suppressed.
LEMMA Report ==
  ASSUME IInv, report.verdict \in {"shown", "suppressed"}
  PROVE  /\ \A s \in Stream : retained[s] \in Text /\ Redacted(retained[s], secret) \in Text
         /\ report.verdict = "suppressed" =>
              \E s \in Stream : ~Clean(Redacted(retained[s], secret), secret)
         /\ report.verdict = "shown" => \A s \in Stream :
              LET redacted == Redacted(retained[s], secret)
              IN /\ Clean(redacted, secret)
                 /\ report.truncated[s] = (Len(redacted) > cap[s])
                 /\ report.text[s] =
                      Shown(SubSeq(redacted, 1, Cut(redacted, cap[s])), Len(redacted) > cap[s])
<1>1. \A s \in Stream : retained[s] \in Text /\ Redacted(retained[s], secret) \in Text
  BY RedactedTyped DEF IInv, TypeInv
<1>2. report = Outcome
  BY DEF IInv, NotYet
<1> DEFINE redacted == [s \in Stream |-> Redacted(retained[s], secret)]
           truncated == [s \in Stream |-> Len(redacted[s]) > cap[s]]
           left == [s \in Stream |-> SubSeq(redacted[s], 1, Cut(redacted[s], cap[s]))]
<1>3. CASE Suppressed(redacted)
  <2>1. report = [verdict |-> "suppressed"]
    BY <1>2, <1>3 DEF Outcome
  <2>2. QED
    BY <1>1, <1>3, <2>1 DEF Suppressed
<1>4. CASE ~Suppressed(redacted)
  <2>1. report = [verdict |-> "shown", truncated |-> truncated,
                  text |-> [s \in Stream |-> Shown(left[s], truncated[s])]]
    BY <1>2, <1>4 DEF Outcome
  <2>2. QED
    BY <1>1, <1>4, <2>1 DEF Suppressed
<1>5. QED
  BY <1>3, <1>4

(* What is emitted of a stream has the bytes that are left, or U+FFFD in    *)
(* their place, and then the notice if it was truncated.                   *)
LEMMA ShownPointwise ==
  ASSUME NEW text \in Text, NEW truncated \in BOOLEAN
  PROVE  LET notice == IF truncated THEN Notice ELSE <<>>
         IN /\ Shown(text, truncated) \in Text
            /\ Len(Shown(text, truncated)) = Len(text) + Len(notice)
            /\ \A p \in 1..Len(text) : Shown(text, truncated)[p] \in {text[p], Replacement}
            /\ \A p \in (Len(text) + 1)..(Len(text) + Len(notice)) :
                 Shown(text, truncated)[p] = notice[p - Len(text)]
<1> DEFINE decoded == Decoded(text)
           notice == IF truncated THEN Notice ELSE <<>>
<1>1. DOMAIN text = 1..Len(text) /\ Len(text) \in Nat /\ \A p \in 1..Len(text) : text[p] \in Byte
  BY LenProperties, ElementOfSeq DEF Text
<1>2. /\ decoded \in [1..Len(text) -> Byte]
      /\ \A p \in 1..Len(text) : decoded[p] \in {text[p], Replacement}
  BY <1>1, OutputAssumption DEF Decoded
<1>3. decoded \in Text /\ Len(decoded) = Len(text)
  <2> HIDE DEF decoded
  <2>1. decoded \in Seq(Byte)
    BY <1>1, <1>2, SeqDef
  <2>2. QED
    BY <1>1, <1>2, <2>1, LenProperties DEF Text
<1>4. notice \in Text /\ Len(notice) \in Nat
  BY OutputAssumption, EmptySeq, LenProperties DEF Text
<1>5. Shown(text, truncated) = decoded \o notice
  BY DEF Shown
<1> HIDE DEF decoded, notice
<1>6. /\ decoded \o notice \in Text /\ Len(decoded \o notice) = Len(text) + Len(notice)
      /\ \A p \in 1..(Len(text) + Len(notice)) :
           (decoded \o notice)[p] = IF p <= Len(text) THEN decoded[p] ELSE notice[p - Len(text)]
  BY <1>3, <1>4, ConcatProperties DEF Text
<1>7. \A p \in 1..Len(text) : (decoded \o notice)[p] \in {text[p], Replacement}
  BY <1>1, <1>2, <1>4, <1>6
<1>8. \A p \in (Len(text) + 1)..(Len(text) + Len(notice)) :
        (decoded \o notice)[p] = notice[p - Len(text)]
  BY <1>1, <1>4, <1>6
<1>9. QED
  BY <1>5, <1>6, <1>7, <1>8 DEF notice

(* A form that is in what is emitted, and not in what was scanned, has      *)
(* U+FFFD in it or is made with the notice.                                *)
LEMMA OnlyAddedLater ==
  ASSUME NEW text \in Text, NEW truncated \in BOOLEAN, NEW form \in Text, Len(form) >= 1,
         \A i \in Nat \ {0} : ~At(text, i, form),
         Occurs(form, Shown(text, truncated)), Replacement \notin ToSet(form)
  PROVE  truncated /\ RunsIntoNotice(form)
<1> DEFINE shown == Shown(text, truncated)
           notice == IF truncated THEN Notice ELSE <<>>
           n == Len(text)
           l == Len(form)
<1>1. /\ shown \in Text /\ Len(shown) = n + Len(notice)
      /\ \A p \in 1..n : shown[p] \in {text[p], Replacement}
      /\ \A p \in (n + 1)..(n + Len(notice)) : shown[p] = notice[p - n]
  BY ShownPointwise
<1>2. n \in Nat /\ l \in Nat /\ Len(notice) \in Nat /\ Len(Notice) \in Nat /\ DOMAIN form = 1..l
      /\ DOMAIN Notice = 1..Len(Notice)
  BY OutputAssumption, EmptySeq, LenProperties DEF Text
<1>3. \A p \in 1..l : form[p] # Replacement
  BY <1>2 DEF ToSet
<1>4. PICK i \in Nat \ {0} : At(shown, i, form)
  <2> HIDE DEF shown
  <2>1. DOMAIN shown = 1..Len(shown)
    BY <1>1, LenProperties DEF Text
  <2>2. QED
    BY <1>1, <1>2, <2>1 DEF Occurs, shown
<1> HIDE DEF shown
<1>5. i + l - 1 <= n + Len(notice) /\ \A p \in 1..l : shown[i + p - 1] = form[p]
  <2>1. i + l - 1 <= Len(shown) /\ \A p \in 1..l : shown[i + p - 1] = form[p]
    BY <1>1, <1>4, AtPointwise
  <2>2. QED
    BY <1>1, <2>1
<1> HIDE DEF n, l, notice
<1>6. i + l - 1 > n
  <2>1. SUFFICES ASSUME i + l - 1 <= n PROVE FALSE
    BY <1>2
  <2>2. ASSUME NEW p \in 1..l PROVE text[i + p - 1] = form[p]
    <3>1. i + p - 1 \in 1..n
      BY <1>2, <2>1
    <3>2. QED
      BY <1>1, <1>3, <1>5, <3>1
  <2>3. At(text, i, form)
    BY <2>1, <2>2, AtPointwise DEF n, l
  <2>4. QED
    BY <2>3
<1>7. truncated /\ notice = Notice
  <2>1. SUFFICES ASSUME ~truncated PROVE FALSE
    BY DEF notice
  <2>2. Len(notice) = 0
    BY <2>1, EmptySeq DEF notice
  <2>3. QED
    BY <1>2, <1>5, <1>6, <2>2
<1> DEFINE d == i - 1 - n
<1>8. d \in (1 - l)..(Len(Notice) - l)
  BY <1>2, <1>5, <1>6, <1>7
<1>9. ASSUME NEW p \in 1..l, p + d \in 1..Len(Notice) PROVE form[p] = Notice[p + d]
  <2> DEFINE q == i + p - 1
  <2>1. q \in (n + 1)..(n + Len(notice)) /\ q - n = p + d
    BY <1>2, <1>7, <1>9
  <2>2. shown[q] = form[p]
    BY <1>5
  <2> HIDE DEF q, d
  <2>3. shown[q] = notice[q - n]
    BY <1>1, <2>1
  <2>4. QED
    BY <1>7, <2>1, <2>2, <2>3
<1>10. Agree(form, Notice, d)
  <2> HIDE DEF d
  <2>1. QED
    BY <1>2, <1>9 DEF Agree
<1>11. QED
  BY <1>7, <1>8, <1>10 DEF RunsIntoNotice, l

(* What is emitted shows a form of the secret only with the notice, or with *)
(* U+FFFD, that are added after the last scan - for any secret, escapes,   *)
(* marker, notice and limits, and whatever the child writes.               *)
THEOREM NothingLeaks == Spec => []NoFormShown
<1>1. IInv => NoFormShown
  <2> SUFFICES ASSUME IInv, report.verdict = "shown", NEW s \in Stream,
                      NEW k \in DOMAIN Forms[secret],
                      Occurs(Forms[secret][k], report.text[s]),
                      Replacement \notin ToSet(Forms[secret][k])
               PROVE  report.truncated[s] /\ RunsIntoNotice(Forms[secret][k])
    BY DEF NoFormShown
  <2> DEFINE redacted == Redacted(retained[s], secret)
  <2>1. /\ redacted \in Text /\ Clean(redacted, secret)
        /\ report.truncated[s] = (Len(redacted) > cap[s])
        /\ report.text[s] =
             Shown(SubSeq(redacted, 1, Cut(redacted, cap[s])), Len(redacted) > cap[s])
    BY Report
  <2>2. secret \in Secrets /\ cap[s] \in Nat
    BY DEF IInv, TypeInv
  <2>3. Cut(redacted, cap[s]) \in 0..Len(redacted)
    BY <2>1, <2>2, CutTyped
  <2> HIDE DEF redacted
  <2> DEFINE left == SubSeq(redacted, 1, Cut(redacted, cap[s]))
  <2>4. left \in Text /\ Clean(left, secret)
    BY <2>1, <2>2, <2>3, Prefix, CleanPrefix
  <2>5. Forms[secret][k] \in Text /\ Len(Forms[secret][k]) >= 1
    BY <2>2, FormsTyped
  <2> HIDE DEF left
  <2>6. \A i \in Nat \ {0} : ~At(left, i, Forms[secret][k])
    BY <2>2, <2>4, CleanPointwise
  <2>7. (Len(redacted) > cap[s]) \in BOOLEAN
    OBVIOUS
  <2>8. Occurs(Forms[secret][k], Shown(left, Len(redacted) > cap[s]))
    BY <2>1 DEF left
  <2>9. (Len(redacted) > cap[s]) /\ RunsIntoNotice(Forms[secret][k])
    BY <2>4, <2>5, <2>6, <2>7, <2>8, OnlyAddedLater
  <2>10. QED
    BY <2>1, <2>9
<1>2. QED
  BY <1>1, InvariantHolds, PTL

(* A stream is suppressed only for a secret that can lie over the marker:  *)
(* of any other no form survives a single pass.                            *)
THEOREM OnlyOverlapsAreSuppressed == Spec => []SuppressedForCause
<1>1. IInv => SuppressedForCause
  <2> SUFFICES ASSUME IInv, report.verdict = "suppressed", Apart PROVE FALSE
    BY DEF SuppressedForCause
  <2>1. PICK s \in Stream : ~Clean(Redacted(retained[s], secret), secret)
    BY Report
  <2>2. secret \in Secrets /\ retained[s] \in Text
    BY DEF IInv, TypeInv
  <2>3. QED
    BY <2>1, <2>2, OnePassIsEnough DEF Apart
<1>2. QED
  BY <1>1, InvariantHolds, PTL

-------------------------------------------------------------------------------
(* The bounded capture: the passes over what was kept and over all that    *)
(* was written go the same way until a form could reach over the end of    *)
(* what was kept, and by then have produced more than the cap.             *)

(* No copied byte begins a marker, unless the text itself contains one.    *)
LEMMA NoMarkerCopied ==
  ASSUME NEW text \in Text, NEW s \in Secrets, NEW rest, Scan(rest, text, s),
         NEW i \in 1..Len(text), Matching(text, i, s) = {}, ~Occurs(Marker, text)
  PROVE  ~At(rest[i], 1, Marker)
<1> SUFFICES ASSUME At(rest[i], 1, Marker) PROVE FALSE
  OBVIOUS
<1> DEFINE n == Len(Marker)
<1>1. /\ i \in 1..(Len(text) + 1) /\ i + 1 \in 1..(Len(text) + 1) /\ i \in Nat \ {0}
      /\ text[i] \in Byte /\ DOMAIN text = 1..Len(text)
  BY ElementOfSeq, LenProperties DEF Text
<1>2. rest[i] \in Text /\ rest[i + 1] \in Text
  BY <1>1, RestTyped
<1>3. rest[i] = <<text[i]>> \o rest[i + 1]
  BY ScanCopies
<1>4. Len(rest[i]) = Len(rest[i + 1]) + 1 /\ Len(rest[i + 1]) \in Nat
  BY <1>1, <1>2, <1>3, ByteThen
<1>5. 1 + n - 1 <= Len(rest[i]) /\ \A p \in 1..n : rest[i][1 + p - 1] = Marker[p]
  BY <1>2, MarkerTyped, AtPointwise
<1>6. n \in 1..Len(rest[i]) /\ n - 1 \in 0..Len(rest[i + 1])
  BY <1>4, <1>5, MarkerTyped
<1>7. Copied(rest, text, i + 1, n - 1, 1)
  BY <1>1, <1>6, CopiedUntilMarker
<1>8. Copied(rest, text, i, n, 2)
  BY <1>3, <1>6, <1>7, CopiedOne
<1>9. CASE i + n - 1 <= Len(text) /\ \A p \in 1..n : rest[i][p] = text[i + p - 1]
  <2>1. \A p \in 1..n : text[i + p - 1] = Marker[p]
    <3>1. \A p \in 1..n : 1 + p - 1 = p
      OBVIOUS
    <3>2. QED
      BY <1>5, <1>9, <3>1
  <2>2. At(text, i, Marker)
    BY <1>1, <1>9, <2>1, MarkerTyped, AtPointwise
  <2>3. QED
    BY <1>1, <2>2 DEF Occurs
<1>10. CASE \E q \in 2..n : At(rest[i], q, Marker)
  <2>1. PICK q \in 2..n : At(rest[i], q, Marker)
    BY <1>10
  <2>2. 1 + Len(Marker) <= q
    BY <1>2, <2>1, MarkersApart
  <2>3. QED
    BY <2>1, <2>2, MarkerTyped
<1>11. QED
  BY <1>8, <1>9, <1>10 DEF Copied

(* One text is a beginning of the other.                                   *)
Begins(u, w) == Len(u) <= Len(w) /\ \A p \in 1..Len(u) : u[p] = w[p]

LEMMA SameMatches ==
  ASSUME NEW u \in Text, NEW w \in Text, Begins(u, w), NEW s \in Secrets,
         NEW i \in Nat \ {0}, i + Longest[s] - 1 <= Len(u)
  PROVE  Matching(u, i, s) = Matching(w, i, s)
<1> SUFFICES ASSUME NEW k \in DOMAIN Forms[s]
             PROVE  At(u, i, Forms[s][k]) <=> At(w, i, Forms[s][k])
  BY DEF Matching
<1> DEFINE form == Forms[s][k]
<1>1. form \in Text /\ Len(form) \in Nat /\ Len(form) <= Longest[s] /\ Longest[s] \in Nat
  BY FormsTyped, LongestIs
<1>2. Len(u) \in Nat /\ Len(w) \in Nat /\ Len(u) <= Len(w)
  BY LenProperties DEF Text, Begins
<1>3. i + Len(form) - 1 <= Len(u) /\ i + Len(form) - 1 <= Len(w)
  BY <1>1, <1>2
<1>4. \A p \in 1..Len(form) : i + p - 1 \in 1..Len(u)
  BY <1>1, <1>2, <1>3
<1>5. \A p \in 1..Len(form) : u[i + p - 1] = w[i + p - 1]
  BY <1>4 DEF Begins
<1> HIDE DEF form
<1>6. At(u, i, form) <=> \A p \in 1..Len(form) : u[i + p - 1] = form[p]
  BY <1>1, <1>3, AtPointwise
<1>7. At(w, i, form) <=> \A p \in 1..Len(form) : w[i + p - 1] = form[p]
  BY <1>1, <1>3, AtPointwise
<1>8. QED
  BY <1>5, <1>6, <1>7 DEF form

LEMMA NoMarkerInBeginning ==
  ASSUME NEW u \in Text, NEW w \in Text, Begins(u, w), ~Occurs(Marker, w)
  PROVE  ~Occurs(Marker, u)
<1>1. Len(u) \in Nat /\ Len(w) \in Nat /\ DOMAIN u = 1..Len(u) /\ DOMAIN w = 1..Len(w)
      /\ Len(u) <= Len(w)
  BY LenProperties DEF Text, Begins
<1>2. SUFFICES ASSUME NEW i \in 1..Len(u), At(u, i, Marker) PROVE At(w, i, Marker)
  BY <1>1 DEF Occurs
<1>3. i + Len(Marker) - 1 <= Len(u) /\ \A p \in 1..Len(Marker) : u[i + p - 1] = Marker[p]
  BY <1>2, MarkerTyped, AtPointwise
<1>4. \A p \in 1..Len(Marker) : i + p - 1 \in 1..Len(u)
  BY <1>1, <1>3, MarkerTyped
<1>5. \A p \in 1..Len(Marker) : u[i + p - 1] = w[i + p - 1]
  BY <1>4 DEF Begins
<1>6. i + Len(Marker) - 1 <= Len(w)
  BY <1>1, <1>3, MarkerTyped
<1>7. QED
  BY <1>3, <1>5, <1>6, MarkerTyped, AtPointwise

(* Two outputs have their first n bytes in common, and the markers that    *)
(* begin there.                                                            *)
Shared(a, b, n) == n <= Len(a) /\ n <= Len(b) /\ \A p \in 1..n : a[p] = b[p]
SameMarkers(a, b, n) == \A p \in 1..n : At(a, p, Marker) <=> At(b, p, Marker)

LEMMA SharedLater ==
  ASSUME NEW a \in Text, NEW t \in Text, NEW v \in Text, NEW n \in Nat, Shared(t, v, n)
  PROVE  /\ Shared(a \o t, a \o v, Len(a) + n)
         /\ SameMarkers(t, v, n) /\ SameMarkers(a \o t, a \o v, Len(a))
              => SameMarkers(a \o t, a \o v, Len(a) + n)
<1>1. Len(a) \in Nat /\ Len(t) \in Nat /\ Len(v) \in Nat
  BY LenProperties DEF Text
<1>2. /\ Len(a \o t) = Len(a) + Len(t)
      /\ \A p \in 1..(Len(a) + Len(t)) : (a \o t)[p] = IF p <= Len(a) THEN a[p] ELSE t[p - Len(a)]
  BY ConcatProperties DEF Text
<1>3. /\ Len(a \o v) = Len(a) + Len(v)
      /\ \A p \in 1..(Len(a) + Len(v)) : (a \o v)[p] = IF p <= Len(a) THEN a[p] ELSE v[p - Len(a)]
  BY ConcatProperties DEF Text
<1>4. n <= Len(t) /\ n <= Len(v) /\ \A p \in 1..n : t[p] = v[p]
  BY DEF Shared
<1>5. ASSUME NEW p \in 1..(Len(a) + n) PROVE (a \o t)[p] = (a \o v)[p]
  <2>1. p \in 1..(Len(a) + Len(t)) /\ p \in 1..(Len(a) + Len(v))
    BY <1>1, <1>4
  <2>2. ~(p <= Len(a)) => p - Len(a) \in 1..n
    BY <1>1
  <2>3. QED
    BY <1>2, <1>3, <1>4, <2>1, <2>2
<1>6. Shared(a \o t, a \o v, Len(a) + n)
  <2>1. Len(a) + n <= Len(a \o t) /\ Len(a) + n <= Len(a \o v)
    BY <1>1, <1>2, <1>3, <1>4
  <2>2. QED
    BY <1>5, <2>1 DEF Shared
<1>7. ASSUME SameMarkers(t, v, n), SameMarkers(a \o t, a \o v, Len(a)), NEW p \in 1..(Len(a) + n)
      PROVE  At(a \o t, p, Marker) <=> At(a \o v, p, Marker)
  <2>1. CASE p <= Len(a)
    <3>1. p \in 1..Len(a)
      BY <1>1, <2>1
    <3>2. QED
      BY <1>7, <3>1 DEF SameMarkers
  <2>2. CASE ~(p <= Len(a))
    <3> DEFINE q == p - Len(a)
    <3>1. q \in 1..n /\ q \in Nat \ {0} /\ Len(a) + q = p
      BY <1>1, <2>2
    <3>2. At(t, q, Marker) <=> At(v, q, Marker)
      BY <1>7, <3>1 DEF SameMarkers
    <3>3. At(a \o t, Len(a) + q, Marker) <=> At(t, q, Marker)
      BY <3>1, MarkerTyped, AtLater
    <3>4. At(a \o v, Len(a) + q, Marker) <=> At(v, q, Marker)
      BY <3>1, MarkerTyped, AtLater
    <3>5. QED
      BY <3>1, <3>2, <3>3, <3>4
  <2>3. QED
    BY <2>1, <2>2
<1>8. QED
  BY <1>6, <1>7 DEF SameMarkers

(* n bytes are as many as c bytes become when each longest form shrinks to *)
(* a marker.                                                               *)
Enough(n, c, longest) == IF longest > Len(Marker) THEN n * longest >= c * Len(Marker) ELSE n >= c

LEMMA EnoughForOne ==
  ASSUME NEW n \in Nat, NEW c \in Int, NEW longest \in Nat, Enough(n, c - 1, longest)
  PROVE  Enough(1 + n, c, longest)
<1>1. CASE longest > Len(Marker)
  <2>1. n * longest >= (c - 1) * Len(Marker)
    BY <1>1 DEF Enough
  <2>2. (1 + n) * longest = longest + n * longest
    OBVIOUS
  <2>3. (c - 1) * Len(Marker) = c * Len(Marker) - Len(Marker)
    BY MarkerTyped
  <2>4. n * longest \in Int /\ c * Len(Marker) \in Int
    BY MarkerTyped
  <2>5. (1 + n) * longest >= c * Len(Marker)
    BY <1>1, <2>1, <2>2, <2>3, <2>4, MarkerTyped
  <2>6. QED
    BY <1>1, <2>5 DEF Enough
<1>2. CASE ~(longest > Len(Marker))
  BY <1>2 DEF Enough
<1>3. QED
  BY <1>1, <1>2

LEMMA EnoughForMarker ==
  ASSUME NEW n \in Nat, NEW c \in Int, NEW longest \in Nat, NEW l \in 1..longest,
         Enough(n, c - l, longest)
  PROVE  Enough(Len(Marker) + n, c, longest)
<1> DEFINE m == Len(Marker)
<1>0. m \in Nat /\ m >= 1
  BY MarkerTyped
<1> HIDE DEF m
<1>1. CASE longest > m
  <2>1. n * longest >= (c - l) * m
    BY <1>1 DEF Enough, m
  <2>2. (m + n) * longest = m * longest + n * longest
    BY <1>0
  <2>3. (c - l) * m = c * m - l * m
    BY <1>0
  <2>4. l * m <= m * longest
    BY <1>0
  <2>5. n * longest \in Int /\ c * m \in Int /\ l * m \in Int /\ m * longest \in Int
    BY <1>0
  <2>6. (m + n) * longest >= c * m
    BY <2>1, <2>2, <2>3, <2>4, <2>5
  <2>7. QED
    BY <1>1, <2>6 DEF Enough, m
<1>2. CASE ~(longest > m)
  BY <1>0, <1>2 DEF Enough, m
<1>3. QED
  BY <1>1, <1>2

(* What the passes over a beginning u of w and over w itself have in common *)
(* from position i on.                                                      *)
InCommon(ru, rw, u, w, s, i) ==
  \E n \in Nat :
    /\ Shared(ru[i], rw[i], n)
    /\ ~Occurs(Marker, w) => SameMarkers(ru[i], rw[i], n)
    /\ Enough(n, Len(u) - Longest[s] + 2 - i, Longest[s])

LEMMA InCommonCopy ==
  ASSUME NEW u \in Text, NEW w \in Text, Begins(u, w), NEW s \in Secrets,
         NEW ru, NEW rw, Scan(ru, u, s), Scan(rw, w, s),
         NEW i \in 1..Len(u), i + Longest[s] - 1 <= Len(u), Matching(u, i, s) = {},
         InCommon(ru, rw, u, w, s, i + 1)
  PROVE  InCommon(ru, rw, u, w, s, i)
<1>1. PICK n \in Nat :
        /\ Shared(ru[i + 1], rw[i + 1], n)
        /\ ~Occurs(Marker, w) => SameMarkers(ru[i + 1], rw[i + 1], n)
        /\ Enough(n, Len(u) - Longest[s] + 2 - (i + 1), Longest[s])
  BY DEF InCommon
<1>2. Len(u) \in Nat /\ Len(w) \in Nat /\ Len(u) <= Len(w) /\ u[i] = w[i] /\ u[i] \in Byte
  BY ElementOfSeq, LenProperties DEF Text, Begins
<1>3. i \in Nat \ {0} /\ i \in 1..Len(w) /\ i + 1 \in 1..(Len(u) + 1) /\ i + 1 \in 1..(Len(w) + 1)
  BY <1>2
<1>4. Matching(w, i, s) = {}
  BY <1>3, SameMatches
<1>5. ru[i] = <<u[i]>> \o ru[i + 1] /\ rw[i] = <<u[i]>> \o rw[i + 1]
  <2>1. ru[i] = <<u[i]>> \o ru[i + 1]
    BY ScanCopies
  <2>2. rw[i] = <<w[i]>> \o rw[i + 1]
    BY <1>3, <1>4, ScanCopies
  <2>3. QED
    BY <1>2, <2>1, <2>2
<1>6. ru[i + 1] \in Text /\ rw[i + 1] \in Text /\ <<u[i]>> \in Text /\ Len(<<u[i]>>) = 1
  <2>1. ru[i + 1] \in Text
    BY <1>3, RestTyped
  <2>2. rw[i + 1] \in Text
    BY <1>3, RestTyped
  <2>3. QED
    BY <1>2, <2>1, <2>2 DEF Text
<1>7. Shared(ru[i], rw[i], 1 + n)
  BY <1>1, <1>5, <1>6, SharedLater
<1>8. ASSUME ~Occurs(Marker, w) PROVE SameMarkers(ru[i], rw[i], 1 + n)
  <2>1. ~At(ru[i], 1, Marker)
    BY <1>8, NoMarkerInBeginning, NoMarkerCopied
  <2>2. ~At(rw[i], 1, Marker)
    BY <1>3, <1>4, <1>8, NoMarkerCopied
  <2>3. SameMarkers(ru[i], rw[i], 1)
    BY <2>1, <2>2 DEF SameMarkers
  <2>4. QED
    BY <1>1, <1>5, <1>6, <1>8, <2>3, SharedLater
<1>9. Enough(1 + n, Len(u) - Longest[s] + 2 - i, Longest[s])
  <2> DEFINE c == Len(u) - Longest[s] + 2 - i
  <2>0. Longest[s] \in Nat /\ i \in Nat
    BY LongestIs
  <2>1. c \in Int /\ Len(u) - Longest[s] + 2 - (i + 1) = c - 1 /\ Longest[s] \in Nat
    BY ONLY <1>2, <2>0
  <2> HIDE DEF c
  <2>2. QED
    BY <1>1, <2>1, EnoughForOne DEF c
<1>10. 1 + n \in Nat
  OBVIOUS
<1>11. QED
  BY <1>7, <1>8, <1>9, <1>10 DEF InCommon

LEMMA InCommonReplace ==
  ASSUME NEW u \in Text, NEW w \in Text, Begins(u, w), NEW s \in Secrets,
         NEW ru, NEW rw, Scan(ru, u, s), Scan(rw, w, s),
         NEW i \in 1..Len(u), i + Longest[s] - 1 <= Len(u), Matching(u, i, s) # {},
         \A j \in (i + 1)..(Len(u) + 1) : InCommon(ru, rw, u, w, s, j)
  PROVE  InCommon(ru, rw, u, w, s, i)
<1> DEFINE form == Forms[s][Min(Matching(u, i, s))]
           j == i + Len(form)
<1>1. Len(form) \in Nat /\ Len(form) >= 1 /\ Len(form) <= Longest[s] /\ Longest[s] \in Nat
      /\ j \in (i + 1)..(Len(u) + 1)
  BY FirstMatch, LongestIs
<1>2. PICK n \in Nat :
        /\ Shared(ru[j], rw[j], n)
        /\ ~Occurs(Marker, w) => SameMarkers(ru[j], rw[j], n)
        /\ Enough(n, Len(u) - Longest[s] + 2 - j, Longest[s])
  BY <1>1 DEF InCommon
<1>3. Len(u) \in Nat /\ Len(w) \in Nat /\ Len(u) <= Len(w)
  BY LenProperties DEF Text, Begins
<1>4. i \in Nat \ {0} /\ i \in 1..Len(w) /\ j \in 1..(Len(u) + 1) /\ j \in 1..(Len(w) + 1)
  BY <1>1, <1>3
<1>5. Matching(w, i, s) = Matching(u, i, s)
  BY <1>4, SameMatches
<1>6. ru[i] = Marker \o ru[j] /\ rw[i] = Marker \o rw[j]
  <2>1. ru[i] = Marker \o ru[j]
    BY ScanReplaces
  <2>2. rw[i] = Marker \o rw[i + Len(Forms[s][Min(Matching(w, i, s))])]
    BY <1>4, <1>5, ScanReplaces
  <2>3. QED
    BY <1>5, <2>1, <2>2
<1>7. ru[j] \in Text /\ rw[j] \in Text
  <2> HIDE DEF j
  <2>1. ru[j] \in Text
    BY <1>4, RestTyped
  <2>2. rw[j] \in Text
    BY <1>4, RestTyped
  <2>3. QED
    BY <2>1, <2>2
<1> HIDE DEF j
<1>8. Shared(ru[i], rw[i], Len(Marker) + n)
  BY <1>2, <1>6, <1>7, MarkerTyped, SharedLater
<1>9. ASSUME ~Occurs(Marker, w) PROVE SameMarkers(ru[i], rw[i], Len(Marker) + n)
  <2>1. /\ ru[i] \in Text /\ At(ru[i], 1, Marker)
        /\ rw[i] \in Text /\ At(rw[i], 1, Marker)
    BY <1>6, <1>7, MarkerThen
  <2>2. ASSUME NEW p \in 1..Len(Marker), p # 1
        PROVE  ~At(ru[i], p, Marker) /\ ~At(rw[i], p, Marker)
    <3>1. p \in Nat \ {0} /\ 1 < p /\ ~(1 + Len(Marker) <= p)
      BY <2>2, MarkerTyped
    <3>2. QED
      BY <2>1, <3>1, MarkersApart
  <2>3. SameMarkers(ru[i], rw[i], Len(Marker))
    BY <2>1, <2>2 DEF SameMarkers
  <2>4. QED
    BY <1>2, <1>6, <1>7, <1>9, <2>3, MarkerTyped, SharedLater
<1>10. Enough(Len(Marker) + n, Len(u) - Longest[s] + 2 - i, Longest[s])
  <2> DEFINE c == Len(u) - Longest[s] + 2 - i
  <2>0. i \in Nat /\ j = i + Len(form)
    BY DEF j
  <2> HIDE DEF form
  <2>1. c \in Int /\ Len(u) - Longest[s] + 2 - j = c - Len(form) /\ Len(form) \in 1..Longest[s]
    BY ONLY <1>1, <1>3, <2>0
  <2> HIDE DEF c
  <2>2. QED
    BY <1>1, <1>2, <2>1, EnoughForMarker DEF c
<1>11. Len(Marker) + n \in Nat
  BY MarkerTyped
<1>12. QED
  BY <1>8, <1>9, <1>10, <1>11 DEF InCommon

LEMMA ScansInCommon ==
  ASSUME NEW u \in Text, NEW w \in Text, Begins(u, w), NEW s \in Secrets,
         NEW ru, NEW rw, Scan(ru, u, s), Scan(rw, w, s)
  PROVE  InCommon(ru, rw, u, w, s, 1)
<1> DEFINE T == {i \in 1..(Len(u) + 1) : InCommon(ru, rw, u, w, s, i)}
<1>1. Len(u) \in Nat /\ Len(w) \in Nat /\ Len(u) <= Len(w) /\ Longest[s] \in Nat /\ Longest[s] >= 1
  BY LongestIs, LenProperties DEF Text, Begins
<1>2. ASSUME NEW i \in 1..(Len(u) + 1), ~(i + Longest[s] - 1 <= Len(u))
      PROVE  InCommon(ru, rw, u, w, s, i)
  <2> DEFINE c == Len(u) - Longest[s] + 2 - i
  <2>1. c \in Int /\ c <= 0
    BY <1>1, <1>2
  <2>2. i \in 1..(Len(w) + 1)
    BY <1>1
  <2>3. Shared(ru[i], rw[i], 0) /\ SameMarkers(ru[i], rw[i], 0)
    <3>1. ru[i] \in Text
      BY RestTyped
    <3>2. rw[i] \in Text
      BY <2>2, RestTyped
    <3>3. 0 <= Len(ru[i]) /\ 0 <= Len(rw[i])
      BY <3>1, <3>2, LenProperties DEF Text
    <3>4. QED
      BY <3>3 DEF Shared, SameMarkers
  <2> HIDE DEF c
  <2>4. Enough(0, c, Longest[s])
    <3>1. c * Len(Marker) <= 0 /\ 0 * Longest[s] = 0
      BY <1>1, <2>1, MarkerTyped
    <3>2. QED
      BY <2>1, <3>1 DEF Enough
  <2>5. QED
    BY <2>3, <2>4 DEF InCommon, c
<1>3. Len(u) + 1 \in T
  <2>1. Len(u) + 1 \in 1..(Len(u) + 1) /\ ~((Len(u) + 1) + Longest[s] - 1 <= Len(u))
    BY <1>1
  <2>2. QED
    BY <1>2, <2>1
<1>4. ASSUME NEW i \in 1..Len(u), \A j \in (i + 1)..(Len(u) + 1) : j \in T
      PROVE  i \in T
  <2>1. i \in 1..(Len(u) + 1) /\ i + 1 \in (i + 1)..(Len(u) + 1)
    BY <1>1
  <2>2. \A j \in (i + 1)..(Len(u) + 1) : InCommon(ru, rw, u, w, s, j)
    BY <1>4
  <2>3. InCommon(ru, rw, u, w, s, i)
    <3> HIDE DEF T
    <3>1. CASE ~(i + Longest[s] - 1 <= Len(u))
      BY <1>2, <2>1, <3>1
    <3>2. CASE i + Longest[s] - 1 <= Len(u) /\ Matching(u, i, s) = {}
      BY <2>1, <2>2, <3>2, InCommonCopy
    <3>3. CASE i + Longest[s] - 1 <= Len(u) /\ Matching(u, i, s) # {}
      BY <2>2, <3>3, InCommonReplace
    <3>4. QED
      BY <3>1, <3>2, <3>3
  <2>4. QED
    BY <2>1, <2>3
<1>5. 1..(Len(u) + 1) \subseteq T
  <2> HIDE DEF T
  <2>1. QED
    BY <1>1, <1>3, <1>4, Backwards
<1>6. QED
  <2>1. 1 \in 1..(Len(u) + 1)
    BY <1>1
  <2>2. QED
    BY <1>5, <2>1

-------------------------------------------------------------------------------
(* The limit.                                                              *)

LEMMA FittingIsCut ==
  ASSUME NEW text \in Text, NEW max \in Nat
  PROVE  Fitting(text, max) = SubSeq(text, 1, Cut(text, max))
<1> DEFINE split == {j \in 1..max : j + Len(Marker) - 1 > max /\ At(text, j, Marker)}
           whole == {n \in 0..Len(text) :
             n <= max /\ \A j \in 1..n : At(text, j, Marker) => j + Len(Marker) - 1 <= n}
           cut == Cut(text, max)
<1>1. Len(text) \in Nat /\ cut \in 0..Len(text) /\ cut <= max
  BY CutTyped, LenProperties DEF Text
<1>2. cut \in whole /\ \A n \in whole : n <= cut
  <2>1. CASE Len(text) <= max
    <3>1. cut = Len(text)
      BY <2>1 DEF Cut
    <3>2. \A j \in 1..Len(text) : At(text, j, Marker) => j + Len(Marker) - 1 <= Len(text)
      BY MarkerTyped, AtPointwise
    <3> HIDE DEF cut
    <3>3. QED
      BY <1>1, <2>1, <3>1, <3>2
  <2>2. CASE ~(Len(text) <= max) /\ split = {}
    <3>1. cut = max
      BY <2>2 DEF Cut
    <3>2. \A j \in 1..max : At(text, j, Marker) => j + Len(Marker) - 1 <= max
      BY <2>2, MarkerTyped
    <3> HIDE DEF cut
    <3>3. QED
      BY <1>1, <2>2, <3>1, <3>2
  <2>3. CASE ~(Len(text) <= max) /\ split # {}
    <3> DEFINE first == Min(split)
    <3>1. cut = first - 1
      BY <2>3 DEF Cut
    <3>2. first \in split /\ \A j \in split : first <= j
      <4>1. split \subseteq Nat
        OBVIOUS
      <4>2. QED
        BY <2>3, <4>1, Smallest
    <3>3. first \in 1..max /\ first + Len(Marker) - 1 > max /\ At(text, first, Marker)
      BY <3>2
    <3>4. ASSUME NEW j \in 1..(first - 1), At(text, j, Marker)
          PROVE  j + Len(Marker) - 1 <= first - 1
      <4>1. j \in Nat \ {0} /\ first \in Nat \ {0} /\ j < first
        BY <3>3
      <4> HIDE DEF first
      <4>2. j + Len(Marker) <= first
        BY <3>3, <3>4, <4>1, MarkersApart
      <4>3. QED
        BY <4>1, <4>2, MarkerTyped
    <3>5. ASSUME NEW n \in whole PROVE n <= first - 1
      <4>1. SUFFICES ASSUME n >= first PROVE FALSE
        BY <3>3
      <4>2. n \in Nat /\ n <= max /\ first \in 1..n
        BY <3>3, <4>1
      <4>3. first + Len(Marker) - 1 <= n
        BY <3>3, <4>2
      <4>4. QED
        BY <3>3, <4>2, <4>3, MarkerTyped
    <3>6. first - 1 \in whole
      BY <1>1, <3>1, <3>4
    <3>7. QED
      BY <3>1, <3>5, <3>6
  <2>4. QED
    BY <2>1, <2>2, <2>3
<1>3. Max(whole) = cut
  <2> HIDE DEF cut
  <2>1. whole \subseteq Int
    BY <1>1
  <2> HIDE DEF whole
  <2>2. \A n \in whole : (\A m \in whole : n >= m) => n = cut
    BY <1>1, <1>2, <2>1
  <2>3. \A m \in whole : cut >= m
    BY <1>1, <1>2, <2>1
  <2>4. QED
    BY <1>2, <2>2, <2>3 DEF Max
<1>4. QED
  BY <1>3 DEF Fitting

LEMMA SameCut ==
  ASSUME NEW a \in Text, NEW b \in Text, NEW max \in Nat, Len(a) > max, Len(b) > max,
         SameMarkers(a, b, max)
  PROVE  Cut(a, max) = Cut(b, max)
<1> DEFINE split(t) == {j \in 1..max : j + Len(Marker) - 1 > max /\ At(t, j, Marker)}
<1>1. split(a) = split(b)
  BY DEF SameMarkers
<1>2. ~(Len(a) <= max) /\ ~(Len(b) <= max)
  BY LenProperties DEF Text
<1>3. Cut(a, max) = IF split(a) = {} THEN max ELSE Min(split(a)) - 1
  BY <1>2 DEF Cut
<1>4. Cut(b, max) = IF split(b) = {} THEN max ELSE Min(split(b)) - 1
  BY <1>2 DEF Cut
<1> HIDE DEF split
<1>5. QED
  BY <1>1, <1>3, <1>4

(* A capture that is not complete is still long enough.                    *)
LEMMA CaptureSuffices ==
  ASSUME NEW s \in Secrets, NEW max \in Nat, NEW n \in Nat,
         Enough(n, CaptureLimit(max, Longest[s]) - Longest[s] + 1, Longest[s])
  PROVE  n >= max + 1
<1> DEFINE q == (max + Len(Marker)) \div Len(Marker)
           m == Len(Marker)
           l == Longest[s]
<1>1. q \in Nat /\ q * m >= max + 1 /\ m \in Nat /\ m >= 1 /\ l \in Nat /\ l >= 1
  BY MarkerTyped, Quotient, LongestIs
<1>2. CASE l > m
  <2>1. CaptureLimit(max, l) = q * l + l - 1
    BY <1>2 DEF CaptureLimit
  <2>2. Enough(n, CaptureLimit(max, l) - l + 1, l)
    OBVIOUS
  <2> HIDE DEF q, m, l
  <2>3. q * l \in Nat
    BY <1>1
  <2>4. CaptureLimit(max, l) - l + 1 = q * l
    BY <1>1, <2>1, <2>3
  <2>5. n * l >= (q * l) * m
    BY <1>2, <2>2, <2>4 DEF Enough, m
  <2>6. (q * l) * m = (q * m) * l
    BY <1>1
  <2>7. q * m \in Nat
    BY <1>1
  <2>8. n >= q * m
    <3>1. SUFFICES ASSUME n < q * m PROVE FALSE
      BY <2>7
    <3>2. n + 1 <= q * m
      BY <2>7, <3>1
    <3>3. (n + 1) * l <= (q * m) * l
      BY <1>1, <2>7, <3>2
    <3>4. (n + 1) * l = n * l + l /\ n * l \in Nat
      BY <1>1
    <3>5. QED
      BY <1>1, <2>5, <2>6, <3>3, <3>4
  <2>9. QED
    BY <1>1, <2>7, <2>8
<1>3. CASE ~(l > m)
  <2>1. CaptureLimit(max, l) = max + l
    BY <1>3 DEF CaptureLimit
  <2>2. n >= CaptureLimit(max, l) - l + 1
    BY <1>3 DEF Enough
  <2> HIDE DEF l
  <2>3. QED
    BY <1>1, <2>1, <2>2
<1>4. QED
  BY <1>2, <1>3

(* What is left of a stream, and whether it is said to be truncated, is     *)
(* what the pipeline would make of the whole stream.                       *)
LEMMA StreamInvisible ==
  ASSUME NEW u \in Text, NEW w \in Text, NEW s \in Secrets, NEW max \in Nat,
         Len(u) = IF Len(w) <= CaptureLimit(max, Longest[s]) THEN Len(w)
                  ELSE CaptureLimit(max, Longest[s]),
         \A p \in 1..Len(u) : u[p] = w[p]
  PROVE  LET red == Pass(u, s)
             ideal == Pass(w, s)
             cut == Cut(red, max)
             shown == SubSeq(red, 1, cut)
         IN /\ (Len(red) > max) = (Len(ideal) > max)
            /\ cut \in 0..max /\ cut <= Len(ideal) /\ shown = SubSeq(ideal, 1, cut)
            /\ ~Occurs(Marker, w) => shown = Fitting(ideal, max)
<1> DEFINE red == Pass(u, s)
           ideal == Pass(w, s)
           limit == CaptureLimit(max, Longest[s])
           cut == Cut(red, max)
           shown == SubSeq(red, 1, cut)
<1>1. red \in Text /\ ideal \in Text
  BY PassTyped
<1>2. Len(red) \in Nat /\ Len(ideal) \in Nat /\ Len(u) \in Nat /\ Len(w) \in Nat
  BY <1>1, LenProperties DEF Text
<1>3. cut \in 0..Len(red) /\ cut <= max
  BY <1>1, CutTyped
<1>4. shown \in Text /\ Len(shown) = cut /\ \A p \in 1..cut : shown[p] = red[p]
  <2> HIDE DEF red, cut
  <2>1. QED
    BY <1>1, <1>3, Prefix
<1>5. limit \in Nat
  BY LongestIs, LimitTyped
<1>6. CASE Len(w) <= limit
  <2>1. u = w
    BY <1>6, SeqEqual DEF Text
  <2>2. red = ideal
    BY <2>1
  <2>3. shown = Fitting(ideal, max)
    BY <1>1, <2>2, FittingIsCut
  <2>4. shown = SubSeq(ideal, 1, cut)
    BY <2>2
  <2> HIDE DEF red, ideal, cut, shown
  <2>5. cut \in 0..max /\ cut <= Len(ideal)
    BY <1>2, <1>3, <2>2
  <2>6. QED
    BY <2>2, <2>3, <2>4, <2>5 DEF red, ideal, cut, shown
<1>7. CASE ~(Len(w) <= limit)
  <2>1. Len(u) = limit /\ Begins(u, w)
    BY <1>2, <1>5, <1>7 DEF Begins
  <2>2. PICK ru : Scan(ru, u, s) /\ red = ru[1]
    BY ScanExists
  <2>3. PICK rw : Scan(rw, w, s) /\ ideal = rw[1]
    BY ScanExists
  <2>4. InCommon(ru, rw, u, w, s, 1)
    BY <2>1, <2>2, <2>3, ScansInCommon
  <2>5. PICK n \in Nat :
          /\ Shared(red, ideal, n)
          /\ ~Occurs(Marker, w) => SameMarkers(red, ideal, n)
          /\ Enough(n, Len(u) - Longest[s] + 2 - 1, Longest[s])
    BY <2>2, <2>3, <2>4 DEF InCommon
  <2>6. n >= max + 1
    <3>1. Len(u) - Longest[s] + 2 - 1 = limit - Longest[s] + 1
      BY <1>5, <2>1, LongestIs
    <3>2. QED
      BY <2>5, <3>1, CaptureSuffices
  <2>7. Len(red) > max /\ Len(ideal) > max /\ \A p \in 1..(max + 1) : red[p] = ideal[p]
    BY <1>2, <2>5, <2>6 DEF Shared
  <2> HIDE DEF red, ideal, limit, cut, shown
  <2>8. cut \in 0..Len(ideal)
    BY <1>2, <1>3, <2>7
  <2>9. shown = SubSeq(ideal, 1, cut)
    <3>1. /\ SubSeq(ideal, 1, cut) \in Text /\ Len(SubSeq(ideal, 1, cut)) = cut
          /\ \A p \in 1..cut : SubSeq(ideal, 1, cut)[p] = ideal[p]
      BY <1>1, <2>8, Prefix
    <3>2. \A p \in 1..cut : shown[p] = ideal[p]
      <4>1. \A p \in 1..cut : p \in 1..(max + 1)
        BY <1>3
      <4>2. QED
        BY <1>4, <2>7, <4>1
    <3>3. QED
      BY <1>4, <3>1, <3>2, SeqEqual DEF Text
  <2>10. cut \in 0..max /\ cut <= Len(ideal)
    BY <1>2, <1>3, <2>8
  <2>11. ASSUME ~Occurs(Marker, w) PROVE shown = Fitting(ideal, max)
    <3>1. SameMarkers(red, ideal, max)
      BY <2>5, <2>6, <2>11 DEF SameMarkers
    <3>2. cut = Cut(ideal, max)
      BY <1>1, <2>7, <3>1, SameCut DEF cut
    <3>3. QED
      BY <1>1, <2>9, <3>2, FittingIsCut
  <2>12. QED
    BY <1>2, <2>7, <2>9, <2>10, <2>11 DEF red, ideal, cut, shown
<1>8. QED
  BY <1>6, <1>7

(* The bounded capture cannot be seen in the report, for any secret, any   *)
(* escapes, any cap, and whatever the child writes.                        *)
THEOREM TheCaptureIsInvisible == Spec => []CaptureIsInvisible
<1>1. IInv => CaptureIsInvisible
  <2> SUFFICES ASSUME IInv, report.verdict = "shown", Apart, NEW s \in Stream
               PROVE  LET ideal == Pass(written[s], secret)
                          long == Len(ideal) > cap[s]
                      IN /\ report.truncated[s] = long
                         /\ \E n \in 0..cap[s] :
                              n <= Len(ideal) /\ report.text[s] = Shown(SubSeq(ideal, 1, n), long)
                         /\ ~Occurs(Marker, written[s]) =>
                              report.text[s] = Shown(Fitting(ideal, cap[s]), long)
    BY DEF CaptureIsInvisible
  <2> DEFINE red == Pass(retained[s], secret)
             ideal == Pass(written[s], secret)
             cut == Cut(red, cap[s])
  <2>1. /\ secret \in Secrets /\ cap[s] \in Nat /\ written[s] \in Text /\ retained[s] \in Text
        /\ Len(retained[s]) = IF Len(written[s]) <= CaptureLimit(cap[s], Longest[secret])
             THEN Len(written[s]) ELSE CaptureLimit(cap[s], Longest[secret])
        /\ \A p \in 1..Len(retained[s]) : retained[s][p] = written[s][p]
    BY DEF IInv, TypeInv, Kept, Limit
  <2>2. Redacted(retained[s], secret) = red
    BY <2>1, OnePassIsEnough DEF Apart
  <2>3. /\ report.truncated[s] = (Len(red) > cap[s])
        /\ report.text[s] = Shown(SubSeq(red, 1, cut), Len(red) > cap[s])
    BY <2>2, Report
  <2>4. /\ (Len(red) > cap[s]) = (Len(ideal) > cap[s])
        /\ cut \in 0..cap[s] /\ cut <= Len(ideal) /\ SubSeq(red, 1, cut) = SubSeq(ideal, 1, cut)
        /\ ~Occurs(Marker, written[s]) => SubSeq(red, 1, cut) = Fitting(ideal, cap[s])
    BY <2>1, StreamInvisible
  <2> HIDE DEF red, ideal, cut
  <2>5. report.text[s] = Shown(SubSeq(ideal, 1, cut), Len(ideal) > cap[s])
    BY <2>3, <2>4
  <2>6. ~Occurs(Marker, written[s]) => report.text[s] = Shown(Fitting(ideal, cap[s]), Len(ideal) > cap[s])
    BY <2>3, <2>4
  <2>7. QED
    BY <2>3, <2>4, <2>5, <2>6 DEF ideal
<1>2. QED
  BY <1>1, InvariantHolds, PTL
===============================================================================
