---------------------------- MODULE DumbDbmProofs ----------------------------
(* Proofs about DumbDbm, for any keys, values, block size and number of      *)
(* processes and updates.                                                    *)
EXTENDS DumbDbm, FiniteSetTheorems, SequenceTheorems, WellFoundedInduction, TLAPS

(* The bytes that n bytes of a value, or of the file, take up in blocks.     *)
Cap(n) == Blocks(n) * _BLOCKSIZE

(* Where the area of a value ends.                                           *)
End(l) == l.pos + Cap(l.siz)

(* Every entry there is for a key: in an index in memory, in a line of a     *)
(* file that counts or no longer does, and in an update under way.           *)
Entries == {e \in Line :
  \/ \E p \in Process : e.key \in DOMAIN index[p] /\ e.loc = index[p][e.key]
  \/ e \in Range(Lines(dir)) \/ e \in Range(Lines(bak))
  \/ step = "addkey" /\ e.key = key /\ e.loc = loc}

Byte == [key : Key \cup {NULL}, tag : {v.tag : v \in Val} \cup {NULL}]

Types ==
  /\ dat \in Seq(Byte)
  /\ dir = NULL \/ dir \in Seq(Line)
  /\ bak = NULL \/ bak \in Seq(Line)
  /\ open \subseteq Process /\ fresh \subseteq open
  /\ DOMAIN index = Process
  /\ \A p \in Process : /\ index[p] \in [DOMAIN index[p] -> Loc]
                        /\ DOMAIN index[p] \subseteq Key
  /\ turn \in open \cup {NULL}
  /\ step \in {"none", "addkey", "rename", "create", "flush"}
  /\ step = "none" <=> turn = NULL
  /\ step = "none" => key = NULL
  /\ step # "none" => key \in Key
  /\ step = "addkey" => loc \in Loc /\ val \in Val
  /\ step \in {"rename", "create", "flush"} => val = NULL
  /\ value \in [Key -> Val \cup {NULL}]
  /\ doubt \subseteq Key /\ updates \in 0 .. MaxUpdates
  /\ lost \in {"nothing", "index", "backup"} /\ messed \in BOOLEAN

(* An entry's bytes are in the file, and of its key.                         *)
InFile == \A e \in Entries :
  /\ e.loc.pos + e.loc.siz <= Len(dat)
  /\ End(e.loc) <= Cap(Len(dat))
  /\ \A i \in (e.loc.pos + 1) .. (e.loc.pos + e.loc.siz) : dat[i].key = e.key

(* The areas of two keys do not overlap.                                     *)
Apart == \A d, e \in Entries :
  d.key # e.key => End(d.loc) <= e.loc.pos \/ End(e.loc) <= d.loc.pos

(* Holds(), on a given data file and a given value.                          *)
Stored(d, w, ix, k) ==
  IF w = NULL THEN k \notin DOMAIN ix
  ELSE k \in DOMAIN ix /\ SubSeq(d, ix[k].pos + 1, ix[k].pos + ix[k].siz) = Bytes(k, w)

(* An update under way has written its value; one that deletes a key was     *)
(* made from an index that is up to date, or the index is messed up.         *)
UnderWay ==
  /\ step = "addkey" => SubSeq(dat, loc.pos + 1, loc.pos + loc.siz) = Bytes(key, val)
  /\ step \in {"rename", "create", "flush"} =>
       /\ lost # "index" /\ (messed \/ turn \in fresh)
       /\ key \notin DOMAIN index[turn]
  /\ step = "rename" => bak = NULL
  /\ step \in {"create", "flush"} => Lines(dir) = <<>>

(* Where the values are.                                                     *)
Contents == \A k \in Key \ (doubt \cup {key}) :
  /\ lost = "nothing" /\ ~messed =>
       /\ Stored(dat, value[k], Index(IF step \in {"create", "flush"} THEN bak ELSE dir), k)
       /\ \A p \in fresh : Stored(dat, value[k], index[p], k)
  /\ lost = "index" /\ ~messed /\ value[k] # NULL =>
       Stored(dat, value[k], Index(dir), k) \/ Stored(dat, value[k], Index(bak), k)

IInv == Types /\ InFile /\ Apart /\ UnderWay /\ Contents

------------------------------------------------------------------------------
(* A multiple of the block size that is smaller than a block is not          *)
(* positive.                                                                 *)
LEMMA LessThanBlock ==
  ASSUME NEW x \in Int, _BLOCKSIZE * x < _BLOCKSIZE
  PROVE  x <= 0
  <1>1. _BLOCKSIZE \in Nat \ {0} BY BlockAssumption
  <1>2. CASE x >= 1
    <2>1. _BLOCKSIZE * x >= _BLOCKSIZE BY <1>1, <1>2
    <2> QED BY <1>1, <2>1
  <1> QED BY <1>2

(* Blocks() rounds up: what the division in _addval() and __setitem__() does.*)
LEMMA BlocksFacts ==
  ASSUME NEW n \in Nat
  PROVE  /\ Blocks(n) \in Nat /\ Cap(n) \in Nat
         /\ Cap(n) = _BLOCKSIZE * Blocks(n)
         /\ n <= Cap(n) /\ Cap(n) <= n + _BLOCKSIZE - 1
  <1> DEFINE B == _BLOCKSIZE
             q == (n + B - 1) \div B
             r == (n + B - 1) % B
  <1>1. B \in Nat \ {0} BY BlockAssumption
  <1>2. n + B - 1 \in Nat BY <1>1
  <1>3. q \in Int /\ r \in 0 .. B - 1 /\ n + B - 1 = B * q + r BY <1>1, <1>2
  <1>4. Blocks(n) = q /\ Cap(n) = q * B BY DEF Blocks, Cap
  <1> HIDE DEF q, r
  <1>5. q >= 0
    <2>1. CASE q <= -1
      <3>1. B * q <= -B BY <1>1, <1>3, <2>1
      <3>2. B * q \in Int BY <1>1, <1>3
      <3> QED BY <1>1, <1>3, <3>1, <3>2
    <2> QED BY <1>3, <2>1
  <1>6. q * B = B * q /\ B * q \in Nat BY <1>1, <1>3, <1>5
  <1> QED BY <1>1, <1>3, <1>4, <1>5, <1>6

(* A longer value has no smaller area, ...                                   *)
LEMMA CapMonotone ==
  ASSUME NEW m \in Nat, NEW n \in Nat, m <= n \/ Blocks(m) <= Blocks(n)
  PROVE  Cap(m) <= Cap(n)
  <1> DEFINE B == _BLOCKSIZE
             a == Blocks(m)
             b == Blocks(n)
  <1>1. B \in Nat \ {0} BY BlockAssumption
  <1>2. /\ a \in Nat /\ Cap(m) = B * a /\ m <= Cap(m) /\ Cap(m) <= m + B - 1 /\ Cap(m) \in Nat
        /\ b \in Nat /\ Cap(n) = B * b /\ n <= Cap(n) /\ Cap(n) <= n + B - 1 /\ Cap(n) \in Nat
    BY BlocksFacts
  <1> HIDE DEF a, b
  <1>3. a <= b
    <2>1. CASE m <= n
      <3>1. B * (a - b) = B * a - B * b BY <1>1, <1>2
      <3>2. B * (a - b) < B BY <1>1, <1>2, <2>1, <3>1
      <3>3. a - b \in Int BY <1>2
      <3>4. a - b <= 0 BY <3>2, <3>3, LessThanBlock
      <3> QED BY <1>2, <3>4
    <2> QED BY <2>1 DEF a, b
  <1>4. B * a <= B * b BY <1>1, <1>2, <1>3
  <1> QED BY <1>2, <1>4

(* ... and what is put at a block's start takes up blocks of its own.        *)
LEMMA CapSum ==
  ASSUME NEW m \in Nat, NEW n \in Nat
  PROVE  Cap(Cap(n) + m) = Cap(n) + Cap(m)
  <1> DEFINE B == _BLOCKSIZE
             a == Blocks(n)
             b == Blocks(m)
             s == Cap(n) + m
             c == Blocks(s)
  <1>1. B \in Nat \ {0} BY BlockAssumption
  <1>2. /\ a \in Nat /\ Cap(n) = B * a /\ Cap(n) \in Nat
        /\ b \in Nat /\ Cap(m) = B * b /\ m <= Cap(m) /\ Cap(m) <= m + B - 1 /\ Cap(m) \in Nat
    BY BlocksFacts
  <1>3. s \in Nat BY <1>2
  <1>4. c \in Nat /\ Cap(s) = B * c /\ s <= Cap(s) /\ Cap(s) <= s + B - 1 /\ Cap(s) \in Nat
    BY <1>3, BlocksFacts
  <1>5. s = Cap(n) + m OBVIOUS
  <1> HIDE DEF a, b, c, s
  <1>6. B * (c - (a + b)) = B * c - B * a - B * b /\ B * (a + b - c) = B * a + B * b - B * c
    BY <1>1, <1>2, <1>4
  <1>7. B * (c - (a + b)) < B /\ B * (a + b - c) < B BY <1>1, <1>2, <1>4, <1>5, <1>6
  <1>8. c - (a + b) \in Int /\ a + b - c \in Int BY <1>2, <1>4
  <1>9. c - (a + b) <= 0 /\ a + b - c <= 0 BY <1>7, <1>8, LessThanBlock
  <1>10. B * c = B * a + B * b
    <2>1. c - (a + b) = 0 BY <1>2, <1>4, <1>9
    <2>2. B * (c - (a + b)) = 0 BY <1>1, <2>1
    <2> QED BY <1>1, <1>2, <1>4, <1>6, <2>2
  <1> QED BY <1>2, <1>4, <1>10 DEF s

------------------------------------------------------------------------------
(* A bounded set of numbers has a greatest element.                          *)
LEMMA MaxExists ==
  ASSUME NEW n \in Nat, NEW I \in SUBSET (1 .. n), I # {}
  PROVE  Max(I) \in I /\ \A i \in I : i <= Max(I)
  <1> DEFINE T == {n - i : i \in I}
  <1>1. T \subseteq Nat /\ T # {}
    <2>1. ASSUME NEW i \in I PROVE n - i \in Nat OBVIOUS
    <2>2. PICK i \in I : TRUE OBVIOUS
    <2>3. n - i \in T OBVIOUS
    <2> QED BY <2>1, <2>3
  <1> DEFINE R == OpToRel(<, Nat)
  <1>2. \A x, y \in Nat : x < y => <<x, y>> \in R BY Zenon DEF OpToRel
  <1>3. IsWellFoundedOn(R, Nat) BY NatLessThanWellFounded
  <1> HIDE DEF R, T
  <1>4. PICK x \in T : \A y \in T : ~(<<y, x>> \in R) BY <1>1, <1>3, WFMin
  <1>5. \A y \in T : ~(y < x) BY <1>1, <1>2, <1>4
  <1>6. PICK i \in I : x = n - i BY <1>4 DEF T
  <1>7. ASSUME NEW j \in I PROVE i >= j
    <2>1. n - j \in T BY DEF T
    <2>2. ~(n - j < n - i) BY <1>5, <1>6, <2>1
    <2>3. i \in Int /\ j \in Int OBVIOUS
    <2> QED BY <2>2, <2>3
  <1>8. \E m \in I : \A j \in I : m >= j BY <1>7
  <1>9. Max(I) \in I /\ \A j \in I : Max(I) >= j BY <1>8 DEF Max
  <1> QED BY <1>9

(* Index(): the last line of a key counts.                                   *)
LEMMA IndexFacts ==
  ASSUME NEW f, f = NULL \/ f \in Seq(Line)
  PROVE  /\ Lines(f) \in Seq(Line)
         /\ \A i \in 1 .. Len(Lines(f)) : Lines(f)[i].key \in DOMAIN Index(f)
         /\ \A k \in DOMAIN Index(f) : \E j \in 1 .. Len(Lines(f)) :
              /\ Lines(f)[j].key = k /\ Index(f)[k] = Lines(f)[j].loc
              /\ \A i \in 1 .. Len(Lines(f)) : Lines(f)[i].key = k => i <= j
         /\ Index(f) = [k \in DOMAIN Index(f) |-> Index(f)[k]]
  <1>1. Lines(f) \in Seq(Line) BY DEF Lines
  <1>2. Len(Lines(f)) \in Nat /\ DOMAIN Lines(f) = 1 .. Len(Lines(f)) BY <1>1
  <1>3. DOMAIN Index(f) = {l.key : l \in Range(Lines(f))} BY DEF Index
  <1>4. \A i \in 1 .. Len(Lines(f)) : Lines(f)[i].key \in DOMAIN Index(f)
    BY <1>2, <1>3 DEF Range
  <1>5. ASSUME NEW k \in DOMAIN Index(f)
        PROVE  \E j \in 1 .. Len(Lines(f)) :
                 /\ Lines(f)[j].key = k /\ Index(f)[k] = Lines(f)[j].loc
                 /\ \A i \in 1 .. Len(Lines(f)) : Lines(f)[i].key = k => i <= j
    <2> DEFINE I == {i \in 1 .. Len(f) : f[i].key = k}
    <2>1. Lines(f) # <<>> BY <1>3 DEF Range
    <2>2. f \in Seq(Line) /\ Lines(f) = f BY <2>1 DEF Lines
    <2>3. I # {} /\ I \subseteq 1 .. Len(f) BY <1>2, <1>3, <2>2 DEF Range
    <2>4. Index(f)[k] = f[Max(I)].loc
      <3>1. SelectLastInSeq(f, LAMBDA l : l.key = k) = Max(I) BY <2>3 DEF SelectLastInSeq
      <3> HIDE DEF I
      <3> QED BY <1>3, <3>1 DEF Index
    <2>5. Max(I) \in I /\ \A i \in I : i <= Max(I)
      <3> HIDE DEF I
      <3> QED BY <1>2, <2>2, <2>3, MaxExists
    <2> QED BY <2>2, <2>4, <2>5
  <1>6. Index(f) = [k \in DOMAIN Index(f) |-> Index(f)[k]] BY <1>3 DEF Index
  <1> QED BY <1>1, <1>4, <1>5, <1>6

(* _addkey(): the new line counts, and no other key's.                       *)
LEMMA IndexAppend ==
  ASSUME NEW f, f = NULL \/ f \in Seq(Line), NEW e \in Line
  PROVE  LET g == Append(Lines(f), e)
         IN  /\ g \in Seq(Line) /\ g # NULL /\ Range(g) = Range(Lines(f)) \cup {e}
             /\ DOMAIN Index(g) = DOMAIN Index(f) \cup {e.key}
             /\ Index(g)[e.key] = e.loc
             /\ \A k \in DOMAIN Index(f) : k # e.key => Index(g)[k] = Index(f)[k]
  <1> DEFINE h == Lines(f)
             g == Append(h, e)
             n == Len(h)
  <1>1. h \in Seq(Line) /\ n \in Nat BY IndexFacts
  <1>2. /\ g \in Seq(Line) /\ Len(g) = n + 1 /\ g[n + 1] = e
        /\ \A i \in 1 .. n : g[i] = h[i]
    BY <1>1
  <1>3. g # NULL /\ Lines(g) = g BY <1>2, FileAssumption DEF Lines
  <1>4. Range(g) = Range(h) \cup {e}
    <2>1. DOMAIN g = 1 .. n + 1 /\ DOMAIN h = 1 .. n BY <1>1, <1>2
    <2> QED BY <1>1, <1>2, <2>1 DEF Range
  <1>5. /\ \A i \in 1 .. n + 1 : g[i].key \in DOMAIN Index(g)
        /\ \A k \in DOMAIN Index(g) : \E j \in 1 .. n + 1 :
              /\ g[j].key = k /\ Index(g)[k] = g[j].loc
              /\ \A i \in 1 .. n + 1 : g[i].key = k => i <= j
    <2> HIDE DEF h, g, n
    <2> QED BY <1>2, <1>3, IndexFacts
  <1>6. /\ \A i \in 1 .. n : h[i].key \in DOMAIN Index(f)
        /\ \A k \in DOMAIN Index(f) : \E j \in 1 .. n :
              /\ h[j].key = k /\ Index(f)[k] = h[j].loc
              /\ \A i \in 1 .. n : h[i].key = k => i <= j
    BY IndexFacts
  <1> HIDE DEF h, g, n
  <1>7. DOMAIN Index(g) = DOMAIN Index(f) \cup {e.key}
    <2>1. ASSUME NEW k \in DOMAIN Index(g) PROVE k \in DOMAIN Index(f) \cup {e.key}
      <3>1. PICK j \in 1 .. n + 1 : g[j].key = k BY <1>5
      <3>2. j \in 1 .. n \/ j = n + 1 BY <1>1
      <3>3. CASE j \in 1 .. n BY <1>2, <1>6, <3>1, <3>3
      <3>4. CASE j = n + 1 BY <1>2, <3>1, <3>4
      <3> QED BY <3>2, <3>3, <3>4
    <2>2. ASSUME NEW k \in DOMAIN Index(f) PROVE k \in DOMAIN Index(g)
      <3>1. PICK j \in 1 .. n : h[j].key = k BY <1>6
      <3>2. j \in 1 .. n + 1 /\ g[j] = h[j] BY <1>1, <1>2
      <3> QED BY <1>5, <3>1, <3>2
    <2>3. n + 1 \in 1 .. n + 1 BY <1>1
    <2>4. e.key \in DOMAIN Index(g) BY <1>2, <1>5, <2>3
    <2> QED BY <2>1, <2>2, <2>4
  <1>8. Index(g)[e.key] = e.loc
    <2>1. e.key \in DOMAIN Index(g) BY <1>7
    <2>2. PICK j \in 1 .. n + 1 :
            /\ g[j].key = e.key /\ Index(g)[e.key] = g[j].loc
            /\ \A i \in 1 .. n + 1 : g[i].key = e.key => i <= j
      BY <1>5, <2>1
    <2>3. n + 1 \in 1 .. n + 1 BY <1>1
    <2>4. n + 1 <= j BY <1>2, <2>2, <2>3
    <2>5. j = n + 1 BY <1>1, <2>4
    <2> QED BY <1>2, <2>2, <2>5
  <1>9. ASSUME NEW k \in DOMAIN Index(f), k # e.key PROVE Index(g)[k] = Index(f)[k]
    <2>1. k \in DOMAIN Index(g) BY <1>7
    <2>2. PICK j \in 1 .. n + 1 :
            /\ g[j].key = k /\ Index(g)[k] = g[j].loc
            /\ \A i \in 1 .. n + 1 : g[i].key = k => i <= j
      BY <1>5, <2>1
    <2>3. PICK i \in 1 .. n :
            /\ h[i].key = k /\ Index(f)[k] = h[i].loc
            /\ \A x \in 1 .. n : h[x].key = k => x <= i
      BY <1>6
    <2>4. j \in 1 .. n BY <1>1, <1>2, <1>9, <2>2
    <2>5. i \in 1 .. n + 1 BY <1>1
    <2>6. i <= j BY <1>2, <2>2, <2>3, <2>5
    <2>7. j <= i BY <1>2, <2>2, <2>3, <2>4
    <2>8. i = j BY <1>1, <2>4, <2>6, <2>7
    <2> QED BY <1>2, <2>2, <2>3, <2>8
  <1> QED BY <1>2, <1>3, <1>4, <1>7, <1>8, <1>9 DEF g, h

(* _commit(): the file that is written makes the index it was written from.  *)
LEMMA IndexWritten ==
  ASSUME NEW ix, ix \in [DOMAIN ix -> Loc], DOMAIN ix \subseteq Key
  PROVE  LET S == {[key |-> k, loc |-> ix[k]] : k \in DOMAIN ix}
             g == SetToSeq(S)
         IN  /\ g \in Seq(Line) /\ g # NULL /\ Range(g) = S
             /\ DOMAIN Index(g) = DOMAIN ix
             /\ \A k \in DOMAIN ix : Index(g)[k] = ix[k]
  <1> DEFINE D == DOMAIN ix
             S == {[key |-> k, loc |-> ix[k]] : k \in D}
             g == SetToSeq(S)
             n == Cardinality(S)
  <1>1. IsFiniteSet(D) BY KeyAssumption, FS_Subset
  <1>2. IsFiniteSet(S) /\ n \in Nat
    <2>1. [k \in D |-> [key |-> k, loc |-> ix[k]]] \in Surjection(D, S) BY DEF Surjection
    <2> HIDE DEF S, D
    <2> QED BY <1>1, <2>1, FS_Surjection, FS_CardinalityType
  <1>3. S \subseteq Line BY DEF Line
  <1>4. g \in [1 .. n -> S] /\ IsInjective(g)
    <2> HIDE DEF S, D
    <2>1. IsFiniteSet(1 .. n) /\ Cardinality(1 .. n) = n BY <1>2, FS_Interval
    <2>2. ExistsBijection(1 .. n, S) BY <1>2, <2>1, FS_SameCardinalityBij
    <2>3. \E f \in [1 .. n -> S] : IsInjective(f)
      BY <2>2 DEF ExistsBijection, Bijection, Injection
    <2> QED BY <2>3 DEF SetToSeq
  <1>5. Range(g) = S
    <2> HIDE DEF S, D
    <2>1. g \in Injection(1 .. n, S) BY <1>4 DEF Injection
    <2>2. IsFiniteSet(1 .. n) /\ Cardinality(1 .. n) = n BY <1>2, FS_Interval
    <2>3. g \in Surjection(1 .. n, S) BY <1>2, <2>1, <2>2, FS_Injection
    <2> QED BY <1>4, <2>3 DEF Surjection, Range
  <1>6. g \in Seq(Line) /\ Len(g) = n /\ DOMAIN g = 1 .. n
    <2> HIDE DEF S, D, g
    <2> QED BY <1>2, <1>3, <1>4
  <1>7. g # NULL /\ Lines(g) = g BY <1>6, FileAssumption DEF Lines
  <1>8. /\ \A i \in 1 .. n : g[i].key \in DOMAIN Index(g)
        /\ \A k \in DOMAIN Index(g) : \E j \in 1 .. n : g[j].key = k /\ Index(g)[k] = g[j].loc
    <2> HIDE DEF S, D, g, n
    <2> QED BY <1>6, <1>7, IndexFacts
  <1>9. \A i \in 1 .. n : g[i].key \in D /\ g[i].loc = ix[g[i].key]
    <2>1. \A i \in 1 .. n : g[i] \in S BY <1>4
    <2>2. \A e \in S : e.key \in D /\ e.loc = ix[e.key] OBVIOUS
    <2> HIDE DEF S, D, g, n
    <2> QED BY <2>1, <2>2
  <1>10. \A k \in D : \E i \in 1 .. n : g[i].key = k
    <2>1. ASSUME NEW k \in D PROVE \E i \in 1 .. n : g[i].key = k
      <3>1. [key |-> k, loc |-> ix[k]] \in S OBVIOUS
      <3> HIDE DEF S, D, g, n
      <3>2. PICK i \in 1 .. n : g[i] = [key |-> k, loc |-> ix[k]] BY <1>5, <1>6, <3>1 DEF Range
      <3> QED BY <3>2
    <2> QED BY <2>1
  <1>11. DOMAIN Index(g) = D /\ \A k \in D : Index(g)[k] = ix[k]
    <2> HIDE DEF S, D, g, n
    <2>1. ASSUME NEW k \in DOMAIN Index(g) PROVE k \in D /\ Index(g)[k] = ix[k]
      <3>1. PICK j \in 1 .. n : g[j].key = k /\ Index(g)[k] = g[j].loc BY <1>8
      <3> QED BY <1>9, <3>1
    <2>2. ASSUME NEW k \in D PROVE k \in DOMAIN Index(g)
      <3>1. PICK i \in 1 .. n : g[i].key = k BY <1>10
      <3> QED BY <1>8, <3>1
    <2>3. DOMAIN Index(g) = D BY <2>1, <2>2
    <2> QED BY <2>1, <2>3
  <1>12. g \in Seq(Line) /\ g # NULL /\ Range(g) = S /\ DOMAIN Index(g) = D
         /\ \A k \in D : Index(g)[k] = ix[k]
    BY <1>5, <1>6, <1>7, <1>11
  <1> QED BY <1>12, Zenon

------------------------------------------------------------------------------
(* What is read, byte by byte.                                               *)
LEMMA ReadIs ==
  ASSUME NEW d \in Seq(Byte), NEW l \in Loc, l.pos + l.siz <= Len(d)
  PROVE  SubSeq(d, l.pos + 1, l.pos + l.siz) = [i \in 1 .. l.siz |-> d[l.pos + i]]
  <1> DEFINE s == SubSeq(d, l.pos + 1, l.pos + l.siz)
  <1>1. l.pos \in Nat /\ l.siz \in Nat /\ Len(d) \in Nat BY DEF Loc
  <1>2. \A i \in l.pos + 1 .. l.pos + l.siz : d[i] \in Byte BY <1>1
  <1>3. l.pos + 1 \in Int /\ l.pos + l.siz \in Int BY <1>1
  <1>4. /\ s \in Seq(Byte)
        /\ Len(s) = IF l.pos + 1 <= l.pos + l.siz THEN (l.pos + l.siz) - (l.pos + 1) + 1 ELSE 0
        /\ \A i \in 1 .. (l.pos + l.siz) - (l.pos + 1) + 1 : s[i] = d[l.pos + 1 + i - 1]
    BY <1>2, <1>3, SubSeqProperties
  <1> HIDE DEF s
  <1>5. Len(s) = l.siz BY <1>1, <1>4
  <1>6. \A i \in 1 .. l.siz : s[i] = d[l.pos + i]
    <2>1. (l.pos + l.siz) - (l.pos + 1) + 1 = l.siz BY <1>1
    <2>2. \A i \in 1 .. l.siz : l.pos + 1 + i - 1 = l.pos + i BY <1>1
    <2> QED BY <1>4, <2>1, <2>2
  <1>7. s \in [1 .. l.siz -> Byte] BY <1>4, <1>5, LenProperties
  <1>8. s = [i \in 1 .. l.siz |-> s[i]] BY <1>7
  <1> QED BY <1>6, <1>8 DEF s

(* What is read depends on the bytes read only, ...                          *)
LEMMA SameRead ==
  ASSUME NEW d \in Seq(Byte), NEW e \in Seq(Byte), NEW l \in Loc,
         l.pos + l.siz <= Len(d), l.pos + l.siz <= Len(e),
         \A i \in (l.pos + 1) .. (l.pos + l.siz) : e[i] = d[i]
  PROVE  SubSeq(e, l.pos + 1, l.pos + l.siz) = SubSeq(d, l.pos + 1, l.pos + l.siz)
  <1>1. l.pos \in Nat /\ l.siz \in Nat BY DEF Loc
  <1>2. \A i \in 1 .. l.siz : e[l.pos + i] = d[l.pos + i] BY <1>1
  <1>3. [i \in 1 .. l.siz |-> e[l.pos + i]] = [i \in 1 .. l.siz |-> d[l.pos + i]] BY <1>2
  <1>4. SubSeq(e, l.pos + 1, l.pos + l.siz) = [i \in 1 .. l.siz |-> e[l.pos + i]] BY ReadIs
  <1>5. SubSeq(d, l.pos + 1, l.pos + l.siz) = [i \in 1 .. l.siz |-> d[l.pos + i]] BY ReadIs
  <1> QED BY <1>3, <1>4, <1>5

(* ... and a value that was written is read.                                 *)
LEMMA NewRead ==
  ASSUME NEW d \in Seq(Byte), NEW l \in Loc, NEW k, NEW v \in Val, l.siz = v.len,
         l.pos + l.siz <= Len(d),
         \A i \in 1 .. v.len : d[l.pos + i] = [key |-> k, tag |-> v.tag]
  PROVE  SubSeq(d, l.pos + 1, l.pos + l.siz) = Bytes(k, v)
  <1>1. SubSeq(d, l.pos + 1, l.pos + l.siz) = [i \in 1 .. l.siz |-> d[l.pos + i]] BY ReadIs
  <1>2. [i \in 1 .. l.siz |-> d[l.pos + i]] = [i \in 1 .. v.len |-> [key |-> k, tag |-> v.tag]]
    OBVIOUS
  <1> QED BY <1>1, <1>2 DEF Bytes

(* Where an index says the same of a key, and the bytes are the same, so is  *)
(* what is stored.                                                           *)
LEMMA StoredKept ==
  ASSUME NEW d, NEW e, NEW w, NEW ix, NEW jx, NEW k, Stored(d, w, ix, k),
         k \in DOMAIN ix <=> k \in DOMAIN jx,
         k \in DOMAIN ix =>
           /\ jx[k] = ix[k]
           /\ SubSeq(e, ix[k].pos + 1, ix[k].pos + ix[k].siz)
                = SubSeq(d, ix[k].pos + 1, ix[k].pos + ix[k].siz)
  PROVE  Stored(e, w, jx, k)
  BY DEF Stored

------------------------------------------------------------------------------
(* The entries are lines, and every index consists of entries.               *)
LEMMA EntryFacts ==
  ASSUME Types
  PROVE  /\ Entries \subseteq Line
         /\ \A e \in Entries : e.key \in Key /\ e.loc \in Loc /\ e.loc.pos \in Nat /\ e.loc.siz \in Nat
         /\ \A k \in DOMAIN Index(dir) : [key |-> k, loc |-> Index(dir)[k]] \in Entries
         /\ \A k \in DOMAIN Index(bak) : [key |-> k, loc |-> Index(bak)[k]] \in Entries
         /\ \A p \in Process : \A k \in DOMAIN index[p] : [key |-> k, loc |-> index[p][k]] \in Entries
  <1>3. \A p \in Process : \A k \in DOMAIN index[p] : [key |-> k, loc |-> index[p][k]] \in Line
    BY DEF Types, Line
  <1>5. Entries \subseteq Line BY DEF Entries
  <1>6. \A e \in Line : e.key \in Key /\ e.loc \in Loc /\ e.loc.pos \in Nat /\ e.loc.siz \in Nat
    BY DEF Line, Loc
  <1>7. ASSUME NEW f, f = NULL \/ f \in Seq(Line), NEW k \in DOMAIN Index(f)
        PROVE  [key |-> k, loc |-> Index(f)[k]] \in Range(Lines(f))
    <2>1. Lines(f) \in Seq(Line) BY <1>7, IndexFacts
    <2>2. PICK j \in 1 .. Len(Lines(f)) : Lines(f)[j].key = k /\ Index(f)[k] = Lines(f)[j].loc
      BY <1>7, IndexFacts
    <2>3. Lines(f)[j] \in Line BY <2>1
    <2>4. \A e \in Line : e = [key |-> e.key, loc |-> e.loc] BY DEF Line
    <2>5. Lines(f)[j] = [key |-> k, loc |-> Index(f)[k]] BY <2>2, <2>3, <2>4
    <2>6. DOMAIN Lines(f) = 1 .. Len(Lines(f)) BY <2>1
    <2> QED BY <2>5, <2>6 DEF Range
  <1>11. ASSUME NEW f, f = NULL \/ f \in Seq(Line), NEW k \in DOMAIN Index(f)
        PROVE  [key |-> k, loc |-> Index(f)[k]] \in Line
    <2>1. Lines(f) \in Seq(Line) /\ [key |-> k, loc |-> Index(f)[k]] \in Range(Lines(f)) BY <1>7, <1>11, IndexFacts
    <2>2. \A g : g \in Seq(Line) => Range(g) \subseteq Line BY DEF Range
    <2> QED BY <2>1, <2>2
  <1>8. \A k \in DOMAIN Index(dir) : [key |-> k, loc |-> Index(dir)[k]] \in Entries
    BY <1>7, <1>11 DEF Entries, Types
  <1>9. \A k \in DOMAIN Index(bak) : [key |-> k, loc |-> Index(bak)[k]] \in Entries
    BY <1>7, <1>11 DEF Entries, Types
  <1>10. \A p \in Process : \A k \in DOMAIN index[p] : [key |-> k, loc |-> index[p][k]] \in Entries
    BY <1>3 DEF Entries
  <1> QED BY <1>5, <1>6, <1>8, <1>9, <1>10

(* Where no entry is new and nothing is written, the space is as it was.     *)
LEMMA SpaceKept ==
  ASSUME InFile, Apart, dat' = dat, Entries' \subseteq Entries
  PROVE  InFile' /\ Apart'
  BY DEF InFile, Apart

(* The invariant holds initially.                                            *)
LEMMA InitInv == ASSUME Init PROVE IInv
  <1> USE DEF Init
  <1>1. Types
    <2>1. <<>> \in Seq(Byte) OBVIOUS
    <2>2. DOMAIN index = Process OBVIOUS
    <2>3. ASSUME NEW p \in Process
          PROVE  index[p] \in [DOMAIN index[p] -> Loc] /\ DOMAIN index[p] \subseteq Key
      <3>1. index[p] = <<>> OBVIOUS
      <3>2. <<>> \in [1 .. 0 -> Loc] /\ DOMAIN <<>> = {} OBVIOUS
      <3> QED BY <3>1, <3>2
    <2>4. updates \in 0 .. MaxUpdates BY BoundAssumption
    <2> QED BY <2>1, <2>2, <2>3, <2>4 DEF Types
  <1>2. Entries = {}
    <2>1. Lines(dir) = <<>> /\ Lines(bak) = <<>> BY DEF Lines
    <2>2. Range(<<>>) = {} BY DEF Range
    <2> QED BY <2>1, <2>2 DEF Entries
  <1>3. InFile /\ Apart BY <1>2 DEF InFile, Apart
  <1>4. UnderWay BY DEF UnderWay
  <1>5. Contents
    <2>1. DOMAIN Index(dir) = {} BY DEF Index, Lines, Range
    <2>2. \A k \in Key : Stored(dat, value[k], Index(dir), k) BY <2>1 DEF Stored
    <2> QED BY <2>2 DEF Contents
  <1> QED BY <1>1, <1>3, <1>4, <1>5 DEF IInv

------------------------------------------------------------------------------
(* A value was written to an area that is no other key's.                    *)
Written(k, v, l) ==
  /\ dat' \in Seq(Byte) /\ Len(dat') >= Len(dat)
  /\ l.pos + l.siz <= Len(dat') /\ End(l) <= Cap(Len(dat'))
  /\ \A i \in 1 .. v.len : dat'[l.pos + i] = [key |-> k, tag |-> v.tag]
  /\ \A i \in 1 .. Len(dat) : i \in (l.pos + 1) .. (l.pos + v.len) \/ dat'[i] = dat[i]
  /\ \A e \in Entries : e.key # k => End(l) <= e.loc.pos \/ End(e.loc) <= l.pos

(* __setitem__() keeps what the other keys have.                             *)
LEMMA SetInv ==
  ASSUME IInv, NEW p \in open, turn = NULL, NEW k \in Key, NEW v \in Val, NEW l \in Loc,
         l.siz = v.len, Begin(p, k, v, l, "addkey"), Written(k, v, l),
         UNCHANGED <<dir, bak, open, index, history>>
  PROVE  IInv'
  <1>1. UNCHANGED <<dir, bak, open, index, value, fresh, doubt, lost, messed>> BY DEF history
  <1>2. /\ updates < MaxUpdates /\ updates' = updates + 1
        /\ turn' = p /\ key' = k /\ val' = v /\ loc' = l /\ step' = "addkey"
    BY DEF Begin
  <1>3. step = "none" /\ key = NULL BY DEF IInv, Types
  <1>4. Types'
    <2>1. updates \in 0 .. MaxUpdates BY DEF IInv, Types
    <2>2. updates' \in 0 .. MaxUpdates BY <1>2, <2>1, BoundAssumption
    <2>3. p # NULL BY ProcessAssumption DEF IInv, Types
    <2>4. dat' \in Seq(Byte) BY DEF Written
    <2> QED BY <1>1, <1>2, <2>2, <2>3, <2>4 DEF IInv, Types
  <1> DEFINE n == [key |-> k, loc |-> l]
  <1>5. Entries' = Entries \cup {n}
    <2>1. n \in Line /\ n.key = k /\ n.loc = l BY DEF Line
    <2>2. \A e \in Line : e.key = k /\ e.loc = l => e = n BY DEF Line
    <2> HIDE DEF n
    <2> QED BY <1>1, <1>2, <1>3, <2>1, <2>2 DEF Entries
  <1>6. l.pos \in Nat /\ l.siz \in Nat /\ v.len \in Nat BY DEF Loc
  <1>7. dat \in Seq(Byte) /\ Len(dat) \in Nat /\ dat' \in Seq(Byte) /\ Len(dat') \in Nat
    BY DEF IInv, Types, Written
  <1>8. /\ Len(dat') >= Len(dat) /\ l.pos + l.siz <= Len(dat') /\ End(l) <= Cap(Len(dat'))
        /\ \A i \in 1 .. v.len : dat'[l.pos + i] = [key |-> k, tag |-> v.tag]
        /\ \A i \in 1 .. Len(dat) : i \in (l.pos + 1) .. (l.pos + v.len) \/ dat'[i] = dat[i]
        /\ \A e \in Entries : e.key # k => End(l) <= e.loc.pos \/ End(e.loc) <= l.pos
    BY DEF Written
  <1>9. End(l) \in Nat /\ l.pos + v.len <= End(l) BY <1>6, BlocksFacts DEF End
  <1>10. ASSUME NEW e \in Entries
         PROVE  /\ e.loc \in Loc /\ e.loc.pos \in Nat /\ e.loc.siz \in Nat
                /\ End(e.loc) \in Nat /\ e.loc.pos + e.loc.siz <= End(e.loc)
                /\ e.loc.pos + e.loc.siz <= Len(dat) /\ End(e.loc) <= Cap(Len(dat))
                /\ \A i \in (e.loc.pos + 1) .. (e.loc.pos + e.loc.siz) : dat[i].key = e.key
    <2>1. e.loc \in Loc /\ e.loc.pos \in Nat /\ e.loc.siz \in Nat BY EntryFacts DEF IInv
    <2>2. End(e.loc) \in Nat /\ e.loc.pos + e.loc.siz <= End(e.loc) BY <2>1, BlocksFacts DEF End
    <2> QED BY <2>1, <2>2 DEF IInv, InFile
  <1>11. ASSUME NEW e \in Entries, e.key # k, NEW i \in (e.loc.pos + 1) .. (e.loc.pos + e.loc.siz)
         PROVE  dat'[i] = dat[i]
    <2>1. i \in 1 .. Len(dat) BY <1>7, <1>10
    <2>2. i \notin (l.pos + 1) .. (l.pos + v.len)
      <3>1. End(l) <= e.loc.pos \/ End(e.loc) <= l.pos BY <1>8, <1>11
      <3> QED BY <1>6, <1>9, <1>10, <3>1
    <2> QED BY <1>8, <2>1, <2>2
  <1>12. InFile'
    <2>1. Cap(Len(dat)) <= Cap(Len(dat')) /\ Cap(Len(dat)) \in Nat /\ Cap(Len(dat')) \in Nat
      BY <1>7, <1>8, CapMonotone, BlocksFacts
    <2>2. ASSUME NEW e \in Entries
          PROVE  /\ e.loc.pos + e.loc.siz <= Len(dat') /\ End(e.loc) <= Cap(Len(dat'))
                 /\ \A i \in (e.loc.pos + 1) .. (e.loc.pos + e.loc.siz) : dat'[i].key = e.key
      <3>1. e.loc.pos + e.loc.siz <= Len(dat') /\ End(e.loc) <= Cap(Len(dat'))
        BY <1>7, <1>8, <1>10, <2>1
      <3>2. ASSUME NEW i \in (e.loc.pos + 1) .. (e.loc.pos + e.loc.siz) PROVE dat'[i].key = e.key
        <4>1. CASE e.key # k BY <1>10, <1>11, <4>1
        <4>2. CASE e.key = k
          <5>1. i \in 1 .. Len(dat) BY <1>7, <1>10
          <5>2. CASE i \in (l.pos + 1) .. (l.pos + v.len)
            <6>1. i - l.pos \in 1 .. v.len /\ l.pos + (i - l.pos) = i BY <1>6, <5>2
            <6>2. dat'[i] = [key |-> k, tag |-> v.tag] BY <1>8, <6>1
            <6> QED BY <4>2, <6>2
          <5>3. CASE dat'[i] = dat[i] BY <1>10, <5>3
          <5> QED BY <1>8, <5>1, <5>2, <5>3
        <4> QED BY <4>1, <4>2
      <3> QED BY <3>1, <3>2
    <2>3. ASSUME NEW i \in (l.pos + 1) .. (l.pos + l.siz) PROVE dat'[i].key = k
      <3>1. i - l.pos \in 1 .. v.len /\ l.pos + (i - l.pos) = i BY <1>6
      <3>2. dat'[i] = [key |-> k, tag |-> v.tag] BY <1>8, <3>1
      <3> QED BY <3>2
    <2>4. n.loc = l /\ n.key = k OBVIOUS
    <2> HIDE DEF n
    <2>5. ASSUME NEW e \in Entries'
          PROVE  /\ e.loc.pos + e.loc.siz <= Len(dat') /\ End(e.loc) <= Cap(Len(dat'))
                 /\ \A i \in (e.loc.pos + 1) .. (e.loc.pos + e.loc.siz) : dat'[i].key = e.key
      <3>1. CASE e \in Entries BY <2>2, <3>1
      <3>2. CASE e = n BY <1>8, <2>3, <2>4, <3>2
      <3> QED BY <1>5, <3>1, <3>2
    <2> QED BY <2>5 DEF InFile, End
  <1>13. Apart'
    <2>1. \A d, e \in Entries : d.key # e.key => End(d.loc) <= e.loc.pos \/ End(e.loc) <= d.loc.pos
      BY DEF IInv, Apart
    <2>2. n.loc = l /\ n.key = k OBVIOUS
    <2> HIDE DEF n
    <2>3. \A d, e \in Entries \cup {n} : d.key # e.key => End(d.loc) <= e.loc.pos \/ End(e.loc) <= d.loc.pos
      BY <1>8, <2>1, <2>2
    <2> QED BY <1>5, <2>3 DEF Apart, End
  <1>14. UnderWay'
    <2>1. SubSeq(dat', l.pos + 1, l.pos + l.siz) = Bytes(k, v) BY <1>7, <1>8, NewRead
    <2> QED BY <1>2, <2>1 DEF UnderWay
  <1>15. ASSUME NEW e \in Entries, e.key # k
         PROVE  SubSeq(dat', e.loc.pos + 1, e.loc.pos + e.loc.siz)
                  = SubSeq(dat, e.loc.pos + 1, e.loc.pos + e.loc.siz)
    <2>1. e.loc.pos + e.loc.siz <= Len(dat') BY <1>7, <1>8, <1>10
    <2> QED BY <1>7, <1>10, <1>11, <1>15, <2>1, SameRead
  <1>16. ASSUME NEW ix, NEW j \in Key, j # k, NEW w, Stored(dat, w, ix, j),
                j \in DOMAIN ix => [key |-> j, loc |-> ix[j]] \in Entries
         PROVE  Stored(dat', w, ix, j)
    <2>1. j \in DOMAIN ix => SubSeq(dat', ix[j].pos + 1, ix[j].pos + ix[j].siz)
                               = SubSeq(dat, ix[j].pos + 1, ix[j].pos + ix[j].siz)
      BY <1>15, <1>16
    <2> QED BY <1>16, <2>1, StoredKept
  <1>17. Contents'
    <2> SUFFICES ASSUME NEW j \in Key \ (doubt \cup {k})
                 PROVE  /\ lost = "nothing" /\ ~messed =>
                             /\ Stored(dat', value[j], Index(dir), j)
                             /\ \A q \in fresh : Stored(dat', value[j], index[q], j)
                        /\ lost = "index" /\ ~messed /\ value[j] # NULL =>
                             Stored(dat', value[j], Index(dir), j) \/ Stored(dat', value[j], Index(bak), j)
      BY <1>1, <1>2 DEF Contents
    <2>1. j \in Key \ (doubt \cup {key}) BY <1>3, KeyAssumption
    <2>2. Stored(dat, value[j], Index(dir), j) => Stored(dat', value[j], Index(dir), j)
      BY <1>16, EntryFacts DEF IInv
    <2>3. Stored(dat, value[j], Index(bak), j) => Stored(dat', value[j], Index(bak), j)
      BY <1>16, EntryFacts DEF IInv
    <2>4. \A q \in fresh : Stored(dat, value[j], index[q], j) => Stored(dat', value[j], index[q], j)
      <3>1. fresh \subseteq Process BY DEF IInv, Types
      <3> QED BY <1>16, <3>1, EntryFacts DEF IInv
    <2> QED BY <1>3, <2>1, <2>2, <2>3, <2>4 DEF IInv, Contents
  <1> QED BY <1>4, <1>12, <1>13, <1>14, <1>17 DEF IInv
(* _setval(): the new value stays in the area of the old one.                *)
LEMMA SetInPlaceInv ==
  ASSUME IInv, NEW p \in Process, NEW k \in Key, NEW v \in Val, SetInPlace(p, k, v)
  PROVE  IInv'
  <1> DEFINE o == index[p][k]
             l == [pos |-> o.pos, siz |-> v.len]
             m == IF o.pos + v.len > Len(dat) THEN o.pos + v.len ELSE Len(dat)
             b == [key |-> k, tag |-> v.tag]
  <1>1. /\ p \in open /\ turn = NULL /\ k \in DOMAIN index[p] /\ Blocks(v.len) <= Blocks(o.siz)
        /\ Begin(p, k, v, l, "addkey") /\ UNCHANGED <<dir, bak, open, index, history>>
    BY DEF SetInPlace, Fits
  <1>2. dat' = [i \in 1 .. m |-> IF i \in (o.pos + 1) .. (o.pos + v.len)
                                  THEN Bytes(k, v)[i - o.pos] ELSE dat[i]]
    BY DEF SetInPlace, Overwritten
  <1>3. dat \in Seq(Byte) /\ Len(dat) \in Nat BY DEF IInv, Types
  <1>4. v.len \in Nat /\ b \in Byte /\ \A i \in 1 .. v.len : Bytes(k, v)[i] = b
    BY ValAssumption DEF Byte, Bytes
  <1>5. [key |-> k, loc |-> o] \in Entries /\ o \in Loc /\ o.pos \in Nat /\ o.siz \in Nat
    <2>1. [key |-> k, loc |-> o] \in Entries BY <1>1, EntryFacts DEF IInv
    <2>2. [key |-> k, loc |-> o].loc = o OBVIOUS
    <2> HIDE DEF o
    <2> QED BY <2>1, <2>2, EntryFacts DEF IInv
  <1>6. /\ End(o) <= Cap(Len(dat))
        /\ \A e \in Entries : e.key # k => End(o) <= e.loc.pos \/ End(e.loc) <= o.pos
    <2>1. [key |-> k, loc |-> o].loc = o /\ [key |-> k, loc |-> o].key = k OBVIOUS
    <2> HIDE DEF o
    <2> QED BY <1>5, <2>1 DEF IInv, InFile, Apart
  <1>7. l \in Loc /\ l.pos = o.pos /\ l.siz = v.len BY <1>4, <1>5 DEF Loc
  <1> HIDE DEF l, b, o
  <1>8. m \in Nat /\ m >= Len(dat) /\ o.pos + v.len <= m BY <1>3, <1>4, <1>5
  <1> HIDE DEF m
  <1>9. /\ \A i \in 1 .. v.len : dat'[o.pos + i] = b
        /\ \A i \in 1 .. Len(dat) : i \in (o.pos + 1) .. (o.pos + v.len) \/ dat'[i] = dat[i]
    <2>1. ASSUME NEW i \in 1 .. v.len PROVE dat'[o.pos + i] = b
      <3>1. o.pos + i \in 1 .. m /\ o.pos + i \in (o.pos + 1) .. (o.pos + v.len)
            /\ (o.pos + i) - o.pos = i
        BY <1>4, <1>5, <1>8
      <3> QED BY <1>2, <1>4, <3>1
    <2>2. 1 .. Len(dat) \subseteq 1 .. m BY <1>3, <1>8
    <2> QED BY <1>2, <2>1, <2>2
  <1>10. dat' \in Seq(Byte) /\ Len(dat') = m
    <2>1. ASSUME NEW i \in 1 .. m PROVE dat'[i] \in Byte
      <3>1. CASE i \in (o.pos + 1) .. (o.pos + v.len)
        <4>1. i - o.pos \in 1 .. v.len BY <1>4, <1>5, <3>1
        <4> QED BY <1>2, <1>4, <3>1, <4>1
      <3>2. CASE i \notin (o.pos + 1) .. (o.pos + v.len)
        <4>1. m = Len(dat) \/ m = o.pos + v.len BY DEF m
        <4>2. CASE m = Len(dat) BY <1>2, <1>3, <3>2, <4>2
        <4>3. CASE m = o.pos + v.len
          <5>1. i <= o.pos BY <1>4, <1>5, <3>2, <4>3
          <5>2. o.pos <= Len(dat)
            <6>1. [key |-> k, loc |-> o].loc = o OBVIOUS
            <6>2. o.pos + o.siz <= Len(dat) BY <1>5, <6>1 DEF IInv, InFile
            <6> QED BY <1>3, <1>5, <6>2
          <5>3. i \in 1 .. Len(dat) BY <1>3, <1>5, <5>1, <5>2
          <5> QED BY <1>2, <1>3, <3>2, <5>3
        <4> QED BY <4>1, <4>2, <4>3
      <3> QED BY <3>1, <3>2
    <2>2. dat' \in [1 .. m -> Byte] BY <1>2, <2>1
    <2> QED BY <1>8, <2>2
  <1>11. End(l) <= End(o) /\ End(l) \in Nat /\ End(o) \in Nat
    <2>1. Cap(v.len) <= Cap(o.siz) BY <1>1, <1>4, <1>5, CapMonotone DEF o
    <2> QED BY <1>4, <1>5, <1>7, <2>1, BlocksFacts DEF End
  <1>12. Written(k, v, l)
    <2>1. End(l) <= Cap(Len(dat'))
      <3>1. Cap(Len(dat)) <= Cap(m) /\ Cap(Len(dat)) \in Nat /\ Cap(m) \in Nat
        BY <1>3, <1>8, CapMonotone, BlocksFacts
      <3> QED BY <1>6, <1>10, <1>11, <3>1
    <2>2. \A e \in Entries : e.key # k => End(l) <= e.loc.pos \/ End(e.loc) <= l.pos
      <3>1. \A e \in Entries : e.loc.pos \in Nat BY EntryFacts DEF IInv
      <3> QED BY <1>6, <1>7, <1>11, <3>1
    <2> QED BY <1>7, <1>8, <1>9, <1>10, <2>1, <2>2 DEF Written, b
  <1> QED BY <1>1, <1>7, <1>12, SetInv DEF l, o

(* _addval(): the new value has blocks of its own, beyond all others.        *)
LEMMA SetAppendInv ==
  ASSUME IInv, NEW p \in Process, NEW k \in Key, NEW v \in Val, SetAppend(p, k, v)
  PROVE  IInv'
  <1> DEFINE c == Cap(Len(dat))
             pad == [i \in 1 .. (c - Len(dat)) |-> Pad]
             d == dat \o pad
             l == [pos |-> Len(dat') - v.len, siz |-> v.len]
             b == [key |-> k, tag |-> v.tag]
  <1>1. /\ p \in open /\ turn = NULL
        /\ Begin(p, k, v, l, "addkey") /\ UNCHANGED <<dir, bak, open, index, history>>
    BY DEF SetAppend
  <1>2. dat' = d \o Bytes(k, v) BY DEF SetAppend, Appended, Cap
  <1>3. dat \in Seq(Byte) /\ Len(dat) \in Nat BY DEF IInv, Types
  <1>4. /\ v.len \in Nat /\ b \in Byte /\ Bytes(k, v) \in Seq(Byte) /\ Len(Bytes(k, v)) = v.len
        /\ \A i \in 1 .. v.len : Bytes(k, v)[i] = b
    <2>1. v.len \in Nat /\ b \in Byte BY ValAssumption DEF Byte
    <2>2. Bytes(k, v) = [i \in 1 .. v.len |-> b] BY DEF Bytes
    <2> HIDE DEF b
    <2> QED BY <2>1, <2>2
  <1>5. c \in Nat /\ Len(dat) <= c BY <1>3, BlocksFacts
  <1> HIDE DEF c
  <1>6. pad \in Seq(Byte) /\ Len(pad) = c - Len(dat)
    <2>1. Pad \in Byte BY DEF Pad, Byte
    <2>2. c - Len(dat) \in Nat BY <1>3, <1>5
    <2> QED BY <2>1, <2>2
  <1> HIDE DEF pad
  <1>7. d \in Seq(Byte) /\ Len(d) = c /\ \A i \in 1 .. Len(dat) : d[i] = dat[i]
    BY <1>3, <1>5, <1>6
  <1> HIDE DEF d
  <1>8. dat' \in Seq(Byte) /\ Len(dat') = c + v.len
    <2>1. d \in Seq(Byte) /\ Bytes(k, v) \in Seq(Byte) BY <1>4, <1>7
    <2>2. Len(d \o Bytes(k, v)) = Len(d) + Len(Bytes(k, v)) /\ d \o Bytes(k, v) \in Seq(Byte)
      BY <2>1, ConcatProperties
    <2> QED BY <1>2, <1>4, <1>7, <2>2
  <1>9. l \in Loc /\ l.pos = c /\ l.siz = v.len BY <1>4, <1>5, <1>8 DEF Loc
  <1> HIDE DEF l
  <1>10. \A i \in 1 .. v.len : dat'[c + i] = b
    <2>1. ASSUME NEW i \in 1 .. v.len PROVE dat'[c + i] = b
      <3>1. c + i \in Len(d) + 1 .. Len(d) + Len(Bytes(k, v)) /\ (c + i) - Len(d) = i
        BY <1>4, <1>5, <1>7
      <3>2. dat'[c + i] = Bytes(k, v)[(c + i) - Len(d)] BY <1>2, <1>4, <1>7, <3>1, ConcatProperties
      <3> QED BY <1>4, <3>1, <3>2
    <2> QED BY <2>1
  <1>11. \A i \in 1 .. Len(dat) : dat'[i] = dat[i]
    <2>1. \A i \in 1 .. c : dat'[i] = d[i] BY <1>2, <1>4, <1>5, <1>7
    <2>2. 1 .. Len(dat) \subseteq 1 .. c BY <1>3, <1>5
    <2> QED BY <1>7, <2>1, <2>2
  <1> HIDE DEF b
  <1>12. Written(k, v, l)
    <2>1. End(l) = Cap(Len(dat'))
      <3>1. Cap(c + v.len) = c + Cap(v.len) BY <1>3, <1>4, CapSum DEF c
      <3> QED BY <1>8, <1>9, <3>1 DEF End
    <2>2. \A e \in Entries : End(e.loc) <= l.pos BY <1>9 DEF IInv, InFile, c
    <2>3. Len(dat') >= Len(dat) /\ l.pos + l.siz <= Len(dat') BY <1>3, <1>4, <1>5, <1>8, <1>9
    <2>4. End(l) <= Cap(Len(dat'))
      <3>1. c + v.len \in Nat BY <1>4, <1>5
      <3>2. Cap(c + v.len) \in Nat BY <3>1, BlocksFacts
      <3> QED BY <1>8, <2>1, <3>2
    <2> QED BY <1>8, <1>9, <1>10, <1>11, <2>2, <2>3, <2>4 DEF Written, b
  <1> QED BY <1>1, <1>9, <1>12, SetInv DEF l
------------------------------------------------------------------------------
(* What Index() makes of a file is an index.                                 *)
LEMMA IndexTyped ==
  ASSUME NEW f, f = NULL \/ f \in Seq(Line)
  PROVE  Index(f) \in [DOMAIN Index(f) -> Loc] /\ DOMAIN Index(f) \subseteq Key
  <1>1. ASSUME NEW k \in DOMAIN Index(f) PROVE k \in Key /\ Index(f)[k] \in Loc
    <2>1. PICK j \in 1 .. Len(Lines(f)) : Lines(f)[j].key = k /\ Index(f)[k] = Lines(f)[j].loc
      BY IndexFacts
    <2>2. Lines(f)[j] \in Line BY IndexFacts
    <2> QED BY <2>1, <2>2 DEF Line
  <1>2. Index(f) = [k \in DOMAIN Index(f) |-> Index(f)[k]] BY IndexFacts
  <1> QED BY <1>1, <1>2

(* One process gets another index.                                           *)
LEMMA IndexChanged ==
  ASSUME Types, NEW p \in Process, NEW ix, ix \in [DOMAIN ix -> Loc], DOMAIN ix \subseteq Key,
         index' = [index EXCEPT ![p] = ix]
  PROVE  /\ DOMAIN index' = Process /\ index'[p] = ix
         /\ \A q \in Process : q # p => index'[q] = index[q]
         /\ \A q \in Process : /\ index'[q] \in [DOMAIN index'[q] -> Loc]
                               /\ DOMAIN index'[q] \subseteq Key
  <1>1. DOMAIN index = Process /\ \A q \in Process : /\ index[q] \in [DOMAIN index[q] -> Loc]
                                                     /\ DOMAIN index[q] \subseteq Key
    BY DEF Types
  <1>2. DOMAIN index' = Process /\ index'[p] = ix BY <1>1
  <1>3. \A q \in Process : q # p => index'[q] = index[q] BY <1>1
  <1>4. ASSUME NEW q \in Process
        PROVE  index'[q] \in [DOMAIN index'[q] -> Loc] /\ DOMAIN index'[q] \subseteq Key
    <2>1. CASE q = p BY <1>2, <2>1
    <2>2. CASE q # p BY <1>1, <1>3, <2>2
    <2> QED BY <2>1, <2>2
  <1> QED BY <1>2, <1>3, <1>4

(* The index of a process that has not got the database open is empty.       *)
LEMMA EmptyIndex == <<>> \in [DOMAIN <<>> -> Loc] /\ DOMAIN <<>> = {}
  <1>1. <<>> \in [1 .. 0 -> Loc] /\ DOMAIN <<>> = {} OBVIOUS
  <1> QED BY <1>1

(* No entry is new when those of each index, of each file and of the update  *)
(* are old.                                                                  *)
LEMMA EntriesKept ==
  ASSUME \A q \in Process : \A k \in DOMAIN index'[q] : [key |-> k, loc |-> index'[q][k]] \in Entries,
         Range(Lines(dir')) \subseteq Entries, Range(Lines(bak')) \subseteq Entries,
         step' # "addkey" \/ UNCHANGED <<step, key, loc>>
  PROVE  Entries' \subseteq Entries
  <1> SUFFICES ASSUME NEW e \in Entries' PROVE e \in Entries OBVIOUS
  <1>1. e \in Line /\ e = [key |-> e.key, loc |-> e.loc] BY DEF Entries, Line
  <1>2. CASE \E p \in Process : e.key \in DOMAIN index'[p] /\ e.loc = index'[p][e.key] BY <1>1, <1>2
  <1>3. CASE e \in Range(Lines(dir')) \/ e \in Range(Lines(bak')) BY <1>3
  <1>4. CASE step' = "addkey" /\ e.key = key' /\ e.loc = loc' BY <1>1, <1>4 DEF Entries
  <1> QED BY <1>2, <1>3, <1>4 DEF Entries

(* The lines of the files are entries.                                       *)
LEMMA LinesAreEntries ==
  ASSUME Types
  PROVE  Range(Lines(dir)) \subseteq Entries /\ Range(Lines(bak)) \subseteq Entries
  <1>1. \A f : f \in Seq(Line) => Range(f) \subseteq Line BY DEF Range
  <1>2. Lines(dir) \in Seq(Line) /\ Lines(bak) \in Seq(Line) BY IndexFacts DEF Types
  <1> QED BY <1>1, <1>2 DEF Entries

(* __init__(): what the file says is what the process knows.                 *)
LEMMA OpenInv ==
  ASSUME IInv, NEW p \in Process, Open(p)
  PROVE  IInv'
  <1>1. /\ turn = NULL /\ open' = open \cup {p} /\ fresh' = fresh \cup {p}
        /\ index' = [index EXCEPT ![p] = Index(dir)]
        /\ UNCHANGED <<dat, dir, bak, turn, step, key, val, loc, updates, value, doubt, lost, messed>>
    BY DEF Open, files, update
  <1>2. Types BY DEF IInv
  <1>3. Index(dir) \in [DOMAIN Index(dir) -> Loc] /\ DOMAIN Index(dir) \subseteq Key
    BY <1>2, IndexTyped DEF Types
  <1>4. /\ DOMAIN index' = Process /\ index'[p] = Index(dir)
        /\ \A q \in Process : q # p => index'[q] = index[q]
        /\ \A q \in Process : index'[q] \in [DOMAIN index'[q] -> Loc] /\ DOMAIN index'[q] \subseteq Key
    BY <1>1, <1>2, <1>3, IndexChanged
  <1>5. Types' BY <1>1, <1>2, <1>4 DEF Types
  <1>6. Entries' \subseteq Entries
    <2>1. ASSUME NEW q \in Process, NEW k \in DOMAIN index'[q]
          PROVE  [key |-> k, loc |-> index'[q][k]] \in Entries
      <3>1. CASE q = p BY <1>2, <1>4, <3>1, EntryFacts
      <3>2. CASE q # p BY <1>2, <1>4, <3>2, EntryFacts
      <3> QED BY <3>1, <3>2
    <2> QED BY <1>1, <1>2, <2>1, EntriesKept, LinesAreEntries
  <1>7. InFile' /\ Apart' BY <1>1, <1>6, SpaceKept DEF IInv
  <1>8. step = "none" BY <1>1, <1>2 DEF Types
  <1>9. UnderWay' BY <1>1, <1>8 DEF UnderWay
  <1>10. Contents'
    <2>1. fresh \subseteq Process BY <1>2 DEF Types
    <2> QED BY <1>1, <1>4, <1>8, <2>1 DEF IInv, Contents
  <1> QED BY <1>5, <1>7, <1>9, <1>10 DEF IInv

(* close(): the process forgets its index.                                   *)
LEMMA CloseInv ==
  ASSUME IInv, NEW p \in Process, Close(p)
  PROVE  IInv'
  <1>1. /\ turn # p /\ open' = open \ {p} /\ fresh' = fresh \ {p}
        /\ index' = [index EXCEPT ![p] = <<>>]
        /\ UNCHANGED <<dat, dir, bak, turn, step, key, val, loc, updates, value, doubt, lost, messed>>
    BY DEF Close, files, update
  <1>2. Types BY DEF IInv
  <1>3. <<>> \in [DOMAIN <<>> -> Loc] /\ DOMAIN <<>> \subseteq Key BY EmptyIndex
  <1>4. /\ DOMAIN index' = Process /\ index'[p] = <<>>
        /\ \A q \in Process : q # p => index'[q] = index[q]
        /\ \A q \in Process : index'[q] \in [DOMAIN index'[q] -> Loc] /\ DOMAIN index'[q] \subseteq Key
    BY <1>1, <1>2, <1>3, IndexChanged
  <1>5. Types' BY <1>1, <1>2, <1>4 DEF Types
  <1>6. Entries' \subseteq Entries
    <2>1. ASSUME NEW q \in Process, NEW k \in DOMAIN index'[q]
          PROVE  [key |-> k, loc |-> index'[q][k]] \in Entries
      <3>1. CASE q = p BY <1>4, <3>1, EmptyIndex
      <3>2. CASE q # p BY <1>2, <1>4, <3>2, EntryFacts
      <3> QED BY <3>1, <3>2
    <2> QED BY <1>1, <1>2, <2>1, EntriesKept, LinesAreEntries
  <1>7. InFile' /\ Apart' BY <1>1, <1>6, SpaceKept DEF IInv
  <1>8. fresh \subseteq Process BY <1>2 DEF Types
  <1>9. UnderWay'
    <2>1. step # "none" => turn \in Process BY <1>2 DEF Types
    <2> QED BY <1>1, <1>4, <2>1 DEF IInv, UnderWay
  <1>10. Contents' BY <1>1, <1>4, <1>8 DEF IInv, Contents
  <1> QED BY <1>5, <1>7, <1>9, <1>10 DEF IInv
(* _addkey(): the value that was written counts from now on.                 *)
LEMMA AddKeyInv ==
  ASSUME IInv, AddKey
  PROVE  IInv'
  <1> DEFINE e == [key |-> key, loc |-> loc]
             ix == with(index[turn], key, loc)
  <1>1. /\ step = "addkey" /\ dir' = Append(Lines(dir), e) /\ index' = [index EXCEPT ![turn] = ix]
        /\ turn' = NULL /\ step' = "none" /\ key' = NULL
        /\ fresh' = fresh \cap {turn} /\ doubt' = doubt \ {key} /\ value' = [value EXCEPT ![key] = val]
        /\ UNCHANGED <<dat, bak, open, updates, lost, messed>>
    BY DEF AddKey, Done, Known, Certain, Logged
  <1>2. Types BY DEF IInv
  <1>3. turn \in Process /\ key \in Key /\ loc \in Loc /\ val \in Val /\ e \in Line
    BY <1>1, <1>2 DEF Types, Line
  <1>4. /\ ix \in [DOMAIN ix -> Loc] /\ DOMAIN ix = DOMAIN index[turn] \cup {key} /\ DOMAIN ix \subseteq Key
        /\ ix[key] = loc /\ \A k \in DOMAIN index[turn] : k # key => ix[k] = index[turn][k]
    <2>1. index[turn] \in [DOMAIN index[turn] -> Loc] /\ DOMAIN index[turn] \subseteq Key
      BY <1>2, <1>3 DEF Types
    <2> QED BY <1>3, <2>1 DEF with
  <1>5. e.key = key /\ e.loc = loc OBVIOUS
  <1> HIDE DEF ix, e
  <1>6. /\ DOMAIN index' = Process /\ index'[turn] = ix
        /\ \A q \in Process : q # turn => index'[q] = index[q]
        /\ \A q \in Process : index'[q] \in [DOMAIN index'[q] -> Loc] /\ DOMAIN index'[q] \subseteq Key
    BY <1>1, <1>2, <1>3, <1>4, IndexChanged
  <1>7. /\ dir' \in Seq(Line) /\ dir' # NULL /\ Range(dir') = Range(Lines(dir)) \cup {e}
        /\ DOMAIN Index(dir') = DOMAIN Index(dir) \cup {key}
        /\ Index(dir')[key] = loc
        /\ \A k \in DOMAIN Index(dir) : k # key => Index(dir')[k] = Index(dir)[k]
    <2>1. dir = NULL \/ dir \in Seq(Line) BY <1>2 DEF Types
    <2> QED BY <1>1, <1>3, <1>5, <2>1, IndexAppend
  <1>8. value \in [Key -> Val \cup {NULL}] /\ value' \in [Key -> Val \cup {NULL}]
        /\ value'[key] = val /\ \A k \in Key : k # key => value'[k] = value[k]
    BY <1>1, <1>2, <1>3 DEF Types
  <1>9. Types'
    <2>1. fresh' \subseteq open /\ doubt' \subseteq Key BY <1>1, <1>2 DEF Types
    <2> QED BY <1>1, <1>2, <1>6, <1>7, <1>8, <2>1 DEF Types
  <1>10. Entries' \subseteq Entries
    <2>1. e \in Entries BY <1>1, <1>3, <1>5 DEF Entries
    <2>2. ASSUME NEW q \in Process, NEW k \in DOMAIN index'[q]
          PROVE  [key |-> k, loc |-> index'[q][k]] \in Entries
      <3>1. CASE q = turn /\ k = key BY <1>4, <1>6, <2>1, <3>1 DEF e
      <3>2. CASE q = turn /\ k # key BY <1>2, <1>3, <1>4, <1>6, <3>2, EntryFacts
      <3>3. CASE q # turn BY <1>2, <1>6, <3>3, EntryFacts
      <3> QED BY <3>1, <3>2, <3>3
    <2>3. Lines(dir') = dir' BY <1>7 DEF Lines
    <2> QED BY <1>1, <1>2, <1>7, <2>1, <2>2, <2>3, EntriesKept, LinesAreEntries
  <1>11. InFile' /\ Apart' BY <1>1, <1>10, SpaceKept DEF IInv
  <1>12. UnderWay' BY <1>1 DEF UnderWay
  <1>13. Contents'
    <2>1. ASSUME NEW jx, key \in DOMAIN jx, jx[key] = loc PROVE Stored(dat, val, jx, key)
      <3>1. val # NULL BY <1>3, ValAssumption
      <3>2. SubSeq(dat, loc.pos + 1, loc.pos + loc.siz) = Bytes(key, val) BY <1>1 DEF IInv, UnderWay
      <3> QED BY <2>1, <3>1, <3>2 DEF Stored
    <2>2. Stored(dat, val, Index(dir'), key) /\ Stored(dat, val, index'[turn], key)
      BY <1>4, <1>6, <1>7, <2>1
    <2>3. ASSUME NEW k \in Key, k # key, NEW w, Stored(dat, w, Index(dir), k)
          PROVE  Stored(dat, w, Index(dir'), k)
      BY <1>7, <2>3, StoredKept
    <2>4. ASSUME NEW k \in Key, k # key, NEW w, Stored(dat, w, index[turn], k)
          PROVE  Stored(dat, w, index'[turn], k)
      BY <1>4, <1>6, <2>4, StoredKept
    <2> SUFFICES ASSUME NEW k \in Key \ doubt'
                 PROVE  /\ lost = "nothing" /\ ~messed =>
                             /\ Stored(dat, value'[k], Index(dir'), k)
                             /\ \A p \in fresh' : Stored(dat, value'[k], index'[p], k)
                        /\ lost = "index" /\ ~messed /\ value'[k] # NULL =>
                             Stored(dat, value'[k], Index(dir'), k) \/ Stored(dat, value'[k], Index(bak), k)
      BY <1>1 DEF Contents
    <2>5. CASE k = key BY <1>1, <1>8, <2>2, <2>5
    <2>6. CASE k # key
      <3>1. k \in Key \ (doubt \cup {key}) /\ value'[k] = value[k] BY <1>1, <1>8, <2>6
      <3> QED BY <1>1, <2>3, <2>4, <2>6, <3>1 DEF IInv, Contents
    <2> QED BY <2>5, <2>6
  <1> QED BY <1>9, <1>11, <1>12, <1>13 DEF IInv

(* __delitem__(): a key goes from the index in memory, and the backup goes.  *)
LEMMA DelItemInv ==
  ASSUME IInv, NEW p \in Process, NEW k \in Key, DelItem(p, k)
  PROVE  IInv'
  <1> DEFINE ix == without(index[p], k)
  <1>1. /\ p \in open /\ turn = NULL /\ index' = [index EXCEPT ![p] = ix] /\ bak' = NULL
        /\ updates < MaxUpdates /\ updates' = updates + 1
        /\ turn' = p /\ key' = k /\ val' = NULL /\ loc' = NULL /\ step' = "rename"
        /\ lost' = (IF lost = "nothing" THEN lost ELSE "backup")
        /\ messed' = (messed \/ p \notin fresh)
        /\ UNCHANGED <<dat, dir, open, value, fresh, doubt>>
    BY DEF DelItem, Begin
  <1>2. Types BY DEF IInv
  <1>3. step = "none" /\ key = NULL /\ p # NULL BY <1>1, <1>2, ProcessAssumption DEF Types
  <1>4. /\ ix \in [DOMAIN ix -> Loc] /\ DOMAIN ix = DOMAIN index[p] \ {k} /\ DOMAIN ix \subseteq Key
        /\ \A j \in DOMAIN ix : ix[j] = index[p][j]
    <2>1. index[p] \in [DOMAIN index[p] -> Loc] /\ DOMAIN index[p] \subseteq Key BY <1>2 DEF Types
    <2> QED BY <2>1 DEF without
  <1> HIDE DEF ix
  <1>5. /\ DOMAIN index' = Process /\ index'[p] = ix
        /\ \A q \in Process : q # p => index'[q] = index[q]
        /\ \A q \in Process : index'[q] \in [DOMAIN index'[q] -> Loc] /\ DOMAIN index'[q] \subseteq Key
    BY <1>1, <1>2, <1>4, IndexChanged
  <1>6. Types'
    <2>1. updates \in 0 .. MaxUpdates BY <1>2 DEF Types
    <2>2. updates' \in 0 .. MaxUpdates BY <1>1, <2>1, BoundAssumption
    <2>3. lost' \in {"nothing", "index", "backup"} /\ messed' \in BOOLEAN BY <1>1
    <2>4. DOMAIN index' = Process /\ \A q \in Process : index'[q] \in [DOMAIN index'[q] -> Loc]
                                                        /\ DOMAIN index'[q] \subseteq Key
      BY <1>5
    <2>5. step' # "none" /\ turn' # NULL /\ turn' \in open' /\ key' \in Key /\ step' # "addkey"
      BY <1>1, <1>3
    <2> QED BY <1>1, <1>2, <2>2, <2>3, <2>4, <2>5 DEF Types
  <1>7. Entries' \subseteq Entries
    <2>1. ASSUME NEW q \in Process, NEW j \in DOMAIN index'[q]
          PROVE  [key |-> j, loc |-> index'[q][j]] \in Entries
      <3>1. CASE q = p BY <1>2, <1>4, <1>5, <3>1, EntryFacts
      <3>2. CASE q # p BY <1>2, <1>5, <3>2, EntryFacts
      <3> QED BY <3>1, <3>2
    <2>2. Range(Lines(bak')) = {} BY <1>1 DEF Lines, Range
    <2> QED BY <1>1, <1>2, <2>1, <2>2, EntriesKept, LinesAreEntries
  <1>8. InFile' /\ Apart' BY <1>1, <1>7, SpaceKept DEF IInv
  <1>9. UnderWay' BY <1>1, <1>4, <1>5 DEF UnderWay
  <1>10. Contents'
    <2>1. ASSUME NEW j \in Key, j # k, NEW w, NEW q \in fresh, Stored(dat, w, index[q], j)
          PROVE  Stored(dat, w, index'[q], j)
      <3>1. fresh \subseteq Process BY <1>2 DEF Types
      <3>2. CASE q = p BY <1>4, <1>5, <2>1, <3>2, StoredKept
      <3>3. CASE q # p BY <1>5, <2>1, <3>1, <3>3
      <3> QED BY <3>2, <3>3
    <2> SUFFICES ASSUME NEW j \in Key \ (doubt \cup {k}), lost = "nothing", ~messed
                 PROVE  /\ Stored(dat, value[j], Index(dir), j)
                        /\ \A q \in fresh : Stored(dat, value[j], index'[q], j)
      BY <1>1 DEF Contents
    <2>2. j \in Key \ (doubt \cup {key}) BY <1>3, KeyAssumption
    <2> QED BY <1>3, <2>1, <2>2 DEF IInv, Contents
  <1> QED BY <1>6, <1>8, <1>9, <1>10 DEF IInv
(* _commit(), first step: the index file becomes the backup.                 *)
LEMMA CommitRenameInv ==
  ASSUME IInv, CommitRename
  PROVE  IInv'
  <1>1. /\ step = "rename" /\ step' = "create" /\ dir' = NULL
        /\ bak' = (IF dir = NULL THEN bak ELSE dir)
        /\ UNCHANGED <<dat, open, index, turn, key, val, loc, updates, value, fresh, doubt, lost, messed>>
    BY DEF CommitRename, history
  <1>2. Types BY DEF IInv
  <1>3. bak = NULL /\ lost # "index" BY <1>1 DEF IInv, UnderWay
  <1>4. bak' = dir BY <1>1, <1>3
  <1>5. Types' BY <1>1, <1>2, <1>4 DEF Types
  <1>6. Lines(dir') = <<>> /\ Range(Lines(dir')) = {} BY <1>1 DEF Lines, Range
  <1>7. Entries' \subseteq Entries
    BY <1>1, <1>2, <1>4, <1>6, EntriesKept, EntryFacts, LinesAreEntries
  <1>8. InFile' /\ Apart' BY <1>1, <1>7, SpaceKept DEF IInv
  <1>9. UnderWay' BY <1>1, <1>6 DEF IInv, UnderWay
  <1>10. Contents' BY <1>1, <1>3, <1>4 DEF IInv, Contents
  <1> QED BY <1>5, <1>8, <1>9, <1>10 DEF IInv

(* _commit(), second step: an empty index file.                              *)
LEMMA CommitCreateInv ==
  ASSUME IInv, CommitCreate
  PROVE  IInv'
  <1>1. /\ step = "create" /\ step' = "flush" /\ dir' = <<>>
        /\ UNCHANGED <<dat, bak, open, index, turn, key, val, loc, updates, value, fresh, doubt, lost, messed>>
    BY DEF CommitCreate, history
  <1>2. Types BY DEF IInv
  <1>3. lost # "index" BY <1>1 DEF IInv, UnderWay
  <1>4. Types'
    <2>1. <<>> \in Seq(Line) OBVIOUS
    <2> QED BY <1>1, <1>2, <2>1 DEF Types
  <1>5. Lines(dir') = <<>> /\ Range(Lines(dir')) = {} BY <1>1 DEF Lines, Range
  <1>6. Entries' \subseteq Entries
    BY <1>1, <1>2, <1>5, EntriesKept, EntryFacts, LinesAreEntries
  <1>7. InFile' /\ Apart' BY <1>1, <1>6, SpaceKept DEF IInv
  <1>8. UnderWay' BY <1>1, <1>5 DEF IInv, UnderWay
  <1>9. Contents' BY <1>1, <1>3 DEF IInv, Contents
  <1> QED BY <1>4, <1>7, <1>8, <1>9 DEF IInv

(* _commit(), last step: the index in memory is written.                     *)
LEMMA CommitWriteInv ==
  ASSUME IInv, CommitWrite
  PROVE  IInv'
  <1> DEFINE ix == index[turn]
             S == {[key |-> k, loc |-> ix[k]] : k \in DOMAIN ix}
  <1>1. /\ step = "flush" /\ dir' = SetToSeq(S)
        /\ turn' = NULL /\ step' = "none" /\ key' = NULL
        /\ fresh' = fresh \cap {turn} /\ doubt' = doubt \ {key} /\ value' = [value EXCEPT ![key] = val]
        /\ UNCHANGED <<dat, bak, open, index, updates, lost, messed>>
    BY DEF CommitWrite, Done, Known, Certain
  <1>2. Types BY DEF IInv
  <1>3. turn \in Process /\ key \in Key /\ val = NULL BY <1>1, <1>2 DEF Types
  <1>4. ix \in [DOMAIN ix -> Loc] /\ DOMAIN ix \subseteq Key BY <1>2, <1>3 DEF Types
  <1>5. lost # "index" /\ (messed \/ turn \in fresh) /\ key \notin DOMAIN ix
    BY <1>1 DEF IInv, UnderWay
  <1>6. S \subseteq Entries BY <1>2, <1>3, EntryFacts
  <1>7. /\ dir' \in Seq(Line) /\ dir' # NULL /\ Range(dir') = S
        /\ DOMAIN Index(dir') = DOMAIN ix
        /\ \A k \in DOMAIN ix : Index(dir')[k] = ix[k]
    <2> HIDE DEF ix
    <2> QED BY <1>1, <1>4, IndexWritten
  <1> HIDE DEF S
  <1>8. value \in [Key -> Val \cup {NULL}] /\ value' \in [Key -> Val \cup {NULL}]
        /\ value'[key] = NULL /\ \A k \in Key : k # key => value'[k] = value[k]
    BY <1>1, <1>2, <1>3 DEF Types
  <1>9. Types'
    <2>1. fresh' \subseteq open /\ doubt' \subseteq Key BY <1>1, <1>2 DEF Types
    <2> QED BY <1>1, <1>2, <1>7, <1>8, <2>1 DEF Types
  <1>10. Entries' \subseteq Entries
    <2>1. Lines(dir') = dir' BY <1>7 DEF Lines
    <2> QED BY <1>1, <1>2, <1>6, <1>7, <2>1, EntriesKept, EntryFacts, LinesAreEntries
  <1>11. InFile' /\ Apart' BY <1>1, <1>10, SpaceKept DEF IInv
  <1>12. UnderWay' BY <1>1 DEF UnderWay
  <1>13. Contents'
    <2> SUFFICES ASSUME NEW k \in Key \ doubt', lost = "nothing", ~messed
                 PROVE  /\ Stored(dat, value'[k], Index(dir'), k)
                        /\ \A p \in fresh' : Stored(dat, value'[k], index[p], k)
      BY <1>1, <1>5 DEF Contents
    <2>1. Stored(dat, value'[k], ix, k)
      <3>1. CASE k = key BY <1>5, <1>8, <3>1 DEF Stored
      <3>2. CASE k # key
        <4>1. k \in Key \ (doubt \cup {key}) /\ value'[k] = value[k] BY <1>1, <1>8, <3>2
        <4> QED BY <1>5, <4>1 DEF IInv, Contents
      <3> QED BY <3>1, <3>2
    <2>2. Stored(dat, value'[k], Index(dir'), k)
      <3> HIDE DEF ix
      <3> QED BY <1>7, <2>1, StoredKept
    <2> QED BY <1>1, <2>1, <2>2
  <1> QED BY <1>9, <1>11, <1>12, <1>13 DEF IInv

(* A crash at any point of an update.                                        *)
LEMMA CrashInv ==
  ASSUME IInv, Crash
  PROVE  IInv'
  <1>1. /\ turn # NULL /\ open' = open \ {turn} /\ index' = [index EXCEPT ![turn] = <<>>]
        /\ fresh' = {} /\ doubt' = doubt \cup {key}
        /\ lost' = (IF step \in {"create", "flush"} /\ lost = "nothing" THEN "index" ELSE lost)
        /\ turn' = NULL /\ step' = "none" /\ key' = NULL
        /\ UNCHANGED <<dat, dir, bak, value, updates, messed>>
    BY DEF Crash, Done, files
  <1>2. Types BY DEF IInv
  <1>3. turn \in Process /\ key \in Key BY <1>1, <1>2 DEF Types
  <1>4. <<>> \in [DOMAIN <<>> -> Loc] /\ DOMAIN <<>> \subseteq Key BY EmptyIndex
  <1>5. /\ DOMAIN index' = Process /\ index'[turn] = <<>>
        /\ \A q \in Process : q # turn => index'[q] = index[q]
        /\ \A q \in Process : index'[q] \in [DOMAIN index'[q] -> Loc] /\ DOMAIN index'[q] \subseteq Key
    BY <1>1, <1>2, <1>3, <1>4, IndexChanged
  <1>6. Types'
    <2>1. lost' \in {"nothing", "index", "backup"} /\ doubt' \subseteq Key BY <1>1, <1>2, <1>3 DEF Types
    <2> QED BY <1>1, <1>2, <1>5, <2>1 DEF Types
  <1>7. Entries' \subseteq Entries
    <2>1. ASSUME NEW q \in Process, NEW k \in DOMAIN index'[q]
          PROVE  [key |-> k, loc |-> index'[q][k]] \in Entries
      <3>1. CASE q = turn BY <1>5, <3>1, EmptyIndex
      <3>2. CASE q # turn BY <1>2, <1>5, <3>2, EntryFacts
      <3> QED BY <3>1, <3>2
    <2> QED BY <1>1, <1>2, <2>1, EntriesKept, LinesAreEntries
  <1>8. InFile' /\ Apart' BY <1>1, <1>7, SpaceKept DEF IInv
  <1>9. UnderWay' BY <1>1 DEF UnderWay
  <1>10. Contents'
    <2> SUFFICES ASSUME NEW k \in Key \ (doubt \cup {key})
                 PROVE  /\ lost' = "nothing" /\ ~messed => Stored(dat, value[k], Index(dir), k)
                        /\ lost' = "index" /\ ~messed /\ value[k] # NULL =>
                             Stored(dat, value[k], Index(dir), k) \/ Stored(dat, value[k], Index(bak), k)
      BY <1>1 DEF Contents
    <2> QED BY <1>1 DEF IInv, Contents
  <1> QED BY <1>6, <1>8, <1>9, <1>10 DEF IInv

------------------------------------------------------------------------------
(* No step breaks the invariant.                                             *)
LEMMA NextInv == IInv /\ [Next]_vars => IInv'
  <1> SUFFICES ASSUME IInv, [Next]_vars PROVE IInv' OBVIOUS
  <1>1. ASSUME NEW p \in Process, Open(p) \/ Close(p) PROVE IInv' BY <1>1, OpenInv, CloseInv
  <1>2. ASSUME NEW p \in Process, NEW k \in Key, NEW v \in Val, SetInPlace(p, k, v) \/ SetAppend(p, k, v)
        PROVE  IInv'
    BY <1>2, SetInPlaceInv, SetAppendInv
  <1>3. ASSUME NEW p \in Process, NEW k \in Key, DelItem(p, k) PROVE IInv' BY <1>3, DelItemInv
  <1>4. CASE AddKey BY <1>4, AddKeyInv
  <1>5. CASE CommitRename \/ CommitCreate \/ CommitWrite
    BY <1>5, CommitRenameInv, CommitCreateInv, CommitWriteInv
  <1>6. CASE Crash BY <1>6, CrashInv
  <1>7. CASE UNCHANGED vars
    <2>1. UNCHANGED <<dat, dir, bak, open, index, turn, step, key, val, loc, updates,
                      value, fresh, doubt, lost, messed>>
      BY <1>7 DEF vars, files, update, history
    <2>2. Types' BY <2>1 DEF IInv, Types
    <2>3. Entries' = Entries BY <2>1 DEF Entries
    <2>4. InFile' /\ Apart' BY <2>1, <2>3, SpaceKept DEF IInv
    <2>5. UnderWay' BY <2>1 DEF IInv, UnderWay
    <2>6. Contents' BY <2>1 DEF IInv, Contents
    <2> QED BY <2>2, <2>4, <2>5, <2>6 DEF IInv
  <1> QED BY <1>1, <1>2, <1>3, <1>4, <1>5, <1>6, <1>7 DEF Next

(* The inductive invariant: where every entry and every value of the         *)
(* database is, whatever _Database's methods do and wherever they crash.     *)
THEOREM InvHolds == Spec => []IInv
  <1>1. Init => IInv BY InitInv
  <1> QED BY <1>1, NextInv, PTL DEF Spec

(* The files hold bytes and lines, an index in memory leads from keys to     *)
(* positions, and a process is in the middle of an update exactly while step *)
(* says what comes next in it.                                               *)
THEOREM TypeHolds == Spec => []TypeOK
  <1>1. IInv => TypeOK
    <2> SUFFICES ASSUME IInv PROVE TypeOK OBVIOUS
    <2>1. Types BY DEF IInv
    <2>2. Lines(dir) \in Seq(Line) /\ Lines(bak) \in Seq(Line) BY <2>1 DEF Types, Lines
    <2>3. \A p \in Process : DOMAIN index[p] \subseteq Key /\ Range(index[p]) \subseteq Loc
      BY <2>1 DEF Types, Range
    <2> QED BY <2>1, <2>2, <2>3 DEF Types, TypeOK, Byte
  <1> QED BY <1>1, InvHolds, PTL

(* _addval() and _setval() never give a key the bytes of another one, even   *)
(* through an index that is out of date: OwnBytes.                           *)
THEOREM BytesStayOwn == Spec => []OwnBytes
  <1>1. IInv => OwnBytes
    <2> SUFFICES ASSUME IInv, NEW ix \in Indices, NEW k \in DOMAIN ix,
                        NEW i \in (ix[k].pos + 1) .. (ix[k].pos + ix[k].siz)
                 PROVE  i <= Len(dat) /\ dat[i].key = k
      BY DEF OwnBytes
    <2>1. Types BY DEF IInv
    <2> DEFINE e == [key |-> k, loc |-> ix[k]]
    <2>2. e \in Entries
      <3>1. CASE ix = Index(dir) \/ ix = Index(bak) BY <2>1, <3>1, EntryFacts
      <3>2. CASE ix \in Range(index)
        <4>1. PICK p \in Process : ix = index[p] BY <2>1, <3>2 DEF Types, Range
        <4> QED BY <2>1, <4>1, EntryFacts
      <3> QED BY <3>1, <3>2 DEF Indices
    <2>3. e.key = k /\ e.loc = ix[k] OBVIOUS
    <2> HIDE DEF e
    <2>4. ix[k].pos \in Nat /\ ix[k].siz \in Nat BY <2>1, <2>2, <2>3, EntryFacts
    <2>5. ix[k].pos + ix[k].siz <= Len(dat) /\ dat[i].key = k BY <2>2, <2>3 DEF IInv, InFile
    <2>6. Len(dat) \in Nat BY <2>1 DEF Types
    <2> QED BY <2>4, <2>5, <2>6
  <1> QED BY <1>1, InvHolds, PTL

(* Between updates the index file leads to the value each key was last set   *)
(* to by __setitem__(): Durable.                                             *)
THEOREM ValuesSurvive == Spec => []Durable
  <1>1. IInv => Durable
    <2> SUFFICES ASSUME IInv, turn = NULL, lost = "nothing", ~messed, NEW k \in Key \ doubt
                 PROVE  Holds(Index(dir), k)
      BY DEF Durable
    <2>1. step = "none" /\ key = NULL BY DEF IInv, Types
    <2>2. k \in Key \ (doubt \cup {key}) BY <2>1, KeyAssumption
    <2>3. Stored(dat, value[k], Index(dir), k) BY <2>1, <2>2 DEF IInv, Contents
    <2> QED BY <2>3 DEF Holds, Read, Stored
  <1> QED BY <1>1, InvHolds, PTL

(* At every instant of _commit(), and after a crash in it, the index file or *)
(* the backup leads to each key's value: Recoverable.                        *)
THEOREM BackupRecovers == Spec => []Recoverable
  <1>1. IInv => Recoverable
    <2> SUFFICES ASSUME IInv, lost # "backup", ~messed, NEW k \in Key \ (doubt \cup {key}), value[k] # NULL
                 PROVE  Holds(Index(dir), k) \/ Holds(Index(bak), k)
      BY DEF Recoverable
    <2>1. lost = "nothing" \/ lost = "index" BY DEF IInv, Types
    <2>2. Stored(dat, value[k], Index(dir), k) \/ Stored(dat, value[k], Index(bak), k)
      BY <2>1 DEF IInv, Contents
    <2> QED BY <2>2 DEF Holds, Read, Stored
  <1> QED BY <1>1, InvHolds, PTL
=============================================================================
