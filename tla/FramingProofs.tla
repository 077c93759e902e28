--------------------------- MODULE FramingProofs ----------------------------
(***************************************************************************)
(* The parser of Framing, resumed with its cursors after every read, has   *)
(* the result of its reference, for responses of any length and any bytes. *)
(*                                                                         *)
(* Both are loops, written as recursive functions, so the proof needs      *)
(* induction.  A set of naturals has a least element (WFMin of             *)
(* WellFoundedInduction, which takes a set and not a predicate), and from  *)
(* it follow, once and for all, that a recursion along which a rank        *)
(* decreases has a solution (RecursionExists) and what holds along it      *)
(* (RankInduction).  The loops over chunks and trailers are instances.     *)
(*                                                                         *)
(* A cursor is good if what it stands for is true of every continuation of *)
(* the bytes received so far (InChunks, InTrailers, Good): that is what    *)
(* the next call relies on and what more bytes cannot take away.           *)
(***************************************************************************)
EXTENDS Framing, SequenceTheorems, WellFoundedInduction, TLAPS

-----------------------------------------------------------------------------
(* RECURSION AND INDUCTION                                                  *)

(* A set of naturals that is not empty has a least element. *)
LEMMA LeastNatural ==
  ASSUME NEW S \in SUBSET Nat, S # {}
  PROVE  \E x \in S : \A y \in S : x <= y
<1>1. PICK x \in S : \A y \in S : ~ (<<y, x>> \in OpToRel(<, Nat))
  BY NatLessThanWellFounded, WFMin
<1>2. \A y \in S : ~(y < x)
  BY <1>1 DEF OpToRel
<1> QED BY <1>2

(* f is a solution of a recursion: where it stops its value is base, from    *)
(* elsewhere it goes on to nxt.                                              *)
Solution(f, S, stop, base, nxt, comb) ==
  \A x \in S : f[x] = IF x \in stop THEN base[x] ELSE comb[x][f[nxt[x]]]

(* Every step of the recursion decreases a rank. *)
Ranked(S, N, rank, stop, nxt) ==
  /\ N \in Nat /\ rank \in [S -> 0 .. N]
  /\ stop \in SUBSET S /\ nxt \in [S -> S]
  /\ \A x \in S \ stop : rank[nxt[x]] < rank[x]

(* Such a recursion has a solution. *)
LEMMA RecursionExists ==
  ASSUME NEW S, NEW T, NEW N, NEW rank, NEW stop, NEW nxt,
         Ranked(S, N, rank, stop, nxt),
         NEW base \in [S -> T], NEW comb \in [S -> [T -> T]]
  PROVE  \E f \in [S -> T] : Solution(f, S, stop, base, nxt, comb)
<1> USE DEF Ranked
<1> DEFINE Low(k) == {x \in S : rank[x] < k}
           Solves(k, f) ==
             /\ f \in [S -> T]
             /\ \A x \in Low(k) :
                  f[x] = IF x \in stop THEN base[x] ELSE comb[x][f[nxt[x]]]
           Bad == {k \in Nat : ~ \E f : Solves(k, f)}
           Goal == \E f \in [S -> T] : Solution(f, S, stop, base, nxt, comb)
<1>1. Low(N + 1) = S
  OBVIOUS
<1>2. \A f : Solves(N + 1, f) => Goal
  BY <1>1 DEF Solution
<1>3. Solves(0, base)
  OBVIOUS
<1> HIDE DEF Solves, Goal, Bad
<1>4. SUFFICES Bad = {}
  <2>1. N + 1 \in Nat /\ N + 1 \notin Bad
    BY <1>4
  <2>2. PICK f : Solves(N + 1, f)
    BY <2>1 DEF Bad
  <2> QED BY <2>2, <1>2 DEF Goal
<1>5. SUFFICES ASSUME Bad # {} PROVE FALSE
  OBVIOUS
<1>6. Bad \in SUBSET Nat
  BY DEF Bad
<1>7. PICK k \in Bad : \A j \in Bad : k <= j
  BY <1>5, <1>6, LeastNatural
<1>8. k \in Nat
  BY <1>6
<1>9. k # 0
  BY <1>3 DEF Bad
<1>10. k - 1 \in Nat /\ k - 1 \notin Bad
  BY <1>7, <1>9, <1>8
<1>11. PICK f : Solves(k - 1, f)
  BY <1>10 DEF Bad
<1> DEFINE g == [x \in S |-> IF rank[x] = k - 1
                             THEN IF x \in stop THEN base[x] ELSE comb[x][f[nxt[x]]]
                             ELSE f[x]]
<1>12. g \in [S -> T]
  BY <1>11 DEF Solves
<1>13. ASSUME NEW x \in Low(k)
      PROVE  g[x] = IF x \in stop THEN base[x] ELSE comb[x][g[nxt[x]]]
  <2>1. x \in S /\ rank[x] \in 0 .. N /\ rank[x] <= k - 1
    BY <1>8
  <2>2. CASE x \in stop
    <3>1. rank[x] # k - 1 => x \in Low(k - 1)
      BY <2>1, <1>8
    <3>2. rank[x] # k - 1 => f[x] = base[x]
      <4> HIDE DEF Low
      <4> QED BY <3>1, <2>2, <1>11 DEF Solves
    <3> QED BY <2>1, <2>2, <3>2
  <2>3. CASE x \notin stop
    <3>1. nxt[x] \in S /\ rank[nxt[x]] < rank[x]
      BY <2>1, <2>3
    <3>2. g[nxt[x]] = f[nxt[x]]
      BY <2>1, <3>1, <1>8
    <3>3. rank[x] # k - 1 => f[x] = comb[x][f[nxt[x]]]
      <4>1. rank[x] # k - 1 => x \in Low(k - 1)
        BY <2>1, <1>8
      <4> HIDE DEF Low
      <4> QED BY <4>1, <2>3, <1>11 DEF Solves
    <3>4. g[x] = comb[x][f[nxt[x]]]
      BY <2>1, <2>3, <3>3
    <3> QED BY <2>3, <3>2, <3>4
  <2> QED BY <2>2, <2>3
<1>14. Solves(k, g)
  BY <1>12, <1>13 DEF Solves
<1> QED BY <1>8, <1>14 DEF Bad

(* What holds where it stops, and wherever it holds one step on... *)
Inherited(S, stop, nxt, G) ==
  \A x \in S : (x \in stop \/ nxt[x] \in G) => x \in G

(* ... holds everywhere: induction along a recursion. *)
LEMMA RankInduction ==
  ASSUME NEW S, NEW N, NEW rank, NEW stop, NEW nxt,
         Ranked(S, N, rank, stop, nxt),
         NEW G, G \subseteq S, Inherited(S, stop, nxt, G)
  PROVE  G = S
<1> USE DEF Ranked, Inherited
<1> DEFINE Bad == {rank[x] : x \in S \ G}
<1> SUFFICES ASSUME S \ G # {} PROVE FALSE
  OBVIOUS
<1>1. Bad \in SUBSET Nat /\ Bad # {}
  OBVIOUS
<1>2. PICK k \in Bad : \A j \in Bad : k <= j
  BY <1>1, LeastNatural
<1>3. PICK x \in S \ G : rank[x] = k
  OBVIOUS
<1>4. x \notin stop /\ nxt[x] \in S /\ nxt[x] \notin G
  BY <1>3
<1>5. rank[nxt[x]] \in Bad /\ rank[nxt[x]] < rank[x]
  BY <1>3, <1>4
<1>6. rank[x] \in Nat /\ rank[nxt[x]] \in Nat
  BY <1>3, <1>4
<1> HIDE DEF Bad
<1> QED BY <1>2, <1>3, <1>5, <1>6

-----------------------------------------------------------------------------
(* SEARCHING                                                                *)

(* Min is the least element of a set of naturals that is not empty. *)
LEMMA MinIsLeast ==
  ASSUME NEW S \in SUBSET Nat, S # {}
  PROVE  Min(S) \in S /\ \A y \in S : Min(S) <= y
<1>1. \E x \in S : \A y \in S : x <= y
  BY LeastNatural
<1> QED BY <1>1 DEF Min

(* The needle lies in s at offset p. *)
Lies(s, p, needle) == \A i \in DOMAIN needle : s[p + i] = needle[i]

(* memmem finds the first place where the needle lies, if there is one. *)
LEMMA MemmemFirst ==
  ASSUME NEW s, NEW from \in Nat, NEW end \in Int, NEW needle, Len(needle) \in Nat
  PROVE  LET m == memmem(s, from, end, needle)
             last == end - Len(needle)
         IN  \/ m = NULL /\ \A p \in from .. last : ~Lies(s, p, needle)
             \/ /\ m \in from .. last /\ m \in Nat /\ Lies(s, m, needle)
                /\ \A p \in from .. (m - 1) : ~Lies(s, p, needle)
<1> DEFINE found == {p \in from .. (end - Len(needle)) : Lies(s, p, needle)}
<1>1. memmem(s, from, end, needle) = IF found = {} THEN NULL ELSE Min(found)
  BY DEF memmem, Lies
<1>2. found \in SUBSET Nat
  OBVIOUS
<1>3. CASE found = {}
  BY <1>1, <1>3
<1>4. CASE found # {}
  <2>1. Min(found) \in found /\ \A y \in found : Min(found) <= y
    BY <1>2, <1>4, MinIsLeast
  <2>2. memmem(s, from, end, needle) = Min(found)
    BY <1>1, <1>4
  <2> DEFINE m == Min(found)
  <2>3. /\ m \in from .. (end - Len(needle)) /\ m \in Nat /\ Lies(s, m, needle)
        /\ \A y \in from .. (end - Len(needle)) : Lies(s, y, needle) => m <= y
    BY <2>1
  <2> HIDE DEF m, found
  <2>4. \A p \in from .. (m - 1) : ~Lies(s, p, needle)
    BY <2>3
  <2> QED BY <2>2, <2>3, <2>4 DEF m
<1> QED BY <1>3, <1>4

(* Two searches that see the same places find the same. *)
LEMMA MemmemSame ==
  ASSUME NEW s, NEW t, NEW from, NEW end, NEW needle,
         \A p \in from .. (end - Len(needle)) :
           Lies(s, p, needle) <=> Lies(t, p, needle)
  PROVE  memmem(s, from, end, needle) = memmem(t, from, end, needle)
<1>1. {p \in from .. (end - Len(needle)) : Lies(s, p, needle)}
      = {p \in from .. (end - Len(needle)) : Lies(t, p, needle)}
  OBVIOUS
<1> QED BY <1>1 DEF memmem, Lies

(* A CRLF is complete in s at offset o. *)
CrLf(s, o) == o + 2 <= Len(s) /\ s[o + 1] = CR /\ s[o + 2] = LF

(* Where CRLF lies. *)
LEMMA LiesCrLf ==
  ASSUME NEW s, NEW p \in Int
  PROVE  Lies(s, p, CRLF) <=> s[p + 1] = CR /\ s[p + 2] = LF
<1>1. DOMAIN CRLF = {1, 2} /\ CRLF[1] = CR /\ CRLF[2] = LF
  BY DEF CRLF
<1> QED BY <1>1 DEF Lies

(* CRLF has two bytes. *)
LEMMA LenCrLf == Len(CRLF) = 2
BY DEF CRLF

(* LineEnd is the first CRLF from p on. *)
LEMMA LineEndFirst ==
  ASSUME NEW s \in Seq(STRING), NEW p \in Nat
  PROVE  \/ LineEnd(s, p) = NULL /\ \A o \in Nat : o >= p => ~CrLf(s, o)
         \/ /\ LineEnd(s, p) \in Nat /\ LineEnd(s, p) >= p
            /\ CrLf(s, LineEnd(s, p))
            /\ \A o \in p .. (LineEnd(s, p) - 1) : ~CrLf(s, o)
<1> DEFINE m == LineEnd(s, p)
           last == Len(s) - 2
<1>1. \/ m = NULL /\ \A o \in p .. last : ~Lies(s, o, CRLF)
      \/ /\ m \in p .. last /\ m \in Nat /\ Lies(s, m, CRLF)
         /\ \A o \in p .. (m - 1) : ~Lies(s, o, CRLF)
  <2>1. Len(s) \in Int /\ Len(CRLF) \in Nat /\ Len(CRLF) = 2
    BY LenCrLf
  <2>2. m = memmem(s, p, Len(s), CRLF)
    BY DEF LineEnd
  <2> HIDE DEF m
  <2>3. LET l == Len(s) - Len(CRLF)
        IN  \/ m = NULL /\ \A o \in p .. l : ~Lies(s, o, CRLF)
            \/ /\ m \in p .. l /\ m \in Nat /\ Lies(s, m, CRLF)
               /\ \A o \in p .. (m - 1) : ~Lies(s, o, CRLF)
    BY <2>1, <2>2, MemmemFirst
  <2> QED BY <2>1, <2>3
<1>2. \A o \in Nat : Lies(s, o, CRLF) <=> s[o + 1] = CR /\ s[o + 2] = LF
  BY LiesCrLf
<1>3. Len(s) \in Nat
  OBVIOUS
<1> HIDE DEF m
<1>4. CASE m = NULL /\ \A o \in p .. last : ~Lies(s, o, CRLF)
  <2>1. \A o \in Nat : o >= p /\ o + 2 <= Len(s) => o \in p .. last
    BY <1>3
  <2>2. \A o \in Nat : o >= p => ~CrLf(s, o)
    BY <1>2, <1>4, <2>1 DEF CrLf
  <2> QED BY <1>4, <2>2 DEF m
<1>5. CASE /\ m \in p .. last /\ m \in Nat /\ Lies(s, m, CRLF)
           /\ \A o \in p .. (m - 1) : ~Lies(s, o, CRLF)
  BY <1>2, <1>3, <1>5 DEF CrLf, m
<1> QED BY <1>1, <1>4, <1>5

-----------------------------------------------------------------------------
(* MORE BYTES ARRIVE                                                        *)

(* t begins with s. *)
Begins(s, t) ==
  /\ s \in Seq(STRING) /\ t \in Seq(STRING)
  /\ Len(s) <= Len(t)
  /\ \A i \in 1 .. Len(s) : t[i] = s[i]

(* What has come begins itself... *)
LEMMA BeginsItself == ASSUME NEW s \in Seq(STRING) PROVE Begins(s, s)
BY DEF Begins

(* ... and what continues a continuation continues the beginning. *)
LEMMA BeginsOn ==
  ASSUME NEW s, NEW t, NEW u, Begins(s, t), Begins(t, u)
  PROVE  Begins(s, u)
BY DEF Begins

(* What is complete stays where it is. *)
LEMMA CrLfStays ==
  ASSUME NEW s, NEW t, Begins(s, t), NEW o \in Nat
  PROVE  /\ CrLf(s, o) => CrLf(t, o)
         /\ o + 2 <= Len(s) => (CrLf(s, o) <=> CrLf(t, o))
<1>1. /\ Len(s) \in Nat /\ Len(t) \in Nat /\ Len(s) <= Len(t)
      /\ \A i \in 1 .. Len(s) : t[i] = s[i]
  BY DEF Begins
<1>2. ASSUME o + 2 <= Len(s)
      PROVE  /\ o + 2 <= Len(t)
             /\ t[o + 1] = s[o + 1] /\ t[o + 2] = s[o + 2]
  <2>1. o + 1 \in 1 .. Len(s) /\ o + 2 \in 1 .. Len(s)
    BY <1>1, <1>2
  <2> QED BY <1>1, <1>2, <2>1
<1> QED BY <1>2 DEF CrLf

(* A line that has ended ends there, whatever comes. *)
LEMMA LineEndStays ==
  ASSUME NEW s, NEW t, Begins(s, t), NEW p \in Nat, LineEnd(s, p) # NULL
  PROVE  LineEnd(t, p) = LineEnd(s, p)
<1> DEFINE m == LineEnd(s, p)
           n == LineEnd(t, p)
<1>1. s \in Seq(STRING) /\ t \in Seq(STRING)
  BY DEF Begins
<1>2. /\ m \in Nat /\ m >= p /\ CrLf(s, m) /\ m + 2 <= Len(s)
      /\ \A o \in p .. (m - 1) : ~CrLf(s, o)
  BY <1>1, LineEndFirst DEF CrLf
<1>3. CrLf(t, m)
  BY <1>2, CrLfStays
<1>4. \A o \in p .. (m - 1) : ~CrLf(t, o)
  <2> SUFFICES ASSUME NEW o \in p .. (m - 1) PROVE ~CrLf(t, o)
    OBVIOUS
  <2>1. o \in Nat /\ o + 2 <= Len(s)
    BY <1>1, <1>2
  <2> QED BY <2>1, <1>2, CrLfStays
<1>5. \/ n = NULL /\ \A o \in Nat : o >= p => ~CrLf(t, o)
      \/ /\ n \in Nat /\ n >= p /\ CrLf(t, n)
         /\ \A o \in p .. (n - 1) : ~CrLf(t, o)
  BY <1>1, LineEndFirst
<1> HIDE DEF m, n
<1>6. n \in Nat /\ n >= p /\ CrLf(t, n) /\ \A o \in p .. (n - 1) : ~CrLf(t, o)
  BY <1>2, <1>3, <1>5
<1>7. ~(n < m) /\ ~(m < n)
  BY <1>2, <1>3, <1>4, <1>6
<1> QED BY <1>2, <1>6, <1>7 DEF m, n

(* So do the bytes up to any offset received. *)
LEMMA SubSeqStays ==
  ASSUME NEW s, NEW t, Begins(s, t), NEW m \in Nat \ {0}, NEW n \in Int,
         n <= Len(s)
  PROVE  SubSeq(t, m, n) = SubSeq(s, m, n)
<1>1. CASE n < m
  BY <1>1, SubSeqEmpty
<1>2. CASE m <= n
  <2>1. \A i \in m .. n : s[i] \in STRING /\ t[i] = s[i]
    BY DEF Begins
  <2>2. /\ SubSeq(s, m, n) \in Seq(STRING) /\ Len(SubSeq(s, m, n)) = n - m + 1
        /\ \A i \in 1 .. n - m + 1 : SubSeq(s, m, n)[i] = s[m + i - 1]
    BY <1>2, <2>1, SubSeqProperties
  <2>3. /\ SubSeq(t, m, n) \in Seq(STRING) /\ Len(SubSeq(t, m, n)) = n - m + 1
        /\ \A i \in 1 .. n - m + 1 : SubSeq(t, m, n)[i] = t[m + i - 1]
    BY <1>2, <2>1, SubSeqProperties
  <2>4. \A i \in 1 .. n - m + 1 : SubSeq(t, m, n)[i] = SubSeq(s, m, n)[i]
    BY <2>1, <2>2, <2>3
  <2> QED BY <1>2, <2>2, <2>3, <2>4, SeqEqual
<1> QED BY <1>1, <1>2

-----------------------------------------------------------------------------
(* CHUNK SIZES                                                              *)

(* A recursive function is well defined: the equation in its definition has  *)
(* a solution, and so the function is one.                                   *)
LEMMA HexValueType ==
  ASSUME NEW ds \in Seq(DOMAIN Digits)
  PROVE  HexValue(ds) \in Nat \cup {NULL}
<1> DEFINE S == 0 .. Len(ds)
           T == Nat \cup {NULL}
           Digit(v, i) == IF v = NULL \/ v > MAX_SIZE_T \div 16 THEN NULL
                          ELSE 16 * v + Digits[ds[i]]
           stop == {0}
           rank == [i \in S |-> i]
           base == [i \in S |-> 0]
           nxt  == [i \in S |-> IF i = 0 THEN 0 ELSE i - 1]
           comb == [i \in S |-> [v \in T |-> IF i = 0 THEN 0 ELSE Digit(v, i)]]
           val  == CHOOSE f : f = [i \in S |-> IF i = 0 THEN 0
                                               ELSE Digit(f[i - 1], i)]
<1>1. Len(ds) \in Nat /\ \A i \in 1 .. Len(ds) : Digits[ds[i]] \in Nat
  BY DEF Digits
<1>2. ASSUME NEW i \in S, i # 0, NEW v \in T PROVE Digit(v, i) \in T
  <2>1. i \in 1 .. Len(ds)
    BY <1>1, <1>2
  <2>2. Digits[ds[i]] \in Nat
    BY <1>1, <2>1
  <2>3. CASE v = NULL
    BY <2>3
  <2>4. CASE v \in Nat
    BY <2>2, <2>4
  <2> QED BY <2>3, <2>4
<1>3. base \in [S -> T] /\ Ranked(S, Len(ds), rank, stop, nxt)
  BY <1>1 DEF Ranked
<1>4. comb \in [S -> [T -> T]]
  <2>1. ASSUME NEW i \in S, NEW v \in T
        PROVE  (IF i = 0 THEN 0 ELSE Digit(v, i)) \in T
    BY <1>2
  <2> HIDE DEF S, T, Digit
  <2> QED BY <2>1
<1>5. PICK f \in [S -> T] : Solution(f, S, stop, base, nxt, comb)
  <2> HIDE DEF S, T, stop, rank, base, nxt, comb
  <2> QED BY <1>3, <1>4, RecursionExists
<1>6. \A i \in S : f[i] = IF i \in stop THEN base[i] ELSE comb[i][f[nxt[i]]]
  BY <1>5 DEF Solution
<1>7. f = [i \in S |-> IF i = 0 THEN 0 ELSE Digit(f[i - 1], i)]
  <2>1. ASSUME NEW i \in S
        PROVE  f[i] = IF i = 0 THEN 0 ELSE Digit(f[i - 1], i)
    <3>1. CASE i = 0
      BY <1>6, <3>1
    <3>2. CASE i # 0
      <4>1. nxt[i] = i - 1 /\ i - 1 \in S /\ f[i - 1] \in T
        BY <1>1, <1>6, <3>2
      <4> HIDE DEF Digit, S, T, nxt
      <4>2. comb[i][f[i - 1]] = Digit(f[i - 1], i)
        BY <4>1, <3>2
      <4> QED BY <1>6, <3>2, <4>1, <4>2
    <3> QED BY <3>1, <3>2
  <2> HIDE DEF Digit, S, T
  <2> QED BY <2>1, <1>6
<1>8. val = [i \in S |-> IF i = 0 THEN 0 ELSE Digit(val[i - 1], i)]
  <2> HIDE DEF Digit, S
  <2> QED BY <1>7
<1>9. HexValue(ds) = val[Len(ds)]
  BY DEF HexValue
<1> HIDE DEF val
<1> DEFINE Bad == {i \in S : val[i] \notin T}
<1>10. Bad = {}
  <2> SUFFICES ASSUME Bad # {} PROVE FALSE
    OBVIOUS
  <2>1. Bad \in SUBSET Nat
    OBVIOUS
  <2>2. PICK i \in Bad : \A j \in Bad : i <= j
    BY <2>1, LeastNatural
  <2>3. i # 0
    BY <1>8, <1>3
  <2>4. i - 1 \in S /\ i - 1 \notin Bad /\ i \in S
    BY <2>2, <2>3
  <2>5. val[i - 1] \in T
    BY <2>4
  <2>6. val[i] = Digit(val[i - 1], i)
    <3> HIDE DEF Digit
    <3> QED BY <1>8, <2>3, <2>4
  <2>7. val[i] \in T
    BY <1>2, <2>3, <2>4, <2>5, <2>6
  <2> QED BY <2>7
<1> QED BY <1>1, <1>9, <1>10

(* Where the ";" of an extension lies. *)
LEMMA LiesExt ==
  ASSUME NEW s, NEW p \in Int
  PROVE  Lies(s, p, EXT) <=> s[p + 1] = ";"
<1>1. DOMAIN EXT = {1} /\ EXT[1] = ";"
  BY DEF EXT
<1> QED BY <1>1 DEF Lies

(* The digits of a size end in its line, at the ";" or at the end. *)
LEMMA ExtensionAt ==
  ASSUME NEW s, NEW p \in Nat, NEW eol \in Nat
  PROVE  LET ext == memmem(s, p, eol, EXT)
             last == IF ext = NULL THEN eol ELSE ext
         IN  last \in Nat /\ last <= eol
<1>1. Len(EXT) = 1
  BY DEF EXT
<1>2. eol \in Int /\ Len(EXT) \in Nat
  BY <1>1
<1> DEFINE ext == memmem(s, p, eol, EXT)
<1>3. ext = NULL \/ (ext \in p .. (eol - Len(EXT)) /\ ext \in Nat)
  BY <1>2, MemmemFirst
<1> HIDE DEF ext
<1>4. ext = NULL \/ (ext \in Nat /\ ext <= eol)
  BY <1>1, <1>3
<1> QED BY <1>4 DEF ext

(* They are bytes of the response... *)
LEMMA DigitsType ==
  ASSUME NEW s \in Seq(STRING), NEW p \in Nat, NEW eol \in Nat, eol <= Len(s)
  PROVE  SizeDigits(s, p, eol) \in Seq(STRING)
<1> DEFINE ext == memmem(s, p, eol, EXT)
           last == IF ext = NULL THEN eol ELSE ext
<1>1. last \in Nat /\ last <= eol
  BY ExtensionAt
<1>2. SizeDigits(s, p, eol) = SubSeq(s, p + 1, last)
  BY DEF SizeDigits
<1> HIDE DEF ext, last
<1>3. \A i \in (p + 1) .. last : s[i] \in STRING
  BY <1>1
<1> QED BY <1>1, <1>2, <1>3, SubSeqProperties

(* ... that do not depend on what comes after the line. *)
LEMMA DigitsStay ==
  ASSUME NEW s, NEW t, Begins(s, t), NEW p \in Nat, NEW eol \in Nat,
         eol <= Len(s)
  PROVE  SizeDigits(t, p, eol) = SizeDigits(s, p, eol)
<1> DEFINE ext == memmem(s, p, eol, EXT)
           last == IF ext = NULL THEN eol ELSE ext
<1>1. memmem(t, p, eol, EXT) = ext
  <2>1. ASSUME NEW q \in p .. (eol - Len(EXT))
        PROVE  Lies(s, q, EXT) <=> Lies(t, q, EXT)
    <3>1. Len(EXT) = 1
      BY DEF EXT
    <3>2. q \in Int /\ q + 1 \in 1 .. Len(s)
      BY <3>1 DEF Begins
    <3>3. t[q + 1] = s[q + 1]
      BY <3>2 DEF Begins
    <3> QED BY <3>2, <3>3, LiesExt
  <2> QED BY <2>1, MemmemSame
<1>2. last \in Nat /\ last <= Len(s)
  <2>1. Len(s) \in Nat
    BY DEF Begins
  <2>2. last \in Nat /\ last <= eol
    BY ExtensionAt
  <2> QED BY <2>1, <2>2
<1>3. /\ SizeDigits(s, p, eol) = SubSeq(s, p + 1, last)
      /\ SizeDigits(t, p, eol) = SubSeq(t, p + 1, last)
  BY <1>1 DEF SizeDigits
<1> HIDE DEF last
<1>4. p + 1 \in Nat \ {0} /\ last \in Int
  BY <1>2
<1> QED BY <1>2, <1>3, <1>4, SubSeqStays

(* The size of a chunk is a number or an error, and is read from the bytes   *)
(* of its line alone.                                                        *)
LEMMA ChunkSizeType ==
  ASSUME NEW s \in Seq(STRING), NEW p \in Nat, NEW eol \in Nat, eol <= Len(s)
  PROVE  chunk_size(s, p, eol) \in Nat \cup {NULL}
<1> DEFINE size == SizeDigits(s, p, eol)
<1>1. size \in Seq(STRING)
  BY DigitsType
<1>2. chunk_size(s, p, eol) =
        IF size = <<>> \/ ~(\A i \in DOMAIN size : size[i] \in DOMAIN Digits)
        THEN NULL ELSE HexValue(size)
  BY DEF chunk_size
<1> HIDE DEF size
<1>3. CASE \A i \in DOMAIN size : size[i] \in DOMAIN Digits
  <2>1. size \in Seq(DOMAIN Digits)
    <3>1. DOMAIN size = 1 .. Len(size) /\ Len(size) \in Nat
      BY <1>1
    <3>2. size = [i \in 1 .. Len(size) |-> size[i]]
      BY <1>1
    <3> QED BY <1>3, <3>1, <3>2, IsASeq
  <2> QED BY <1>2, <1>3, <2>1, HexValueType
<1>4. CASE ~ \A i \in DOMAIN size : size[i] \in DOMAIN Digits
  BY <1>2, <1>4
<1> QED BY <1>3, <1>4

(* Neither does the size. *)
LEMMA ChunkSizeStays ==
  ASSUME NEW s, NEW t, Begins(s, t), NEW p \in Nat, NEW eol \in Nat,
         eol <= Len(s)
  PROVE  chunk_size(t, p, eol) = chunk_size(s, p, eol)
BY DigitsStay DEF chunk_size

(* No line, no size. *)
LEMMA ChunkSizeNone ==
  ASSUME NEW s, NEW p \in Nat
  PROVE  chunk_size(s, p, NULL) = NULL
<1>1. Len(EXT) = 1 /\ Len(EXT) \in Nat /\ NULL \in Int /\ NULL = -1
  BY DEF NULL, EXT
<1>2. memmem(s, p, NULL, EXT) = NULL
  <2> DEFINE ext == memmem(s, p, NULL, EXT)
  <2>1. ext = NULL \/ ext \in p .. (NULL - Len(EXT))
    BY <1>1, MemmemFirst
  <2> HIDE DEF ext
  <2>2. ext = NULL
    BY <1>1, <2>1
  <2> QED BY <2>2 DEF ext
<1>3. SubSeq(s, p + 1, NULL) = <<>>
  BY <1>1, SubSeqEmpty
<1>4. SizeDigits(s, p, NULL) = <<>>
  BY <1>2, <1>3 DEF SizeDigits
<1> QED BY <1>4 DEF chunk_size

-----------------------------------------------------------------------------
(* CHUNKS                                                                   *)

SizeAt(s, p) == chunk_size(s, p, LineEnd(s, p))

(* Where the chunk at p ends, with its CRLF. *)
After(s, p) == LineEnd(s, p) + 4 + SizeAt(s, p)

ChunkData(s, p) == SubSeq(s, LineEnd(s, p) + 3, LineEnd(s, p) + 2 + SizeAt(s, p))

(* A chunk with data begins at p and is complete. *)
Whole(s, p) ==
  /\ LineEnd(s, p) # NULL /\ SizeAt(s, p) # NULL /\ SizeAt(s, p) # 0
  /\ After(s, p) <= Len(s)
  /\ SubSeq(s, After(s, p) - 1, After(s, p)) = CRLF

(* The line of a chunk lies in the response and its size is a number or an   *)
(* error.                                                                    *)
LEMMA LineFacts ==
  ASSUME NEW s \in Seq(STRING), NEW p \in Nat, LineEnd(s, p) # NULL
  PROVE  /\ LineEnd(s, p) \in Nat /\ LineEnd(s, p) >= p
         /\ LineEnd(s, p) + 2 <= Len(s)
         /\ SizeAt(s, p) \in Nat \cup {NULL}
<1>1. /\ LineEnd(s, p) \in Nat /\ LineEnd(s, p) >= p
      /\ LineEnd(s, p) + 2 <= Len(s)
  BY LineEndFirst DEF CrLf
<1>2. LineEnd(s, p) <= Len(s)
  BY <1>1
<1>3. SizeAt(s, p) \in Nat \cup {NULL}
  BY <1>1, <1>2, ChunkSizeType DEF SizeAt
<1> QED BY <1>1, <1>3

(* The extent of a whole chunk. *)
LEMMA WholeFacts ==
  ASSUME NEW s \in Seq(STRING), NEW p \in Nat, Whole(s, p)
  PROVE  /\ LineEnd(s, p) \in Nat /\ LineEnd(s, p) >= p
         /\ SizeAt(s, p) \in Nat \ {0}
         /\ After(s, p) \in 0 .. Len(s) /\ After(s, p) > p
         /\ ChunkData(s, p) \in Seq(STRING)
         /\ Len(ChunkData(s, p)) = SizeAt(s, p)
<1> DEFINE e == LineEnd(s, p)
           z == SizeAt(s, p)
<1>1. e \in Nat /\ e >= p /\ z \in Nat \ {0} /\ e + 4 + z <= Len(s)
  BY LineFacts DEF Whole, After
<1> HIDE DEF e, z
<1>2. Len(s) \in Nat
  OBVIOUS
<1>3. \A i \in (e + 3) .. (e + 2 + z) : s[i] \in STRING
  BY <1>1, <1>2
<1>4. /\ SubSeq(s, e + 3, e + 2 + z) \in Seq(STRING)
      /\ Len(SubSeq(s, e + 3, e + 2 + z)) = z
  <2>1. e + 3 \in Int /\ e + 2 + z \in Int /\ e + 3 <= e + 2 + z
        /\ (e + 2 + z) - (e + 3) + 1 = z
    BY <1>1
  <2> QED BY <2>1, <1>3, SubSeqProperties
<1>5. ChunkData(s, p) = SubSeq(s, e + 3, e + 2 + z) /\ After(s, p) = e + 4 + z
  BY DEF ChunkData, After, e, z
<1>6. e + 4 + z \in 0 .. Len(s) /\ e + 4 + z > p
  BY <1>1, <1>2
<1> QED BY <1>1, <1>4, <1>5, <1>6 DEF e, z

(* More bytes change neither a complete line nor its size... *)
LEMMA LineStays ==
  ASSUME NEW s, NEW t, Begins(s, t), NEW p \in Nat, LineEnd(s, p) # NULL
  PROVE  LineEnd(t, p) = LineEnd(s, p) /\ SizeAt(t, p) = SizeAt(s, p)
<1>1. s \in Seq(STRING) /\ Len(s) \in Nat
  BY DEF Begins
<1>2. LineEnd(s, p) \in Nat /\ LineEnd(s, p) <= Len(s)
  BY <1>1, LineFacts
<1>3. LineEnd(t, p) = LineEnd(s, p)
  BY LineEndStays
<1> QED BY <1>2, <1>3, ChunkSizeStays DEF SizeAt

(* ... nor a whole chunk. *)
LEMMA WholeStays ==
  ASSUME NEW s, NEW t, Begins(s, t), NEW p \in Nat, Whole(s, p)
  PROVE  /\ Whole(t, p) /\ After(t, p) = After(s, p)
         /\ ChunkData(t, p) = ChunkData(s, p) /\ SizeAt(t, p) = SizeAt(s, p)
<1>1. s \in Seq(STRING) /\ Len(s) \in Nat /\ Len(t) \in Nat /\ Len(s) <= Len(t)
  BY DEF Begins
<1>2. LineEnd(t, p) = LineEnd(s, p) /\ SizeAt(t, p) = SizeAt(s, p)
  BY LineStays DEF Whole
<1>3. After(t, p) = After(s, p)
  BY <1>2 DEF After
<1> DEFINE e == LineEnd(s, p)
           z == SizeAt(s, p)
<1>4. /\ e \in Nat /\ e >= p /\ z \in Nat \ {0}
      /\ After(s, p) \in 0 .. Len(s) /\ After(s, p) = e + 4 + z
  BY <1>1, WholeFacts DEF After
<1> HIDE DEF e, z
<1>5. /\ SubSeq(t, After(s, p) - 1, After(s, p))
           = SubSeq(s, After(s, p) - 1, After(s, p))
      /\ SubSeq(t, e + 3, e + 2 + z) = SubSeq(s, e + 3, e + 2 + z)
  <2>1. /\ After(s, p) - 1 \in Nat \ {0} /\ After(s, p) \in Int
        /\ After(s, p) <= Len(s)
        /\ e + 3 \in Nat \ {0} /\ e + 2 + z \in Int /\ e + 2 + z <= Len(s)
    BY <1>1, <1>4
  <2>2. SubSeq(t, After(s, p) - 1, After(s, p))
          = SubSeq(s, After(s, p) - 1, After(s, p))
    BY <2>1, SubSeqStays
  <2>3. SubSeq(t, e + 3, e + 2 + z) = SubSeq(s, e + 3, e + 2 + z)
    BY <2>1, SubSeqStays
  <2> QED BY <2>2, <2>3
<1>6. ChunkData(t, p) = ChunkData(s, p)
  BY <1>2, <1>5 DEF ChunkData, e, z
<1>7. After(s, p) <= Len(t)
  BY <1>1, <1>4
<1>8. Whole(t, p)
  BY <1>2, <1>3, <1>5, <1>7 DEF Whole
<1> QED BY <1>2, <1>3, <1>6, <1>8

(* The loops over chunks: one step is one chunk. *)
Offsets(s) == 0 .. Len(s)
Halts(s) == {p \in Offsets(s) : ~Whole(s, p)}
Step(s) == [p \in Offsets(s) |-> IF Whole(s, p) THEN After(s, p) ELSE p]
Rest(s) == [p \in Offsets(s) |-> Len(s) - p]

(* Every whole chunk moves a loop towards the end of the bytes. *)
LEMMA ChunkSteps ==
  ASSUME NEW s \in Seq(STRING)
  PROVE  Ranked(Offsets(s), Len(s), Rest(s), Halts(s), Step(s))
<1>1. Len(s) \in Nat
  OBVIOUS
<1>2. Rest(s) \in [Offsets(s) -> 0 .. Len(s)]
  BY <1>1 DEF Rest, Offsets
<1>3. \A p \in Offsets(s) :
        Whole(s, p) => After(s, p) \in Offsets(s) /\ After(s, p) > p
  BY WholeFacts DEF Offsets
<1>4. Step(s) \in [Offsets(s) -> Offsets(s)]
  BY <1>3 DEF Step
<1>5. ASSUME NEW p \in Offsets(s) \ Halts(s)
      PROVE  Rest(s)[Step(s)[p]] < Rest(s)[p]
  <2>1. /\ p \in 0 .. Len(s) /\ Whole(s, p) /\ Step(s)[p] = After(s, p)
        /\ After(s, p) \in 0 .. Len(s) /\ After(s, p) > p
    BY <1>3 DEF Halts, Offsets, Step
  <2>2. Rest(s)[p] = Len(s) - p /\ Rest(s)[After(s, p)] = Len(s) - After(s, p)
    BY <2>1 DEF Rest, Offsets
  <2> QED BY <1>1, <2>1, <2>2
<1> QED BY <1>1, <1>2, <1>4, <1>5 DEF Halts, Ranked

(* A loop over chunks that keeps a value of T computes one. *)
ChunkSolution(f, s, base, comb) ==
  \A p \in Offsets(s) :
    f[p] = IF Whole(s, p) THEN comb[p][f[After(s, p)]] ELSE base[p]

(* Such a loop computes a value from every offset. *)
LEMMA ChunkRecursion ==
  ASSUME NEW s \in Seq(STRING), NEW T, NEW base \in [Offsets(s) -> T],
         NEW comb \in [Offsets(s) -> [T -> T]]
  PROVE  \E f \in [Offsets(s) -> T] : ChunkSolution(f, s, base, comb)
<1>1. PICK f \in [Offsets(s) -> T] :
        Solution(f, Offsets(s), Halts(s), base, Step(s), comb)
  BY ChunkSteps, RecursionExists
<1>2. ChunkSolution(f, s, base, comb)
  BY <1>1 DEF Solution, Halts, Step, ChunkSolution
<1> QED BY <1>2

(* What holds where no whole chunk begins, and before a chunk when it holds  *)
(* after it, holds at every offset.                                          *)
LEMMA ChunkInduction ==
  ASSUME NEW s \in Seq(STRING), NEW G, G \subseteq Offsets(s),
         \A p \in Offsets(s) : ~Whole(s, p) => p \in G,
         \A p \in Offsets(s) : Whole(s, p) /\ After(s, p) \in G => p \in G
  PROVE  G = Offsets(s)
<1>1. Inherited(Offsets(s), Halts(s), Step(s), G)
  BY DEF Halts, Step, Inherited
<1> QED BY <1>1, ChunkSteps, RankInduction

-----------------------------------------------------------------------------
(* THE REFERENCE                                                            *)

Decodings == [rc : {DONE, AGAIN, ERROR}, body : Seq(STRING)]

(* What follows where no whole chunk does. *)
Rump(s, p) ==
  [rc   |-> IF LineEnd(s, p) = NULL THEN AGAIN
            ELSE IF SizeAt(s, p) = NULL THEN ERROR
            ELSE IF SizeAt(s, p) = 0
            THEN IF TrailersEnd(s, LineEnd(s, p) + 2) THEN DONE ELSE AGAIN
            ELSE IF After(s, p) > Len(s) THEN AGAIN ELSE ERROR,
   body |-> <<>>]

(* The reference has a result where no whole chunk begins... *)
LEMMA RumpType ==
  ASSUME NEW s \in Seq(STRING), NEW p
  PROVE  Rump(s, p) \in Decodings
BY DEF Rump, Decodings

Grown(s, p, rest) == [rest EXCEPT !.body = ChunkData(s, p) \o @]

(* ... and one before a whole chunk if there is one after it. *)
LEMMA GrownType ==
  ASSUME NEW s \in Seq(STRING), NEW p \in Offsets(s), Whole(s, p),
         NEW d \in Decodings
  PROVE  /\ Grown(s, p, d) \in Decodings
         /\ Grown(s, p, d).rc = d.rc
         /\ Grown(s, p, d).body = ChunkData(s, p) \o d.body
<1>1. ChunkData(s, p) \in Seq(STRING)
  BY WholeFacts DEF Offsets
<1>2. d.body \in Seq(STRING)
  BY DEF Decodings
<1>3. ChunkData(s, p) \o d.body \in Seq(STRING)
  BY <1>1, <1>2, ConcatProperties
<1> QED BY <1>3 DEF Grown, Decodings

(* The equation of the reference in terms of whole chunks. *)
ChunkedCase(s, f, p) ==
  LET eol  == LineEnd(s, p)
      size == chunk_size(s, p, eol)
      next == eol + 2 + size
      rest == f[next + 2]
  IN  IF eol = NULL THEN [rc |-> AGAIN, body |-> <<>>]
      ELSE IF size = NULL THEN [rc |-> ERROR, body |-> <<>>]
      ELSE IF size = 0
      THEN [rc |-> IF TrailersEnd(s, eol + 2) THEN DONE ELSE AGAIN,
            body |-> <<>>]
      ELSE IF next + 2 > Len(s) THEN [rc |-> AGAIN, body |-> <<>>]
      ELSE IF SubSeq(s, next + 1, next + 2) # CRLF
      THEN [rc |-> ERROR, body |-> <<>>]
      ELSE [rest EXCEPT !.body = SubSeq(s, eol + 3, next) \o @]

(* The cases of the reference are these two. *)
LEMMA ChunkedCaseIs ==
  ASSUME NEW s \in Seq(STRING), NEW f, NEW p \in Offsets(s)
  PROVE  ChunkedCase(s, f, p) = IF Whole(s, p) THEN Grown(s, p, f[After(s, p)])
                                ELSE Rump(s, p)
<1> DEFINE e == LineEnd(s, p)
           z == SizeAt(s, p)
           n == e + 2 + z
           a == e + 4 + z
<1>1. p \in Nat /\ Len(s) \in Nat
  BY DEF Offsets
<1>2. e # NULL => e \in Nat /\ z \in Nat \cup {NULL}
  BY <1>1, LineFacts
<1>3. /\ ChunkedCase(s, f, p) =
           (IF e = NULL THEN [rc |-> AGAIN, body |-> <<>>]
            ELSE IF z = NULL THEN [rc |-> ERROR, body |-> <<>>]
            ELSE IF z = 0
            THEN [rc |-> IF TrailersEnd(s, e + 2) THEN DONE ELSE AGAIN,
                  body |-> <<>>]
            ELSE IF n + 2 > Len(s) THEN [rc |-> AGAIN, body |-> <<>>]
            ELSE IF SubSeq(s, n + 1, n + 2) # CRLF
            THEN [rc |-> ERROR, body |-> <<>>]
            ELSE [f[n + 2] EXCEPT !.body = SubSeq(s, e + 3, n) \o @])
      /\ Grown(s, p, f[a]) = [f[a] EXCEPT !.body = SubSeq(s, e + 3, n) \o @]
      /\ Rump(s, p) =
           [rc |-> IF e = NULL THEN AGAIN
                   ELSE IF z = NULL THEN ERROR
                   ELSE IF z = 0
                   THEN IF TrailersEnd(s, e + 2) THEN DONE ELSE AGAIN
                   ELSE IF a > Len(s) THEN AGAIN ELSE ERROR,
            body |-> <<>>]
      /\ Whole(s, p) <=> /\ e # NULL /\ z # NULL /\ z # 0 /\ a <= Len(s)
                         /\ SubSeq(s, a - 1, a) = CRLF
      /\ After(s, p) = a
  BY DEF ChunkedCase, Grown, Rump, Whole, After, ChunkData, SizeAt
<1> HIDE DEF e, z
<1>4. CASE e = NULL \/ z = NULL
  BY <1>3, <1>4
<1>5. CASE e # NULL /\ z # NULL
  <2>1. e \in Nat /\ z \in Nat
    BY <1>2, <1>5
  <2>2. n + 2 = a /\ n + 1 = a - 1 /\ a \in Nat
    BY <2>1
  <2> HIDE DEF n, a
  <2>3. CASE z = 0
    BY <1>3, <1>5, <2>3
  <2>4. CASE z # 0 /\ a > Len(s)
    BY <1>1, <1>3, <1>5, <2>2, <2>4
  <2>5. CASE z # 0 /\ ~(a > Len(s)) /\ SubSeq(s, a - 1, a) # CRLF
    BY <1>1, <1>3, <1>5, <2>2, <2>5
  <2>6. CASE z # 0 /\ ~(a > Len(s)) /\ SubSeq(s, a - 1, a) = CRLF
    <3>1. a <= Len(s)
      BY <1>1, <2>2, <2>6
    <3> QED BY <1>3, <1>5, <2>2, <2>6, <3>1
  <2> QED BY <2>3, <2>4, <2>5, <2>6
<1> QED BY <1>4, <1>5

(* So the reference is well defined, and satisfies its equation. *)
LEMMA ChunkedEquation ==
  ASSUME NEW s \in Seq(STRING)
  PROVE  LET D == ChunkedFrom(s)
         IN  /\ D \in [Offsets(s) -> Decodings]
             /\ \A p \in Offsets(s) :
                  D[p] = IF Whole(s, p) THEN Grown(s, p, D[After(s, p)])
                         ELSE Rump(s, p)
<1> DEFINE base == [p \in Offsets(s) |-> Rump(s, p)]
           comb == [p \in Offsets(s) |-> [d \in Decodings |->
                      IF Whole(s, p) THEN Grown(s, p, d) ELSE d]]
           D == ChunkedFrom(s)
<1>1. base \in [Offsets(s) -> Decodings]
  BY RumpType
<1>2. comb \in [Offsets(s) -> [Decodings -> Decodings]]
  BY GrownType
<1>3. PICK f \in [Offsets(s) -> Decodings] : ChunkSolution(f, s, base, comb)
  <2> HIDE DEF base, comb
  <2> QED BY <1>1, <1>2, ChunkRecursion
<1>4. \A p \in Offsets(s) : Whole(s, p) => After(s, p) \in Offsets(s)
  BY WholeFacts DEF Offsets
<1>5. \A p \in Offsets(s) : f[p] = ChunkedCase(s, f, p)
  <2> SUFFICES ASSUME NEW p \in Offsets(s) PROVE f[p] = ChunkedCase(s, f, p)
    OBVIOUS
  <2>1. Whole(s, p) => comb[p][f[After(s, p)]] = Grown(s, p, f[After(s, p)])
    BY <1>3, <1>4
  <2>2. base[p] = Rump(s, p)
    OBVIOUS
  <2> HIDE DEF base, comb
  <2> QED BY <1>3, <2>1, <2>2, ChunkedCaseIs DEF ChunkSolution
<1>6. \E g : g = [p \in Offsets(s) |-> ChunkedCase(s, g, p)]
  BY <1>3, <1>5
<1>7. D = [p \in Offsets(s) |-> ChunkedCase(s, D, p)]
  <2>1. D = CHOOSE g : g = [p \in Offsets(s) |-> ChunkedCase(s, g, p)]
    BY DEF ChunkedFrom, ChunkedCase, Offsets
  <2> HIDE DEF D
  <2> QED BY <1>6, <2>1
<1> HIDE DEF D
<1>8. \A p \in Offsets(s) :
        D[p] = IF Whole(s, p) THEN Grown(s, p, D[After(s, p)]) ELSE Rump(s, p)
  BY <1>7, ChunkedCaseIs
<1> DEFINE G == {p \in Offsets(s) : D[p] \in Decodings}
<1>9. G = Offsets(s)
  <2>1. \A p \in Offsets(s) : ~Whole(s, p) => p \in G
    BY <1>8, RumpType
  <2>2. \A p \in Offsets(s) : Whole(s, p) /\ After(s, p) \in G => p \in G
    BY <1>8, GrownType
  <2>3. G \subseteq Offsets(s)
    OBVIOUS
  <2> HIDE DEF G
  <2> QED BY <2>1, <2>2, <2>3, ChunkInduction
<1>10. \A p \in Offsets(s) : D[p] \in Decodings
  BY <1>9
<1>11. D \in [Offsets(s) -> Decodings]
  BY <1>7, <1>10
<1> QED BY <1>8, <1>11 DEF D

-----------------------------------------------------------------------------
(* THE SECOND PASS                                                          *)

(* A size is a number or an error, and there is none without a line. *)
LEMMA SizeAtType ==
  ASSUME NEW s \in Seq(STRING), NEW p \in Nat
  PROVE  /\ SizeAt(s, p) \in Nat \cup {NULL}
         /\ SizeAt(s, p) # NULL => LineEnd(s, p) # NULL
<1>1. CASE LineEnd(s, p) = NULL
  BY <1>1, ChunkSizeNone DEF SizeAt
<1>2. CASE LineEnd(s, p) # NULL
  BY <1>2, LineFacts
<1> QED BY <1>1, <1>2

CopyCase(s, f, p) ==
  IF SizeAt(s, p) <= 0 THEN <<>> ELSE ChunkData(s, p) \o f[After(s, p)]

(* The copy follows the sizes, whatever they are. *)
LEMMA CopyEquation ==
  ASSUME NEW s \in Seq(STRING)
  PROVE  \A p \in Nat : CopyChunks(s)[p] = CopyCase(s, CopyChunks(s), p)
<1> DEFINE U == {s[i] : i \in Nat}
           T == Seq(U)
           Ends(p) == SizeAt(s, p) <= 0
           stop == {p \in Nat : Ends(p)}
           rank == [p \in Nat |-> IF p <= Len(s) THEN Len(s) - p ELSE 0]
           base == [p \in Nat |-> <<>>]
           nxt  == [p \in Nat |-> IF Ends(p) THEN p ELSE After(s, p)]
           comb == [p \in Nat |-> [d \in T |->
                      IF Ends(p) THEN d ELSE ChunkData(s, p) \o d]]
           C == CopyChunks(s)
<1>1. Len(s) \in Nat
  OBVIOUS
<1>2. ASSUME NEW p \in Nat, ~Ends(p)
      PROVE  /\ LineEnd(s, p) \in Nat /\ LineEnd(s, p) >= p
             /\ LineEnd(s, p) + 2 <= Len(s) /\ SizeAt(s, p) \in Nat \ {0}
             /\ After(s, p) \in Nat /\ After(s, p) > p /\ ChunkData(s, p) \in T
  <2>1. SizeAt(s, p) \in Nat \ {0} /\ LineEnd(s, p) # NULL
    BY <1>2, SizeAtType DEF NULL
  <2>2. /\ LineEnd(s, p) \in Nat /\ LineEnd(s, p) >= p
        /\ LineEnd(s, p) + 2 <= Len(s)
    BY <2>1, LineFacts
  <2>3. After(s, p) \in Nat /\ After(s, p) > p
    BY <2>1, <2>2 DEF After
  <2>4. ChunkData(s, p) \in T
    <3> DEFINE m == LineEnd(s, p) + 3
               n == LineEnd(s, p) + 2 + SizeAt(s, p)
    <3>1. m \in Int /\ n \in Int /\ \A i \in m .. n : i \in Nat
      BY <2>1, <2>2
    <3>2. \A i \in m .. n : s[i] \in U
      BY <3>1
    <3>3. ChunkData(s, p) = SubSeq(s, m, n)
      BY DEF ChunkData
    <3> HIDE DEF m, n, U
    <3> QED BY <3>1, <3>2, <3>3, SubSeqProperties
  <2> QED BY <2>1, <2>2, <2>3, <2>4
<1>3. Ranked(Nat, Len(s), rank, stop, nxt)
  <2>1. rank \in [Nat -> 0 .. Len(s)]
    BY <1>1
  <2>2. nxt \in [Nat -> Nat]
    BY <1>2
  <2>3. ASSUME NEW p \in Nat \ stop PROVE rank[nxt[p]] < rank[p]
    <3>1. p \in Nat /\ ~Ends(p) /\ nxt[p] = After(s, p)
      OBVIOUS
    <3>2. /\ LineEnd(s, p) \in Nat /\ LineEnd(s, p) >= p
          /\ LineEnd(s, p) + 2 <= Len(s)
          /\ After(s, p) \in Nat /\ After(s, p) > p
      <4> HIDE DEF Ends, T
      <4> QED BY <1>2, <3>1
    <3>3. After(s, p) \in Nat /\ After(s, p) > p /\ p + 2 <= Len(s)
      BY <1>1, <3>1, <3>2
    <3> HIDE DEF nxt, stop, Ends
    <3> QED BY <1>1, <3>1, <3>3
  <2> HIDE DEF rank, nxt, Ends
  <2> QED BY <1>1, <2>1, <2>2, <2>3 DEF Ranked
<1>4. base \in [Nat -> T]
  BY EmptySeq
<1>5. comb \in [Nat -> [T -> T]]
  <2>1. ASSUME NEW p \in Nat, NEW d \in T
        PROVE  (IF Ends(p) THEN d ELSE ChunkData(s, p) \o d) \in T
    <3>1. ~Ends(p) => ChunkData(s, p) \in T
      BY <1>2
    <3> HIDE DEF Ends, U
    <3> QED BY <3>1, ConcatProperties
  <2> HIDE DEF T, Ends
  <2> QED BY <2>1
<1>6. PICK f \in [Nat -> T] : Solution(f, Nat, stop, base, nxt, comb)
  <2> HIDE DEF T, stop, rank, base, nxt, comb
  <2> QED BY <1>3, <1>4, <1>5, RecursionExists
<1>7. \A p \in Nat : f[p] = CopyCase(s, f, p)
  <2> SUFFICES ASSUME NEW p \in Nat PROVE f[p] = CopyCase(s, f, p)
    OBVIOUS
  <2>1. CASE Ends(p)
    BY <1>6, <2>1 DEF Solution, CopyCase
  <2>2. CASE ~Ends(p)
    <3>1. nxt[p] = After(s, p) /\ p \notin stop /\ f[After(s, p)] \in T
      BY <1>2, <1>6, <2>2
    <3>2. comb[p][f[After(s, p)]] = ChunkData(s, p) \o f[After(s, p)]
      <4> HIDE DEF T, Ends
      <4> QED BY <2>2, <3>1
    <3> HIDE DEF nxt, comb, stop, T
    <3> QED BY <1>6, <2>2, <3>1, <3>2 DEF Solution, CopyCase
  <2> QED BY <2>1, <2>2
<1>8. \E g : g = [p \in Nat |-> CopyCase(s, g, p)]
  <2> HIDE DEF T
  <2> QED BY <1>6, <1>7
<1>9. C = CHOOSE g : g = [p \in Nat |-> CopyCase(s, g, p)]
  BY DEF CopyChunks, CopyCase, SizeAt, LineEnd, After, ChunkData
<1> HIDE DEF C
<1>10. C = [p \in Nat |-> CopyCase(s, C, p)]
  BY <1>8, <1>9
<1> QED BY <1>10 DEF C

(* It copies what the reference decodes. *)
LEMMA CopyDecodes ==
  ASSUME NEW s \in Seq(STRING), NEW q \in Offsets(s),
         ChunkedFrom(s)[q].rc = DONE
  PROVE  CopyChunks(s)[q] = ChunkedFrom(s)[q].body
<1> DEFINE D == ChunkedFrom(s)
           C == CopyChunks(s)
           G == {p \in Offsets(s) : D[p].rc = DONE => C[p] = D[p].body}
<1>1. /\ D \in [Offsets(s) -> Decodings]
      /\ \A p \in Offsets(s) :
           D[p] = IF Whole(s, p) THEN Grown(s, p, D[After(s, p)]) ELSE Rump(s, p)
  BY ChunkedEquation
<1>2. \A p \in Offsets(s) : C[p] = CopyCase(s, C, p)
  BY CopyEquation DEF Offsets
<1> HIDE DEF D, C
<1>3. ASSUME NEW p \in Offsets(s), ~Whole(s, p) PROVE p \in G
  <2>1. D[p] = Rump(s, p) /\ C[p] = CopyCase(s, C, p)
    BY <1>1, <1>2, <1>3
  <2>2. D[p].rc = DONE => SizeAt(s, p) = 0 /\ D[p].body = <<>>
    BY <2>1 DEF Rump, DONE, AGAIN, ERROR
  <2> QED BY <2>1, <2>2 DEF CopyCase
<1>4. ASSUME NEW p \in Offsets(s), Whole(s, p), After(s, p) \in G PROVE p \in G
  <2>1. /\ After(s, p) \in Offsets(s) /\ D[After(s, p)] \in Decodings
        /\ SizeAt(s, p) \in Nat \ {0}
    BY <1>1, <1>4, WholeFacts DEF Offsets
  <2>2. /\ D[p].rc = D[After(s, p)].rc
        /\ D[p].body = ChunkData(s, p) \o D[After(s, p)].body
    <3>1. D[p] = Grown(s, p, D[After(s, p)])
      BY <1>1, <1>4
    <3>2. Whole(s, p)
      BY <1>4
    <3> HIDE DEF G
    <3>3. LET d == D[After(s, p)]
          IN  /\ Grown(s, p, d).rc = d.rc
              /\ Grown(s, p, d).body = ChunkData(s, p) \o d.body
      BY <2>1, <3>2, GrownType
    <3> QED BY <3>1, <3>3
  <2>3. C[p] = ChunkData(s, p) \o C[After(s, p)]
    <3>1. C[p] = CopyCase(s, C, p) /\ ~(SizeAt(s, p) <= 0)
      BY <1>2, <2>1
    <3> QED BY <3>1 DEF CopyCase
  <2> QED BY <1>4, <2>2, <2>3
<1>5. G \subseteq Offsets(s)
  OBVIOUS
<1>6. G = Offsets(s)
  <2> HIDE DEF G
  <2> QED BY <1>3, <1>4, <1>5, ChunkInduction
<1> QED BY <1>6 DEF D, C

-----------------------------------------------------------------------------
(* TRAILERS                                                                 *)

(* Two bytes that are a CRLF. *)
LEMMA SubSeqCrLf ==
  ASSUME NEW s \in Seq(STRING), NEW o \in Nat, o + 2 <= Len(s)
  PROVE  SubSeq(s, o + 1, o + 2) = CRLF <=> CrLf(s, o)
<1> DEFINE u == SubSeq(s, o + 1, o + 2)
<1>1. o + 1 \in Int /\ o + 2 \in Int /\ \A i \in (o + 1) .. (o + 2) : s[i] \in STRING
  OBVIOUS
<1>2. /\ u \in Seq(STRING) /\ Len(u) = 2
      /\ \A i \in 1 .. 2 : u[i] = s[o + i]
  <2>1. /\ u \in Seq(STRING)
        /\ Len(u) = IF o + 1 <= o + 2 THEN (o + 2) - (o + 1) + 1 ELSE 0
        /\ \A i \in 1 .. ((o + 2) - (o + 1) + 1) : u[i] = s[(o + 1) + i - 1]
    BY <1>1, SubSeqProperties
  <2>2. /\ (o + 2) - (o + 1) + 1 = 2 /\ o + 1 <= o + 2
        /\ \A i \in 1 .. 2 : (o + 1) + i - 1 = o + i
    OBVIOUS
  <2> HIDE DEF u
  <2> QED BY <2>1, <2>2
<1>3. DOMAIN u = {1, 2} /\ u[1] = s[o + 1] /\ u[2] = s[o + 2]
  BY <1>2
<1> HIDE DEF u
<1>4. u = CRLF <=> u[1] = CR /\ u[2] = LF
  BY <1>2, <1>3 DEF CRLF
<1> QED BY <1>3, <1>4 DEF CrLf, u

(* The line that begins at o is empty, and ends a message whose trailers     *)
(* begin at z.                                                               *)
EmptyLine(t, z, o) ==
  CrLf(t, o) /\ (o = z \/ (o >= z + 2 /\ CrLf(t, o - 2)))

(* The trailers end with an empty line. *)
LEMMA TrailersEndIs ==
  ASSUME NEW s \in Seq(STRING), NEW z \in Nat
  PROVE  TrailersEnd(s, z) <=> \E o \in Nat : o >= z /\ EmptyLine(s, z, o)
<1>1. Len(s) \in Nat
  OBVIOUS
<1>2. ASSUME NEW o \in z .. (Len(s) - 2)
      PROVE  /\ SubSeq(s, o + 1, o + 2) = CRLF <=> CrLf(s, o)
             /\ o >= z + 2 => (SubSeq(s, o - 1, o) = CRLF <=> CrLf(s, o - 2))
  <2>1. o \in Nat /\ o + 2 <= Len(s)
    BY <1>1
  <2>2. SubSeq(s, o + 1, o + 2) = CRLF <=> CrLf(s, o)
    BY <2>1, SubSeqCrLf
  <2>3. ASSUME o >= z + 2
        PROVE  SubSeq(s, o - 1, o) = CRLF <=> CrLf(s, o - 2)
    <3> DEFINE k == o - 2
    <3>1. k \in Nat /\ k + 2 <= Len(s) /\ o - 1 = k + 1 /\ o = k + 2
      BY <1>1, <2>1, <2>3
    <3> HIDE DEF k
    <3>2. SubSeq(s, k + 1, k + 2) = CRLF <=> CrLf(s, k)
      BY <3>1, SubSeqCrLf
    <3> QED BY <3>1, <3>2 DEF k
  <2> QED BY <2>2, <2>3
<1>3. \A o \in Nat : o >= z /\ EmptyLine(s, z, o) => o \in z .. (Len(s) - 2)
  BY <1>1 DEF EmptyLine, CrLf
<1>4. \A o \in z .. (Len(s) - 2) : o \in Nat /\ o >= z
  BY <1>1
<1>5. TrailersEnd(s, z) <=> \E o \in z .. (Len(s) - 2) : EmptyLine(s, z, o)
  BY <1>2 DEF TrailersEnd, EmptyLine
<1> QED BY <1>3, <1>4, <1>5

(* The parser is in the trailers that begin at z, at offset q: no line       *)
(* before q is empty, and the one at q has begun there, or is not empty,     *)
(* however the bytes go on.                                                  *)
InTrailers(s, z, q, st) ==
  /\ s \in Seq(STRING)
  /\ z \in Nat /\ z >= 2 /\ CrLf(s, z - 2)
  /\ q \in Nat /\ z <= q /\ q <= Len(s)
  /\ \A t : Begins(s, t) => \A o \in z .. (q - 1) : ~EmptyLine(t, z, o)
  /\ \/ st = "trailer_start" /\ (q = z \/ (q >= z + 2 /\ CrLf(s, q - 2)))
     \/ /\ st = "trailer_nonempty" /\ q > z
        /\ \A t : Begins(s, t) => ~CrLf(t, q - 1) /\ ~CrLf(t, q - 2)

(* More bytes do not move the parser. *)
LEMMA InTrailersStays ==
  ASSUME NEW s, NEW t, Begins(s, t), NEW z, NEW q, NEW st,
         InTrailers(s, z, q, st)
  PROVE  InTrailers(t, z, q, st)
<1>1. s \in Seq(STRING) /\ t \in Seq(STRING) /\ Len(s) <= Len(t)
  BY DEF Begins
<1>2. CrLf(t, z - 2)
  <2>1. z - 2 \in Nat /\ CrLf(s, z - 2)
    BY DEF InTrailers
  <2> QED BY <2>1, CrLfStays
<1>3. q \in Nat /\ z \in Nat /\ z >= 2 /\ z <= q /\ q <= Len(t)
  BY <1>1 DEF InTrailers
<1>4. \A u : Begins(t, u) => Begins(s, u)
  BY BeginsOn
<1>5. q >= z + 2 /\ CrLf(s, q - 2) => CrLf(t, q - 2)
  <2>1. q >= z + 2 => q - 2 \in Nat
    BY <1>3
  <2> QED BY <2>1, CrLfStays
<1>6. \A u : Begins(t, u) => \A o \in z .. (q - 1) : ~EmptyLine(u, z, o)
  BY <1>4 DEF InTrailers
<1>7. \/ st = "trailer_start" /\ (q = z \/ (q >= z + 2 /\ CrLf(t, q - 2)))
      \/ /\ st = "trailer_nonempty" /\ q > z
         /\ \A u : Begins(t, u) => ~CrLf(u, q - 1) /\ ~CrLf(u, q - 2)
  BY <1>4, <1>5 DEF InTrailers
<1> QED BY <1>1, <1>2, <1>3, <1>6, <1>7 DEF InTrailers

(* The byte before a line is a line feed. *)
LEMMA LineStart ==
  ASSUME NEW s, NEW z, NEW q, InTrailers(s, z, q, "trailer_start")
  PROVE  q \in Nat /\ q >= 2 /\ q <= Len(s) /\ s[q] = LF
BY DEF InTrailers, CrLf

(* The first CRLF from q on ends a line that is not empty, unless it is at   *)
(* the start of one.                                                         *)
LEMMA FieldLine ==
  ASSUME NEW s, NEW t, Begins(s, t), NEW z, NEW q, NEW st,
         InTrailers(s, z, q, st),
         NEW e \in Nat, e >= q, CrLf(t, e),
         \A o \in q .. (e - 1) : ~CrLf(t, o),
         ~(st = "trailer_start" /\ e = q)
  PROVE  ~EmptyLine(t, z, e)
<1>1. q \in Nat /\ z \in Nat /\ z >= 2 /\ z <= q /\ q <= Len(s)
  BY DEF InTrailers
<1>2. e # z
  BY <1>1 DEF InTrailers
<1>3. ASSUME e >= z + 2, CrLf(t, e - 2) PROVE FALSE
  <2>1. e - 2 < q
    BY <1>1, <1>3
  <2>2. e = q \/ e = q + 1
    BY <1>1, <2>1
  <2>3. CASE st = "trailer_start"
    <3>1. e = q + 1
      BY <2>2, <2>3
    <3>2. e - 2 = q - 1 /\ e - 2 + 1 = q
      BY <3>1, <1>1
    <3>3. t[q] = CR
      BY <1>3, <3>2 DEF CrLf
    <3>4. s[q] = LF /\ q \in 1 .. Len(s)
      BY <1>1, <2>3, LineStart
    <3>5. t[q] = LF
      BY <3>4 DEF Begins
    <3> QED BY <3>3, <3>5 DEF CR, LF
  <2>4. CASE st # "trailer_start"
    <3>1. ~CrLf(t, q - 1) /\ ~CrLf(t, q - 2)
      BY <2>4 DEF InTrailers
    <3>2. e - 2 = q - 2 \/ e - 2 = q - 1
      BY <1>1, <2>2
    <3> QED BY <1>3, <3>1, <3>2
  <2> QED BY <2>3, <2>4
<1> QED BY <1>2, <1>3 DEF EmptyLine

(* THE LINE AT q: an empty one ends the message, *)
LEMMA EmptyEnds ==
  ASSUME NEW s, NEW z, NEW q, InTrailers(s, z, q, "trailer_start"),
         LineEnd(s, q) = q
  PROVE  TrailersEnd(s, z)
<1>1. s \in Seq(STRING) /\ q \in Nat /\ z \in Nat /\ q >= z
  BY DEF InTrailers
<1>2. CrLf(s, q)
  <2>1. q # NULL
    BY <1>1 DEF NULL
  <2> QED BY <1>1, <2>1, LineEndFirst
<1>3. q = z \/ (q >= z + 2 /\ CrLf(s, q - 2))
  BY DEF InTrailers
<1>4. EmptyLine(s, z, q)
  BY <1>2, <1>3 DEF EmptyLine
<1> QED BY <1>1, <1>4, TrailersEndIs

(* another is passed over, *)
LEMMA FieldPassed ==
  ASSUME NEW s, NEW z, NEW q, NEW st, InTrailers(s, z, q, st),
         LineEnd(s, q) # NULL, ~(st = "trailer_start" /\ LineEnd(s, q) = q)
  PROVE  InTrailers(s, z, LineEnd(s, q) + 2, "trailer_start")
<1> DEFINE e == LineEnd(s, q)
<1>1. /\ s \in Seq(STRING) /\ q \in Nat /\ z \in Nat /\ q >= z
      /\ z >= 2 /\ CrLf(s, z - 2)
  BY DEF InTrailers
<1>2. /\ e \in Nat /\ e >= q /\ CrLf(s, e) /\ e + 2 <= Len(s)
      /\ \A o \in q .. (e - 1) : ~CrLf(s, o)
  BY <1>1, LineEndFirst DEF CrLf
<1>3. ~(st = "trailer_start" /\ e = q)
  OBVIOUS
<1> HIDE DEF e
<1>4. ASSUME NEW t, Begins(s, t), NEW o \in z .. (e + 1)
      PROVE  ~EmptyLine(t, z, o)
  <2>1. t \in Seq(STRING) /\ Len(s) \in Nat /\ Len(t) \in Nat
    BY <1>4 DEF Begins
  <2>2. CASE o <= q - 1
    <3>1. o \in z .. (q - 1)
      BY <1>1, <1>2, <2>2
    <3> QED BY <1>4, <3>1 DEF InTrailers
  <2>3. \A i \in q .. (e - 1) : ~CrLf(t, i)
    <3> SUFFICES ASSUME NEW i \in q .. (e - 1) PROVE ~CrLf(t, i)
      OBVIOUS
    <3>1. i \in Nat /\ i + 2 <= Len(s)
      BY <1>1, <1>2, <2>1
    <3> QED BY <1>2, <1>4, <3>1, CrLfStays
  <2>4. CASE o >= q /\ o <= e - 1
    <3>1. o \in q .. (e - 1)
      BY <1>1, <1>2, <2>4
    <3> QED BY <2>3, <3>1 DEF EmptyLine
  <2>5. CASE o = e
    <3>1. CrLf(t, e)
      BY <1>2, <1>4, CrLfStays
    <3> QED BY <1>2, <1>3, <1>4, <2>3, <2>5, <3>1, FieldLine
  <2>6. CASE o = e + 1
    <3>1. t[e + 2] = LF
      BY <1>2, <1>4, CrLfStays DEF CrLf
    <3>2. o + 1 = e + 2
      BY <1>2, <2>6
    <3> QED BY <3>1, <3>2 DEF EmptyLine, CrLf, CR, LF
  <2> QED BY <1>1, <1>2, <2>2, <2>4, <2>5, <2>6
<1>5. /\ e + 2 \in Nat /\ z <= e + 2 /\ e + 2 >= z + 2 /\ (e + 2) - 1 = e + 1
      /\ (e + 2) - 2 = e
  BY <1>1, <1>2
<1>6. InTrailers(s, z, e + 2, "trailer_start")
  BY <1>1, <1>2, <1>4, <1>5 DEF InTrailers
<1> QED BY <1>6 DEF e

(* and of one that is not complete the cursor keeps what matters. *)
LEMMA CursorKept ==
  ASSUME NEW s, NEW z, NEW q, NEW st, InTrailers(s, z, q, st),
         LineEnd(s, q) = NULL
  PROVE  LET cur == trailer_cursor(s, q, st)
         IN  InTrailers(s, z, cur.pos, cur.st)
<1> DEFINE n == Len(s)
           k == n - (IF s[n] = CR THEN 1 ELSE 0)
<1>1. /\ s \in Seq(STRING) /\ q \in Nat /\ z \in Nat /\ q >= z /\ q <= n
      /\ z >= 2 /\ CrLf(s, z - 2) /\ n \in Nat
  BY DEF InTrailers
<1>2. \A o \in Nat : o >= q => ~CrLf(s, o)
  BY <1>1, LineEndFirst DEF NULL
<1>3. CASE \/ n = q
           \/ st = "trailer_start" /\ SubSeq(s, q + 1, n) = <<CR>>
  BY <1>3 DEF trailer_cursor
<1>4. CASE ~ \/ n = q
             \/ st = "trailer_start" /\ SubSeq(s, q + 1, n) = <<CR>>
  <2>1. /\ trailer_cursor(s, q, st).pos = k
        /\ trailer_cursor(s, q, st).st = "trailer_nonempty"
    BY <1>4 DEF trailer_cursor
  <2>2. n > q /\ (k = n \/ k = n - 1) /\ k \in Nat /\ k >= q /\ k <= n
        /\ (k = n => s[n] # CR) /\ (k = n - 1 => s[n] = CR)
    BY <1>1, <1>4
  <2> HIDE DEF k, n
  <2>3. st = "trailer_start" => k > q
    <3> SUFFICES ASSUME st = "trailer_start", k = q PROVE FALSE
      BY <1>1, <2>2
    <3>1. n = q + 1 /\ s[n] = CR
      BY <1>1, <2>2
    <3>2. q + 1 \in Int /\ n \in Int /\ \A i \in (q + 1) .. n : s[i] \in STRING
      BY <1>1, <3>1 DEF n
    <3> DEFINE u == SubSeq(s, q + 1, n)
    <3>3. /\ u \in Seq(STRING) /\ Len(u) = 1 /\ u[1] = CR
      <4>1. /\ u \in Seq(STRING)
            /\ Len(u) = IF q + 1 <= n THEN n - (q + 1) + 1 ELSE 0
            /\ \A i \in 1 .. (n - (q + 1) + 1) : u[i] = s[(q + 1) + i - 1]
        BY <3>2, SubSeqProperties
      <4>2. n - (q + 1) + 1 = 1 /\ (q + 1) + 1 - 1 = n /\ q + 1 <= n
        BY <1>1, <3>1
      <4> HIDE DEF u
      <4> QED BY <3>1, <4>1, <4>2
    <3> HIDE DEF u
    <3>4. u = <<CR>>
      BY <3>3
    <3> QED BY <1>4, <3>4 DEF u
  <2>4. ASSUME NEW t, Begins(s, t), NEW o \in q .. (k - 1) PROVE ~CrLf(t, o)
    <3>1. CASE o + 2 <= n
      <4>1. o \in Nat /\ o >= q
        BY <1>1, <2>2
      <4>2. ~CrLf(s, o)
        BY <1>2, <4>1
      <4> QED BY <2>4, <3>1, <4>1, <4>2, CrLfStays DEF n
    <3>2. CASE o + 2 > n
      <4>1. o = n - 1 /\ k = n /\ o + 1 = n /\ n \in 1 .. n
        BY <1>1, <2>2, <3>2
      <4>2. t[n] = s[n] /\ s[n] # CR
        BY <2>2, <2>4, <4>1 DEF Begins, n
      <4> QED BY <4>1, <4>2 DEF CrLf
    <3> QED BY <1>1, <2>2, <3>1, <3>2
  <2>5. ASSUME NEW t, Begins(s, t), NEW o \in z .. (k - 1)
        PROVE  ~EmptyLine(t, z, o)
    <3>1. CASE o <= q - 1
      <4>1. o \in z .. (q - 1)
        BY <1>1, <2>2, <3>1
      <4> QED BY <2>5, <4>1 DEF InTrailers
    <3>2. CASE o >= q
      <4>1. o \in q .. (k - 1)
        BY <1>1, <2>2, <3>2
      <4> QED BY <2>4, <2>5, <4>1 DEF EmptyLine
    <3> QED BY <1>1, <2>2, <3>1, <3>2
  <2>6. ASSUME NEW t, Begins(s, t) PROVE ~CrLf(t, k - 1) /\ ~CrLf(t, k - 2)
    <3>1. CASE k = q
      <4>1. st # "trailer_start"
        BY <1>1, <2>3, <3>1
      <4> QED BY <2>6, <3>1, <4>1 DEF InTrailers
    <3>2. CASE k > q
      <4>1. k - 1 \in q .. (k - 1)
        BY <1>1, <2>2, <3>2
      <4>2. ~CrLf(t, k - 1)
        BY <2>4, <2>6, <4>1
      <4>3. CASE k - 2 >= q
        <5>1. k - 2 \in q .. (k - 1)
          BY <1>1, <2>2, <4>3
        <5> QED BY <2>4, <2>6, <4>2, <5>1
      <4>4. CASE k - 2 = q - 1
        <5>1. CASE st = "trailer_start"
          <6>1. s[q] = LF /\ q \in 1 .. n
            BY <1>1, <5>1, LineStart
          <6>2. t[q] = LF
            BY <2>6, <6>1 DEF Begins, n
          <6>3. k - 2 + 1 = q
            BY <1>1, <2>2, <4>4
          <6> QED BY <4>2, <6>2, <6>3 DEF CrLf, CR, LF
        <5>2. CASE st # "trailer_start"
          BY <2>6, <4>2, <4>4, <5>2 DEF InTrailers
        <5> QED BY <5>1, <5>2
      <4> QED BY <1>1, <2>2, <3>2, <4>3, <4>4
    <3> QED BY <1>1, <2>2, <3>1, <3>2
  <2>7. k > z
    <3>1. st # "trailer_start" => q > z
      BY DEF InTrailers
    <3> QED BY <1>1, <2>2, <2>3, <3>1
  <2>8. InTrailers(s, z, k, "trailer_nonempty")
    BY <1>1, <2>2, <2>5, <2>6, <2>7 DEF InTrailers, n
  <2> QED BY <2>1, <2>8
<1> QED BY <1>3, <1>4

(* Without a complete line from q on no line ends the message. *)
LEMMA NoEmptyLine ==
  ASSUME NEW s, NEW z, NEW q, NEW st, InTrailers(s, z, q, st),
         LineEnd(s, q) = NULL
  PROVE  ~TrailersEnd(s, z)
<1>1. s \in Seq(STRING) /\ q \in Nat /\ z \in Nat /\ q >= z
  BY DEF InTrailers
<1>2. \A o \in Nat : o >= q => ~CrLf(s, o)
  BY <1>1, LineEndFirst DEF NULL
<1>3. \A o \in z .. (q - 1) : ~EmptyLine(s, z, o)
  BY <1>1, BeginsItself DEF InTrailers
<1>4. ASSUME NEW o \in Nat, o >= z PROVE ~EmptyLine(s, z, o)
  <2>1. CASE o >= q
    BY <1>2, <2>1 DEF EmptyLine
  <2>2. CASE o < q
    <3>1. o \in z .. (q - 1)
      BY <1>1, <1>4, <2>2
    <3> QED BY <1>3, <3>1
  <2> QED BY <1>1, <2>1, <2>2
<1> QED BY <1>1, <1>4, TrailersEndIs

-----------------------------------------------------------------------------
(* THE LOOP OVER TRAILERS                                                   *)

Parsers ==
  [headers_done : BOOLEAN, hdr_scan_pos : Nat, body_offset : Nat,
   content_length : Nat \cup {NULL}, chunked : BOOLEAN,
   dechunk_pos : Nat, dechunk_total : Nat,
   dechunk_state : {"chunks", "trailer_start", "trailer_nonempty"}]

LineState(r, p) ==
  IF p = r.dechunk_pos THEN r.dechunk_state ELSE "trailer_start"

TrailerHalts(s, r, p) ==
  \/ LineEnd(s, p) = NULL
  \/ LineState(r, p) = "trailer_start" /\ LineEnd(s, p) = p

TrailerResult(s, r, p) ==
  LET cur == trailer_cursor(s, p, LineState(r, p))
  IN  IF LineEnd(s, p) = NULL
      THEN Result(AGAIN, [r EXCEPT !.dechunk_state = cur.st,
                                   !.dechunk_pos = cur.pos])
      ELSE Body([r EXCEPT !.dechunk_state = LineState(r, p), !.dechunk_pos = p],
                CopyChunks(s)[r.body_offset], r.dechunk_total)

TrailerCase(s, r, f, p) ==
  LET eol == memmem(s, p, Len(s), CRLF)
      st  == IF p = r.dechunk_pos THEN r.dechunk_state
                                  ELSE "trailer_start"
      cur == trailer_cursor(s, p, st)
  IN  IF eol = NULL
      THEN Result(AGAIN, [r EXCEPT !.dechunk_state = cur.st,
                                   !.dechunk_pos = cur.pos])
      ELSE IF st = "trailer_start" /\ eol = p
      THEN Body([r EXCEPT !.dechunk_state = st, !.dechunk_pos = p],
                CopyChunks(s)[r.body_offset], r.dechunk_total)
      ELSE f[eol + 2]

(* The loop over trailer lines ends at an incomplete or an empty line. *)
LEMMA TrailerCaseIs ==
  ASSUME NEW s, NEW r, NEW f, NEW p
  PROVE  TrailerCase(s, r, f, p) = IF TrailerHalts(s, r, p)
                                   THEN TrailerResult(s, r, p)
                                   ELSE f[LineEnd(s, p) + 2]
BY DEF TrailerCase, TrailerHalts, TrailerResult, LineState, LineEnd

(* Every other line moves it towards the end of the bytes. *)
LEMMA TrailerSteps ==
  ASSUME NEW s \in Seq(STRING), NEW r
  PROVE  LET stop == {p \in Offsets(s) : TrailerHalts(s, r, p)}
             nxt  == [p \in Offsets(s) |-> IF TrailerHalts(s, r, p) THEN p
                                           ELSE LineEnd(s, p) + 2]
         IN  Ranked(Offsets(s), Len(s), Rest(s), stop, nxt)
<1> DEFINE stop == {p \in Offsets(s) : TrailerHalts(s, r, p)}
           nxt  == [p \in Offsets(s) |-> IF TrailerHalts(s, r, p) THEN p
                                         ELSE LineEnd(s, p) + 2]
<1>1. Len(s) \in Nat
  OBVIOUS
<1>2. \A p \in Offsets(s) : ~TrailerHalts(s, r, p) =>
        LineEnd(s, p) + 2 \in Offsets(s) /\ LineEnd(s, p) + 2 > p
  <2> SUFFICES ASSUME NEW p \in Offsets(s), ~TrailerHalts(s, r, p)
               PROVE  LineEnd(s, p) + 2 \in Offsets(s) /\ LineEnd(s, p) + 2 > p
    OBVIOUS
  <2>1. /\ p \in Nat /\ LineEnd(s, p) \in Nat /\ LineEnd(s, p) >= p
        /\ LineEnd(s, p) + 2 <= Len(s)
    BY LineFacts DEF TrailerHalts, Offsets
  <2> QED BY <1>1, <2>1 DEF Offsets
<1>3. Rest(s) \in [Offsets(s) -> 0 .. Len(s)]
  BY <1>1 DEF Rest, Offsets
<1>4. stop \in SUBSET Offsets(s) /\ nxt \in [Offsets(s) -> Offsets(s)]
  BY <1>2
<1>5. ASSUME NEW p \in Offsets(s) \ stop PROVE Rest(s)[nxt[p]] < Rest(s)[p]
  <2>1. /\ p \in 0 .. Len(s) /\ nxt[p] \in 0 .. Len(s) /\ nxt[p] > p
    BY <1>2 DEF Offsets
  <2>2. Rest(s)[p] = Len(s) - p /\ Rest(s)[nxt[p]] = Len(s) - nxt[p]
    BY <2>1 DEF Rest, Offsets
  <2> HIDE DEF nxt
  <2> QED BY <1>1, <2>1, <2>2
<1> HIDE DEF stop, nxt
<1>6. Ranked(Offsets(s), Len(s), Rest(s), stop, nxt)
  BY <1>1, <1>3, <1>4, <1>5 DEF Ranked
<1> QED BY <1>6 DEF stop, nxt

(* So the loop is well defined. *)
LEMMA TrailerEquation ==
  ASSUME NEW s \in Seq(STRING), NEW r
  PROVE  \A p \in Offsets(s) :
           WalkTrailers(s, r)[p] = TrailerCase(s, r, WalkTrailers(s, r), p)
<1> DEFINE S == Offsets(s)
           T == {TrailerResult(s, r, p) : p \in S}
           stop == {p \in S : TrailerHalts(s, r, p)}
           nxt  == [p \in S |-> IF TrailerHalts(s, r, p) THEN p
                                ELSE LineEnd(s, p) + 2]
           base == [p \in S |-> TrailerResult(s, r, p)]
           comb == [p \in S |-> [v \in T |-> v]]
           W == WalkTrailers(s, r)
<1>1. base \in [S -> T] /\ comb \in [S -> [T -> T]]
  OBVIOUS
<1>2. Ranked(S, Len(s), Rest(s), stop, nxt)
  BY TrailerSteps
<1>3. PICK f \in [S -> T] : Solution(f, S, stop, base, nxt, comb)
  <2> HIDE DEF S, T, stop, nxt, base, comb
  <2> QED BY <1>1, <1>2, RecursionExists
<1>4. nxt \in [S -> S]
  <2> HIDE DEF S, stop, nxt
  <2> QED BY <1>2 DEF Ranked
<1>5. \A p \in S : f[p] = TrailerCase(s, r, f, p)
  <2> SUFFICES ASSUME NEW p \in S PROVE f[p] = TrailerCase(s, r, f, p)
    OBVIOUS
  <2>1. f[p] = IF p \in stop THEN base[p] ELSE comb[p][f[nxt[p]]]
    <3> HIDE DEF stop, base, comb, nxt, S, T
    <3> QED BY <1>3 DEF Solution
  <2>2. f[nxt[p]] \in T
    <3> HIDE DEF S, T, nxt
    <3> QED BY <1>3, <1>4
  <2>3. comb[p][f[nxt[p]]] = f[nxt[p]]
    <3> HIDE DEF S, T, nxt
    <3> QED BY <2>2
  <2>4. /\ p \in stop <=> TrailerHalts(s, r, p)
        /\ base[p] = TrailerResult(s, r, p)
        /\ ~TrailerHalts(s, r, p) => nxt[p] = LineEnd(s, p) + 2
    OBVIOUS
  <2> HIDE DEF S, T, stop, nxt, base, comb
  <2> QED BY <2>1, <2>3, <2>4, TrailerCaseIs
<1>6. \E g : g = [p \in S |-> TrailerCase(s, r, g, p)]
  <2> HIDE DEF S, T
  <2> QED BY <1>3, <1>5
<1>7. W = CHOOSE g : g = [p \in S |-> TrailerCase(s, r, g, p)]
  BY DEF WalkTrailers, TrailerCase, Offsets
<1> HIDE DEF W
<1>8. W = [p \in S |-> TrailerCase(s, r, W, p)]
  BY <1>6, <1>7
<1> QED BY <1>8 DEF W

IsResult(v) == {"rc", "r", "body", "len"} \subseteq DOMAIN v

(* What the parser makes of the trailers from z on. *)
TrailersRead(s, z, r, v) ==
  IF TrailersEnd(s, z)
  THEN /\ IsResult(v)
       /\ v.rc = DONE /\ v.body = CopyChunks(s)[r.body_offset]
       /\ v.len = r.dechunk_total
  ELSE /\ IsResult(v) /\ v.rc = AGAIN /\ v.body = <<>> /\ v.len = 0
       /\ \E q, st : /\ v.r = [r EXCEPT !.dechunk_state = st, !.dechunk_pos = q]
                     /\ InTrailers(s, z, q, st)

(* From wherever the parser is in the trailers, it finds their end if it has *)
(* come, and otherwise a place to go on from.                                *)
LEMMA TrailersWalked ==
  ASSUME NEW s \in Seq(STRING), NEW z, NEW r \in Parsers,
         InTrailers(s, z, r.dechunk_pos, r.dechunk_state)
  PROVE  TrailersRead(s, z, r, dechunk_trailers(s, r))
<1> DEFINE S == Offsets(s)
           stop == {p \in S : TrailerHalts(s, r, p)}
           nxt  == [p \in S |-> IF TrailerHalts(s, r, p) THEN p
                                ELSE LineEnd(s, p) + 2]
           W == WalkTrailers(s, r)
           G == {p \in S : p >= r.dechunk_pos
                             /\ InTrailers(s, z, p, LineState(r, p))
                           => TrailersRead(s, z, r, W[p])}
<1>1. Ranked(S, Len(s), Rest(s), stop, nxt)
  BY TrailerSteps
<1>2. \A p \in S : W[p] = TrailerCase(s, r, W, p)
  BY TrailerEquation
<1> HIDE DEF W
<1>3. ASSUME NEW p \in S, TrailerHalts(s, r, p),
             InTrailers(s, z, p, LineState(r, p))
      PROVE  TrailersRead(s, z, r, W[p])
  <2>1. W[p] = TrailerResult(s, r, p)
    BY <1>2, <1>3, TrailerCaseIs
  <2>2. CASE LineEnd(s, p) = NULL
    <3> DEFINE cur == trailer_cursor(s, p, LineState(r, p))
    <3>1. ~TrailersEnd(s, z)
      BY <1>3, <2>2, NoEmptyLine
    <3>2. InTrailers(s, z, cur.pos, cur.st)
      BY <1>3, <2>2, CursorKept
    <3>3. W[p] = Result(AGAIN, [r EXCEPT !.dechunk_state = cur.st,
                                         !.dechunk_pos = cur.pos])
      BY <2>1, <2>2 DEF TrailerResult
    <3> HIDE DEF cur
    <3>4. /\ W[p].rc = AGAIN /\ W[p].body = <<>> /\ W[p].len = 0
          /\ IsResult(W[p])
          /\ W[p].r = [r EXCEPT !.dechunk_state = cur.st, !.dechunk_pos = cur.pos]
      BY <3>3 DEF Result, IsResult
    <3>5. \E q, st : /\ W[p].r = [r EXCEPT !.dechunk_state = st,
                                           !.dechunk_pos = q]
                     /\ InTrailers(s, z, q, st)
      BY <3>2, <3>4
    <3> QED BY <3>1, <3>4, <3>5 DEF TrailersRead
  <2>3. CASE LineEnd(s, p) # NULL
    <3>1. LineState(r, p) = "trailer_start" /\ LineEnd(s, p) = p
      BY <1>3, <2>3 DEF TrailerHalts
    <3>2. TrailersEnd(s, z)
      BY <1>3, <3>1, EmptyEnds
    <3> QED BY <2>1, <2>3, <3>2 DEF TrailersRead, TrailerResult, Body, IsResult
  <2> QED BY <2>2, <2>3
<1>4. ASSUME NEW p \in S, ~TrailerHalts(s, r, p), p >= r.dechunk_pos,
             InTrailers(s, z, p, LineState(r, p))
      PROVE  LET n == LineEnd(s, p) + 2
             IN  /\ n >= r.dechunk_pos /\ InTrailers(s, z, n, LineState(r, n))
                 /\ W[p] = W[n]
  <2> DEFINE n == LineEnd(s, p) + 2
  <2>1. LineEnd(s, p) \in Nat /\ LineEnd(s, p) >= p /\ p \in Nat
        /\ r.dechunk_pos \in Nat
    BY <1>4, LineFacts DEF TrailerHalts, Offsets, Parsers
  <2>2. n >= r.dechunk_pos /\ n # r.dechunk_pos
    BY <1>4, <2>1
  <2>3. InTrailers(s, z, n, "trailer_start")
    BY <1>4, FieldPassed DEF TrailerHalts
  <2>4. W[p] = W[n]
    BY <1>2, <1>4, TrailerCaseIs DEF TrailerHalts
  <2> HIDE DEF n
  <2>5. n >= r.dechunk_pos /\ InTrailers(s, z, n, LineState(r, n)) /\ W[p] = W[n]
    BY <2>2, <2>3, <2>4 DEF LineState
  <2> QED BY <2>5 DEF n
<1>5. Inherited(S, stop, nxt, G)
  <2> SUFFICES ASSUME NEW p \in S, p \in stop \/ nxt[p] \in G,
                      p >= r.dechunk_pos, InTrailers(s, z, p, LineState(r, p))
               PROVE  TrailersRead(s, z, r, W[p])
    BY DEF Inherited
  <2>1. CASE TrailerHalts(s, r, p)
    BY <1>3, <2>1
  <2>2. CASE ~TrailerHalts(s, r, p)
    <3>1. LineEnd(s, p) + 2 \in G
      BY <2>2
    <3>2. /\ LineEnd(s, p) + 2 >= r.dechunk_pos
          /\ InTrailers(s, z, LineEnd(s, p) + 2, LineState(r, LineEnd(s, p) + 2))
          /\ W[p] = W[LineEnd(s, p) + 2]
      BY <1>4, <2>2
    <3> QED BY <3>1, <3>2
  <2> QED BY <2>1, <2>2
<1>6. G \subseteq S
  OBVIOUS
<1>7. G = S
  <2> HIDE DEF G, S, stop, nxt
  <2> QED BY <1>1, <1>5, <1>6, RankInduction
<1>8. r.dechunk_pos \in G /\ r.dechunk_pos \in Nat
  <2>1. r.dechunk_pos \in Nat /\ r.dechunk_pos <= Len(s)
    BY DEF InTrailers
  <2> HIDE DEF G
  <2> QED BY <1>7, <2>1 DEF Offsets
<1>9. TrailersRead(s, z, r, W[r.dechunk_pos])
  BY <1>8 DEF LineState
<1> QED BY <1>9 DEF dechunk_trailers, W

-----------------------------------------------------------------------------
(* THE LOOP OVER CHUNKS                                                     *)

Cursors(s) == [pos : 0 .. Len(s), total : Nat]
Here(r, at) == [r EXCEPT !.dechunk_pos = at.pos, !.dechunk_total = at.total]
Past(s, at) == [pos   |-> After(s, at.pos),
                total |-> at.total + SizeAt(s, at.pos)]

(* Where no whole chunk follows the loop ends. *)
Stopped(s, r, at) ==
  IF LineEnd(s, at.pos) = NULL THEN Result(AGAIN, Here(r, at))
  ELSE IF SizeAt(s, at.pos) = NULL THEN Result(ERROR, Here(r, at))
  ELSE IF SizeAt(s, at.pos) = 0
  THEN dechunk_trailers(s, [Here(r, at) EXCEPT
                              !.dechunk_pos = LineEnd(s, at.pos) + 2,
                              !.dechunk_state = "trailer_start"])
  ELSE IF After(s, at.pos) > Len(s) THEN Result(AGAIN, Here(r, at))
  ELSE Result(ERROR, Here(r, at))

WalkCase(s, r, f, at) ==
  LET eol  == memmem(s, at.pos, Len(s), CRLF)
      size == chunk_size(s, at.pos, eol)
      data == eol + 2
      here == [r EXCEPT !.dechunk_pos = at.pos,
                        !.dechunk_total = at.total]
  IN  IF eol = NULL THEN Result(AGAIN, here)
      ELSE IF size = NULL THEN Result(ERROR, here)
      ELSE IF size = 0
      THEN dechunk_trailers(s, [here EXCEPT !.dechunk_pos = data,
                                  !.dechunk_state = "trailer_start"])
      ELSE IF Len(s) - data < 2 \/ size > Len(s) - data - 2
      THEN Result(AGAIN, here)
      ELSE IF SubSeq(s, data + size + 1, data + size + 2) # CRLF
      THEN Result(ERROR, here)
      ELSE f[[pos |-> data + size + 2, total |-> at.total + size]]

(* The code's bounds are those of the reference: a chunk is whole when its   *)
(* CRLF has been received, and no sum of the test can wrap.                  *)
LEMMA WalkCaseIs ==
  ASSUME NEW s \in Seq(STRING), NEW r, NEW f, NEW at \in Cursors(s)
  PROVE  WalkCase(s, r, f, at) = IF Whole(s, at.pos) THEN f[Past(s, at)]
                                 ELSE Stopped(s, r, at)
<1> DEFINE p == at.pos
           e == LineEnd(s, p)
           z == SizeAt(s, p)
           d == e + 2
           a == e + 4 + z
           here == Here(r, at)
           last == dechunk_trailers(s, [here EXCEPT !.dechunk_pos = d,
                                          !.dechunk_state = "trailer_start"])
<1>1. p \in Nat /\ Len(s) \in Nat
  BY DEF Cursors
<1>2. e # NULL => e \in Nat /\ z \in Nat \cup {NULL}
  BY <1>1, LineFacts
<1>3. /\ WalkCase(s, r, f, at) =
           (IF e = NULL THEN Result(AGAIN, here)
            ELSE IF z = NULL THEN Result(ERROR, here)
            ELSE IF z = 0 THEN last
            ELSE IF Len(s) - d < 2 \/ z > Len(s) - d - 2
            THEN Result(AGAIN, here)
            ELSE IF SubSeq(s, d + z + 1, d + z + 2) # CRLF
            THEN Result(ERROR, here)
            ELSE f[[pos |-> d + z + 2, total |-> at.total + z]])
      /\ Stopped(s, r, at) =
           (IF e = NULL THEN Result(AGAIN, here)
            ELSE IF z = NULL THEN Result(ERROR, here)
            ELSE IF z = 0 THEN last
            ELSE IF a > Len(s) THEN Result(AGAIN, here)
            ELSE Result(ERROR, here))
      /\ Past(s, at) = [pos |-> a, total |-> at.total + z]
      /\ Whole(s, p) <=> /\ e # NULL /\ z # NULL /\ z # 0 /\ a <= Len(s)
                         /\ SubSeq(s, a - 1, a) = CRLF
  BY DEF WalkCase, Stopped, Past, Here, Whole, After, SizeAt, LineEnd
<1> HIDE DEF e, z, here, last
<1>4. CASE e = NULL \/ z = NULL
  BY <1>3, <1>4
<1>5. CASE e # NULL /\ z # NULL
  <2>1. e \in Nat /\ z \in Nat
    BY <1>2, <1>5
  <2>2. /\ d + z + 2 = a /\ d + z + 1 = a - 1 /\ a \in Nat
        /\ (Len(s) - d < 2 \/ z > Len(s) - d - 2) <=> a > Len(s)
        /\ a > Len(s) <=> ~(a <= Len(s))
    BY <1>1, <2>1
  <2> HIDE DEF a, d
  <2>3. CASE z = 0
    BY <1>3, <1>5, <2>3
  <2>4. CASE z # 0 /\ a > Len(s)
    BY <1>3, <1>5, <2>2, <2>4
  <2>5. CASE z # 0 /\ a <= Len(s) /\ SubSeq(s, a - 1, a) # CRLF
    BY <1>3, <1>5, <2>2, <2>5
  <2>6. CASE z # 0 /\ a <= Len(s) /\ SubSeq(s, a - 1, a) = CRLF
    BY <1>3, <1>5, <2>2, <2>6
  <2> QED BY <2>2, <2>3, <2>4, <2>5, <2>6
<1> QED BY <1>4, <1>5

WalkHalts(s) == {at \in Cursors(s) : ~Whole(s, at.pos)}
WalkOn(s) == [at \in Cursors(s) |-> IF Whole(s, at.pos) THEN Past(s, at) ELSE at]
WalkRest(s) == [at \in Cursors(s) |-> Len(s) - at.pos]

(* Every whole chunk moves the cursor towards the end of the bytes. *)
LEMMA WalkSteps ==
  ASSUME NEW s \in Seq(STRING)
  PROVE  Ranked(Cursors(s), Len(s), WalkRest(s), WalkHalts(s), WalkOn(s))
<1>1. Len(s) \in Nat
  OBVIOUS
<1>2. WalkRest(s) \in [Cursors(s) -> 0 .. Len(s)]
  BY <1>1 DEF WalkRest, Cursors
<1>3. ASSUME NEW at \in Cursors(s), Whole(s, at.pos)
      PROVE  Past(s, at) \in Cursors(s) /\ Past(s, at).pos > at.pos
  <2>1. at.pos \in Nat /\ at.total \in Nat
    BY DEF Cursors
  <2>2. /\ After(s, at.pos) \in 0 .. Len(s) /\ After(s, at.pos) > at.pos
        /\ SizeAt(s, at.pos) \in Nat
    BY <1>3, <2>1, WholeFacts
  <2>3. at.total + SizeAt(s, at.pos) \in Nat
    BY <2>1, <2>2
  <2> QED BY <2>2, <2>3 DEF Past, Cursors
<1>4. WalkOn(s) \in [Cursors(s) -> Cursors(s)]
  BY <1>3 DEF WalkOn
<1>5. ASSUME NEW at \in Cursors(s) \ WalkHalts(s)
      PROVE  WalkRest(s)[WalkOn(s)[at]] < WalkRest(s)[at]
  <2>1. /\ Whole(s, at.pos) /\ WalkOn(s)[at] = Past(s, at)
        /\ Past(s, at) \in Cursors(s) /\ Past(s, at).pos > at.pos
    BY <1>3 DEF WalkHalts, WalkOn
  <2>2. at.pos \in 0 .. Len(s) /\ Past(s, at).pos \in 0 .. Len(s)
    BY <2>1 DEF Cursors
  <2>3. /\ WalkRest(s)[at] = Len(s) - at.pos
        /\ WalkRest(s)[Past(s, at)] = Len(s) - Past(s, at).pos
    BY <2>1 DEF WalkRest
  <2> QED BY <1>1, <2>1, <2>2, <2>3
<1> QED BY <1>1, <1>2, <1>4, <1>5 DEF WalkHalts, Ranked

(* So the loop over chunks is well defined. *)
LEMMA WalkEquation ==
  ASSUME NEW s \in Seq(STRING), NEW r
  PROVE  LET W == WalkChunks(s, r)
         IN  \A at \in Cursors(s) :
               W[at] = IF Whole(s, at.pos) THEN W[Past(s, at)]
                       ELSE Stopped(s, r, at)
<1> DEFINE S == Cursors(s)
           T == {Stopped(s, r, at) : at \in S}
           base == [at \in S |-> Stopped(s, r, at)]
           comb == [at \in S |-> [v \in T |-> v]]
           W == WalkChunks(s, r)
<1>1. base \in [S -> T] /\ comb \in [S -> [T -> T]]
  OBVIOUS
<1>2. PICK f \in [S -> T] : Solution(f, S, WalkHalts(s), base, WalkOn(s), comb)
  <2> HIDE DEF S, T, base, comb
  <2>1. Ranked(S, Len(s), WalkRest(s), WalkHalts(s), WalkOn(s))
    BY WalkSteps DEF S
  <2> QED BY <1>1, <2>1, RecursionExists
<1>3. WalkOn(s) \in [S -> S]
  BY WalkSteps DEF Ranked
<1>4. \A at \in S : f[at] = WalkCase(s, r, f, at)
  <2> SUFFICES ASSUME NEW at \in S PROVE f[at] = WalkCase(s, r, f, at)
    OBVIOUS
  <2>1. f[at] = IF at \in WalkHalts(s) THEN base[at]
                ELSE comb[at][f[WalkOn(s)[at]]]
    <3> HIDE DEF base, comb, S, T
    <3> QED BY <1>2 DEF Solution
  <2>2. f[WalkOn(s)[at]] \in T
    <3> HIDE DEF S, T
    <3> QED BY <1>2, <1>3
  <2>3. comb[at][f[WalkOn(s)[at]]] = f[WalkOn(s)[at]]
    <3> HIDE DEF S, T
    <3> QED BY <2>2
  <2>4. /\ at \in WalkHalts(s) <=> ~Whole(s, at.pos)
        /\ base[at] = Stopped(s, r, at)
        /\ Whole(s, at.pos) => WalkOn(s)[at] = Past(s, at)
    BY DEF WalkHalts, WalkOn
  <2> HIDE DEF T, base, comb
  <2> QED BY <2>1, <2>3, <2>4, WalkCaseIs
<1>5. \E g : g = [at \in S |-> WalkCase(s, r, g, at)]
  <2> HIDE DEF S, T
  <2> QED BY <1>2, <1>4
<1>6. W = CHOOSE g : g = [at \in S |-> WalkCase(s, r, g, at)]
  BY DEF WalkChunks, WalkCase, Cursors
<1> HIDE DEF W
<1>7. W = [at \in S |-> WalkCase(s, r, W, at)]
  BY <1>5, <1>6
<1>8. \A at \in S : W[at] = WalkCase(s, r, W, at)
  <2> HIDE DEF S
  <2> QED BY <1>7
<1> QED BY <1>8, WalkCaseIs DEF W

-----------------------------------------------------------------------------
(* WHAT A CURSOR KNOWS                                                      *)

(* However the response goes on, its body is data and what follows at p. *)
Ahead(s, b, p, data) ==
  \A t : Begins(s, t) =>
    ChunkedFrom(t)[b] = [rc   |-> ChunkedFrom(t)[p].rc,
                         body |-> data \o ChunkedFrom(t)[p].body]

(* A cursor p of the loop over the chunks from b on, behind total bytes of   *)
(* data.                                                                     *)
InChunks(s, b, p, total) ==
  /\ s \in Seq(STRING) /\ b \in Nat /\ p \in Nat /\ b <= p /\ p <= Len(s)
  /\ \E data \in Seq(STRING) : Len(data) = total /\ Ahead(s, b, p, data)

(* However the response goes on, its body is data, and it is complete when   *)
(* the trailers from z on are.                                               *)
Closed(s, b, z, data) ==
  \A t : Begins(s, t) =>
    ChunkedFrom(t)[b] = [rc   |-> IF TrailersEnd(t, z) THEN DONE ELSE AGAIN,
                         body |-> data]

(* The last chunk ends at z, behind total bytes of data. *)
InLast(s, b, z, total) ==
  /\ s \in Seq(STRING) /\ b \in Nat /\ b <= Len(s)
  /\ \E data \in Seq(STRING) : Len(data) = total /\ Closed(s, b, z, data)

(* What is known of all continuations is known of fewer. *)
LEMMA CursorStays ==
  ASSUME NEW s, NEW t, Begins(s, t), NEW b, NEW p, NEW total
  PROVE  /\ InChunks(s, b, p, total) => InChunks(t, b, p, total)
         /\ InLast(s, b, p, total) => InLast(t, b, p, total)
<1>1. /\ t \in Seq(STRING) /\ Len(s) \in Nat /\ Len(t) \in Nat
      /\ Len(s) <= Len(t)
  BY DEF Begins
<1>2. \A u : Begins(t, u) => Begins(s, u)
  BY BeginsOn
<1>3. \A data : Ahead(s, b, p, data) => Ahead(t, b, p, data)
  BY <1>2 DEF Ahead
<1>4. \A data : Closed(s, b, p, data) => Closed(t, b, p, data)
  BY <1>2 DEF Closed
<1>5. ASSUME InChunks(s, b, p, total) PROVE InChunks(t, b, p, total)
  <2>1. PICK data \in Seq(STRING) : Len(data) = total /\ Ahead(s, b, p, data)
    BY <1>5 DEF InChunks
  <2>2. b \in Nat /\ p \in Nat /\ b <= p /\ p <= Len(t)
    BY <1>1, <1>5 DEF InChunks
  <2> QED BY <1>1, <1>3, <2>1, <2>2 DEF InChunks
<1>6. ASSUME InLast(s, b, p, total) PROVE InLast(t, b, p, total)
  <2>1. PICK data \in Seq(STRING) : Len(data) = total /\ Closed(s, b, p, data)
    BY <1>6 DEF InLast
  <2>2. b \in Nat /\ b <= Len(t)
    BY <1>1, <1>6 DEF InLast
  <2> QED BY <1>1, <1>4, <2>1, <2>2 DEF InLast
<1> QED BY <1>5, <1>6

(* Before the first chunk no data is behind the cursor. *)
LEMMA ChunksStart ==
  ASSUME NEW s \in Seq(STRING), NEW b \in Nat, b <= Len(s)
  PROVE  InChunks(s, b, b, 0)
<1> DEFINE none == <<>>
<1>1. none \in Seq(STRING) /\ Len(none) = 0
  OBVIOUS
<1>2. ASSUME NEW t, Begins(s, t)
      PROVE  ChunkedFrom(t)[b] = [rc   |-> ChunkedFrom(t)[b].rc,
                                  body |-> none \o ChunkedFrom(t)[b].body]
  <2>1. t \in Seq(STRING) /\ b \in Offsets(t)
    BY <1>2 DEF Begins, Offsets
  <2>2. ChunkedFrom(t)[b] \in Decodings
    BY <2>1, ChunkedEquation
  <2>3. none \o ChunkedFrom(t)[b].body = ChunkedFrom(t)[b].body
    BY <2>2, ConcatEmptySeq DEF Decodings
  <2> QED BY <2>2, <2>3 DEF Decodings
<1> HIDE DEF none
<1>3. Ahead(s, b, b, none)
  BY <1>2 DEF Ahead
<1>4. b <= b
  OBVIOUS
<1>5. \E data \in Seq(STRING) : Len(data) = 0 /\ Ahead(s, b, b, data)
  BY <1>1, <1>3
<1> QED BY <1>4, <1>5 DEF InChunks

(* Past a whole chunk its data is behind the cursor. *)
LEMMA ChunkPassed ==
  ASSUME NEW s, NEW b, NEW p, NEW total, InChunks(s, b, p, total), Whole(s, p)
  PROVE  InChunks(s, b, After(s, p), total + SizeAt(s, p))
<1>1. s \in Seq(STRING) /\ b \in Nat /\ p \in Nat /\ b <= p /\ p <= Len(s)
  BY DEF InChunks
<1>2. PICK data \in Seq(STRING) : Len(data) = total /\ Ahead(s, b, p, data)
  BY DEF InChunks
<1>3. /\ After(s, p) \in 0 .. Len(s) /\ After(s, p) > p
      /\ ChunkData(s, p) \in Seq(STRING)
      /\ Len(ChunkData(s, p)) = SizeAt(s, p)
  BY <1>1, WholeFacts
<1> DEFINE c == ChunkData(s, p)
           n == After(s, p)
           more == data \o c
<1>4. more \in Seq(STRING) /\ Len(more) = total + SizeAt(s, p)
  BY <1>2, <1>3, ConcatProperties
<1>5. ASSUME NEW t, Begins(s, t)
      PROVE  ChunkedFrom(t)[b] = [rc   |-> ChunkedFrom(t)[n].rc,
                                  body |-> more \o ChunkedFrom(t)[n].body]
  <2> DEFINE D == ChunkedFrom(t)
  <2>1. t \in Seq(STRING) /\ p \in Offsets(t) /\ n \in Offsets(t)
    BY <1>1, <1>3, <1>5 DEF Begins, Offsets
  <2>2. Whole(t, p) /\ After(t, p) = n /\ ChunkData(t, p) = c
    BY <1>1, <1>5, WholeStays
  <2>3. D[n] \in Decodings /\ D[p] = Grown(t, p, D[n])
    BY <2>1, <2>2, ChunkedEquation
  <2> HIDE DEF D
  <2>4. D[p].rc = D[n].rc /\ D[p].body = c \o D[n].body
    <3> HIDE DEF n, c
    <3> DEFINE d == D[n]
    <3>1. d \in Decodings
      BY <2>3
    <3> HIDE DEF d
    <3>2. Grown(t, p, d).rc = d.rc /\ Grown(t, p, d).body = ChunkData(t, p) \o d.body
      BY <2>1, <2>2, <3>1, GrownType
    <3> QED BY <2>2, <2>3, <3>2 DEF d
  <2>5. D[b] = [rc |-> D[p].rc, body |-> data \o D[p].body]
    BY <1>2, <1>5 DEF Ahead, D
  <2>6. data \o (c \o D[n].body) = more \o D[n].body
    <3> DEFINE u == D[n].body
    <3>1. u \in Seq(STRING) /\ c \in Seq(STRING)
      BY <1>3, <2>3 DEF Decodings
    <3> HIDE DEF c, n, u
    <3>2. (data \o c) \o u = data \o (c \o u)
      BY <1>2, <3>1, ConcatAssociative
    <3> QED BY <3>2 DEF u
  <2> QED BY <2>4, <2>5, <2>6 DEF D
<1> HIDE DEF more, n
<1>6. Ahead(s, b, n, more)
  BY <1>5 DEF Ahead
<1>7. n \in Nat /\ b <= n /\ n <= Len(s)
  BY <1>1, <1>3 DEF n
<1> QED BY <1>1, <1>4, <1>6, <1>7 DEF InChunks, n

(* Past the last chunk all the data is. *)
LEMMA LastPassed ==
  ASSUME NEW s, NEW b, NEW p, NEW total, InChunks(s, b, p, total),
         LineEnd(s, p) # NULL, SizeAt(s, p) = 0
  PROVE  LET z == LineEnd(s, p) + 2
         IN  InLast(s, b, z, total) /\ InTrailers(s, z, z, "trailer_start")
<1> DEFINE e == LineEnd(s, p)
           z == e + 2
<1>1. /\ s \in Seq(STRING) /\ Len(s) \in Nat
      /\ b \in Nat /\ p \in Nat /\ b <= p /\ p <= Len(s)
  BY DEF InChunks
<1>2. PICK data \in Seq(STRING) : Len(data) = total /\ Ahead(s, b, p, data)
  BY DEF InChunks
<1>3. e \in Nat /\ CrLf(s, e) /\ e + 2 <= Len(s)
  BY <1>1, LineEndFirst DEF CrLf
<1>4. ASSUME NEW t, Begins(s, t)
      PROVE  ChunkedFrom(t)[b] =
               [rc   |-> IF TrailersEnd(t, z) THEN DONE ELSE AGAIN,
                body |-> data]
  <2> DEFINE D == ChunkedFrom(t)
  <2>1. t \in Seq(STRING) /\ p \in Offsets(t)
    BY <1>1, <1>4 DEF Begins, Offsets
  <2>2. LineEnd(t, p) = e /\ SizeAt(t, p) = 0
    BY <1>1, <1>4, LineStays
  <2>3. ~Whole(t, p)
    BY <2>2 DEF Whole
  <2>4. D[p] = Rump(t, p)
    BY <2>1, <2>3, ChunkedEquation
  <2>5. 0 # NULL /\ e # NULL
    BY <1>3 DEF NULL
  <2> HIDE DEF e
  <2>6. Rump(t, p) = [rc |-> IF TrailersEnd(t, z) THEN DONE ELSE AGAIN,
                      body |-> <<>>]
    BY <2>2, <2>5 DEF Rump
  <2>7. D[b] = [rc |-> D[p].rc, body |-> data \o D[p].body]
    BY <1>2, <1>4 DEF Ahead
  <2>8. data \o <<>> = data
    BY <1>2, ConcatEmptySeq
  <2> HIDE DEF D, z
  <2>9. D[p].rc = (IF TrailersEnd(t, z) THEN DONE ELSE AGAIN)
        /\ D[p].body = <<>>
    BY <2>4, <2>6
  <2> QED BY <2>7, <2>8, <2>9 DEF D
<1> HIDE DEF e
<1>5. /\ z \in Nat /\ z >= 2 /\ z - 2 = e /\ z <= Len(s) /\ z <= z
      /\ z .. (z - 1) = {}
  BY <1>3
<1> HIDE DEF z
<1>6. Closed(s, b, z, data)
  BY <1>4 DEF Closed
<1>7. InLast(s, b, z, total)
  BY <1>1, <1>2, <1>6 DEF InLast
<1>8. InTrailers(s, z, z, "trailer_start")
  BY <1>1, <1>3, <1>5 DEF InTrailers
<1> QED BY <1>7, <1>8 DEF z, e

-----------------------------------------------------------------------------
(* DECHUNK                                                                  *)

(* Where a chunked body has been read to. *)
InBody(s, r) ==
  /\ r \in Parsers /\ r.headers_done /\ r.chunked /\ r.body_offset > 0
  /\ r.dechunk_pos > 0
  /\ \/ /\ r.dechunk_state = "chunks"
        /\ InChunks(s, r.body_offset, r.dechunk_pos, r.dechunk_total)
     \/ \E z : /\ InLast(s, r.body_offset, z, r.dechunk_total)
               /\ InTrailers(s, z, r.dechunk_pos, r.dechunk_state)

(* A result of the parser that agrees with the reference, and from which it  *)
(* can go on.                                                                *)
SameHead(r, q) ==
  /\ q.body_offset = r.body_offset /\ q.content_length = r.content_length
  /\ q.chunked = r.chunked /\ q.headers_done = r.headers_done

BodyRead(s, r, v) ==
  /\ IsResult(v)
  /\ v.rc = ChunkedFrom(s)[r.body_offset].rc
  /\ v.len = Len(v.body)
  /\ v.rc = DONE => v.body = ChunkedFrom(s)[r.body_offset].body
  /\ v.rc = AGAIN => InBody(s, v.r) /\ SameHead(r, v.r)

(* In the trailers the parser has the result of the reference, and the copy  *)
(* of all chunks has the length that was added up.                           *)
LEMMA TrailersDone ==
  ASSUME NEW s \in Seq(STRING), NEW z, NEW r \in Parsers,
         r.headers_done, r.chunked, r.body_offset > 0,
         InLast(s, r.body_offset, z, r.dechunk_total),
         InTrailers(s, z, r.dechunk_pos, r.dechunk_state)
  PROVE  BodyRead(s, r, dechunk_trailers(s, r))
<1> DEFINE v == dechunk_trailers(s, r)
           b == r.body_offset
<1>1. TrailersRead(s, z, r, v)
  BY TrailersWalked
<1> HIDE DEF v
<1>2. PICK data \in Seq(STRING) :
        Len(data) = r.dechunk_total /\ Closed(s, b, z, data)
  BY DEF InLast
<1>3. ChunkedFrom(s)[b] = [rc   |-> IF TrailersEnd(s, z) THEN DONE ELSE AGAIN,
                           body |-> data]
  BY <1>2, BeginsItself DEF Closed
<1>4. b \in Offsets(s)
  BY DEF InLast, Offsets
<1>5. CASE TrailersEnd(s, z)
  <2>1. ChunkedFrom(s)[b].rc = DONE /\ ChunkedFrom(s)[b].body = data
    BY <1>3, <1>5
  <2>2. CopyChunks(s)[b] = data
    BY <1>4, <2>1, CopyDecodes
  <2>3. IsResult(v) /\ v.rc = DONE /\ v.body = data /\ v.len = Len(data)
    BY <1>1, <1>2, <1>5, <2>2 DEF TrailersRead
  <2>4. DONE # AGAIN
    BY DEF DONE, AGAIN
  <2> QED BY <2>1, <2>3, <2>4 DEF BodyRead, v
<1>6. CASE ~TrailersEnd(s, z)
  <2>1. ChunkedFrom(s)[b].rc = AGAIN
    BY <1>3, <1>6
  <2>2. IsResult(v) /\ v.rc = AGAIN /\ v.body = <<>> /\ v.len = 0
    BY <1>1, <1>6 DEF TrailersRead
  <2>3. PICK q, st : /\ v.r = [r EXCEPT !.dechunk_state = st, !.dechunk_pos = q]
                     /\ InTrailers(s, z, q, st)
    BY <1>1, <1>6 DEF TrailersRead
  <2>4. /\ q \in Nat /\ q >= 2
        /\ st \in {"chunks", "trailer_start", "trailer_nonempty"}
    BY <2>3 DEF InTrailers
  <2>5. /\ v.r \in Parsers /\ SameHead(r, v.r) /\ v.r.dechunk_pos = q
        /\ v.r.dechunk_state = st /\ v.r.dechunk_total = r.dechunk_total
    BY <2>3, <2>4 DEF Parsers, SameHead
  <2>6. q > 0
    BY <2>4
  <2>7. InBody(s, v.r)
    BY <2>3, <2>5, <2>6 DEF InBody, SameHead
  <2>8. DONE # AGAIN /\ Len(<<>>) = 0
    BY DEF DONE, AGAIN
  <2> QED BY <2>1, <2>2, <2>5, <2>7, <2>8 DEF BodyRead, v
<1> QED BY <1>5, <1>6

(* The loop over chunks reads on from any cursor that knows the data behind  *)
(* it.                                                                       *)
LEMMA StoppedReads ==
  ASSUME NEW s \in Seq(STRING), NEW r \in Parsers, r.headers_done, r.chunked,
         r.body_offset > 0, r.dechunk_state = "chunks",
         NEW at \in Cursors(s), ~Whole(s, at.pos),
         InChunks(s, r.body_offset, at.pos, at.total)
  PROVE  BodyRead(s, r, Stopped(s, r, at))
<1> DEFINE b == r.body_offset
           p == at.pos
           D == ChunkedFrom(s)
           here == Here(r, at)
           v == Stopped(s, r, at)
<1>1. /\ b \in Nat /\ p \in Nat /\ at.total \in Nat /\ p >= b /\ p > 0
      /\ p \in Offsets(s)
  BY DEF InChunks, Cursors, Parsers, Offsets
<1>2. PICK data \in Seq(STRING) :
        Len(data) = at.total /\ Ahead(s, b, p, data)
  BY DEF InChunks
<1>3. D[b].rc = D[p].rc /\ D[p] = Rump(s, p)
  <2>1. D[b] = [rc |-> D[p].rc, body |-> data \o D[p].body]
    BY <1>2, BeginsItself DEF Ahead
  <2>2. D[p] = Rump(s, p)
    BY <1>1, ChunkedEquation
  <2> HIDE DEF D
  <2> QED BY <2>1, <2>2
<1>4. /\ here \in Parsers /\ SameHead(r, here) /\ here.dechunk_pos = p
      /\ here.dechunk_state = "chunks" /\ here.dechunk_total = at.total
  BY <1>1 DEF Here, Parsers, SameHead
<1>5. InBody(s, here)
  BY <1>1, <1>4 DEF InBody, SameHead
<1>6. DONE # AGAIN /\ DONE # ERROR /\ ERROR # AGAIN /\ Len(<<>>) = 0
  BY DEF DONE, AGAIN, ERROR
<1> HIDE DEF here, D
<1>7. /\ D[b].rc = AGAIN => BodyRead(s, r, Result(AGAIN, here))
      /\ D[b].rc = ERROR => BodyRead(s, r, Result(ERROR, here))
  BY <1>4, <1>5, <1>6 DEF BodyRead, Result, IsResult, D
<1>8. CASE LineEnd(s, p) = NULL
  <2>1. D[b].rc = AGAIN /\ v = Result(AGAIN, here)
    BY <1>3, <1>8 DEF Rump, Stopped, here
  <2> QED BY <1>7, <2>1
<1>9. CASE LineEnd(s, p) # NULL /\ SizeAt(s, p) = NULL
  <2>1. D[b].rc = ERROR /\ v = Result(ERROR, here)
    BY <1>3, <1>9 DEF Rump, Stopped, here
  <2> QED BY <1>7, <2>1
<1>10. CASE LineEnd(s, p) # NULL /\ SizeAt(s, p) = 0
  <2> DEFINE z == LineEnd(s, p) + 2
             q == [here EXCEPT !.dechunk_pos = z,
                               !.dechunk_state = "trailer_start"]
  <2>1. InLast(s, b, z, at.total) /\ InTrailers(s, z, z, "trailer_start")
    BY <1>10, LastPassed
  <2>2. z \in Nat
    BY <2>1 DEF InTrailers
  <2>3. v = dechunk_trailers(s, q)
    <3>1. SizeAt(s, p) # NULL
      BY <1>10 DEF NULL
    <3> QED BY <1>10, <3>1 DEF Stopped, here
  <2> HIDE DEF z
  <2>4. /\ q \in Parsers /\ SameHead(r, q) /\ q.dechunk_pos = z
        /\ q.dechunk_state = "trailer_start" /\ q.dechunk_total = at.total
    BY <1>4, <2>2 DEF Parsers, SameHead
  <2> HIDE DEF q
  <2>5. q.headers_done /\ q.chunked /\ q.body_offset > 0 /\ q.body_offset = b
    BY <2>4 DEF SameHead
  <2>6. BodyRead(s, q, dechunk_trailers(s, q))
    BY <2>1, <2>4, <2>5, TrailersDone
  <2> HIDE DEF v
  <2> QED BY <2>3, <2>4, <2>6 DEF BodyRead, SameHead, v
<1>11. CASE /\ LineEnd(s, p) # NULL /\ SizeAt(s, p) # NULL /\ SizeAt(s, p) # 0
            /\ After(s, p) > Len(s)
  <2>1. D[b].rc = AGAIN /\ v = Result(AGAIN, here)
    BY <1>3, <1>11 DEF Rump, Stopped, here
  <2> QED BY <1>7, <2>1
<1>12. CASE /\ LineEnd(s, p) # NULL /\ SizeAt(s, p) # NULL /\ SizeAt(s, p) # 0
            /\ ~(After(s, p) > Len(s))
  <2>1. D[b].rc = ERROR /\ v = Result(ERROR, here)
    BY <1>3, <1>12 DEF Rump, Stopped, here
  <2> QED BY <1>7, <2>1
<1> QED BY <1>8, <1>9, <1>10, <1>11, <1>12

(* The loop over chunks has the result of the reference. *)
LEMMA ChunksRead ==
  ASSUME NEW s \in Seq(STRING), NEW r \in Parsers, r.headers_done, r.chunked,
         r.body_offset > 0, r.dechunk_state = "chunks",
         NEW here \in Cursors(s), InChunks(s, r.body_offset, here.pos, here.total)
  PROVE  BodyRead(s, r, WalkChunks(s, r)[here])
<1> DEFINE S == Cursors(s)
           W == WalkChunks(s, r)
           Known(at) == InChunks(s, r.body_offset, at.pos, at.total)
           G == {at \in S : Known(at) => BodyRead(s, r, W[at])}
<1>1. \A at \in S : W[at] = IF Whole(s, at.pos) THEN W[Past(s, at)]
                            ELSE Stopped(s, r, at)
  BY WalkEquation
<1> HIDE DEF W
<1>2. ASSUME NEW at \in S, ~Whole(s, at.pos), Known(at)
      PROVE  BodyRead(s, r, W[at])
  BY <1>1, <1>2, StoppedReads
<1>3. ASSUME NEW at \in S, Whole(s, at.pos), Known(at), Past(s, at) \in G
      PROVE  BodyRead(s, r, W[at])
  <2>1. Known(Past(s, at))
    BY <1>3, ChunkPassed DEF Past
  <2>2. W[at] = W[Past(s, at)]
    BY <1>1, <1>3
  <2> HIDE DEF Known
  <2> QED BY <1>3, <2>1, <2>2
<1>4. Inherited(S, WalkHalts(s), WalkOn(s), G)
  <2> SUFFICES ASSUME NEW at \in S, at \in WalkHalts(s) \/ WalkOn(s)[at] \in G,
                      Known(at)
               PROVE  BodyRead(s, r, W[at])
    <3> HIDE DEF Known
    <3> QED BY DEF Inherited
  <2> HIDE DEF Known, G
  <2>1. CASE Whole(s, at.pos)
    <3>1. Past(s, at) \in G
      BY <2>1 DEF WalkHalts, WalkOn
    <3> QED BY <1>3, <2>1, <3>1
  <2>2. CASE ~Whole(s, at.pos)
    BY <1>2, <2>2
  <2> QED BY <2>1, <2>2
<1>5. G \subseteq S
  OBVIOUS
<1>6. G = S
  <2> HIDE DEF G, S
  <2>1. Ranked(S, Len(s), WalkRest(s), WalkHalts(s), WalkOn(s))
    BY WalkSteps DEF S
  <2> QED BY <1>4, <1>5, <2>1, RankInduction
<1>7. here \in G /\ Known(here)
  <2> HIDE DEF G
  <2> QED BY <1>6
<1> HIDE DEF Known
<1> QED BY <1>7 DEF W

(* The parser before its first call of dechunk. *)
AtBody(s, r) ==
  /\ r \in Parsers /\ r.headers_done /\ r.chunked
  /\ r.body_offset > 0 /\ r.body_offset <= Len(s)
  /\ r.dechunk_pos = 0 /\ r.dechunk_total = 0 /\ r.dechunk_state = "chunks"

(* More bytes do not move the parser in a chunked body. *)
LEMMA InBodyStays ==
  ASSUME NEW s, NEW t, Begins(s, t), NEW r, InBody(s, r)
  PROVE  InBody(t, r)
<1>1. CASE /\ r.dechunk_state = "chunks"
           /\ InChunks(s, r.body_offset, r.dechunk_pos, r.dechunk_total)
  <2>1. InChunks(t, r.body_offset, r.dechunk_pos, r.dechunk_total)
    BY <1>1, CursorStays
  <2> QED BY <1>1, <2>1 DEF InBody
<1>2. ASSUME NEW z, InLast(s, r.body_offset, z, r.dechunk_total),
             InTrailers(s, z, r.dechunk_pos, r.dechunk_state)
      PROVE  InBody(t, r)
  <2>1. /\ InLast(t, r.body_offset, z, r.dechunk_total)
        /\ InTrailers(t, z, r.dechunk_pos, r.dechunk_state)
    BY <1>2, CursorStays, InTrailersStays
  <2> QED BY <2>1 DEF InBody
<1> QED BY <1>1, <1>2 DEF InBody

(* ngx_autocert_acme_dechunk agrees with the reference wherever it resumes. *)
LEMMA DechunkReads ==
  ASSUME NEW s \in Seq(STRING), NEW r, AtBody(s, r) \/ InBody(s, r)
  PROVE  BodyRead(s, r, dechunk(s, r))
<1>1. CASE AtBody(s, r)
  <2> DEFINE b == r.body_offset
             q == [r EXCEPT !.dechunk_pos = b]
             at == [pos |-> b, total |-> 0]
  <2>1. b \in Nat /\ b <= Len(s) /\ b > 0 /\ at \in Cursors(s)
    BY <1>1 DEF AtBody, Parsers, Cursors
  <2>2. /\ q \in Parsers /\ SameHead(r, q) /\ q.dechunk_pos = b
        /\ q.dechunk_state = "chunks" /\ q.dechunk_total = 0
        /\ q.headers_done /\ q.chunked /\ q.body_offset = b
    BY <1>1, <2>1 DEF AtBody, Parsers, SameHead
  <2>3. dechunk(s, r) = WalkChunks(s, q)[at]
    BY <1>1, <2>2 DEF AtBody, dechunk
  <2>4. InChunks(s, b, at.pos, at.total)
    BY <2>1, ChunksStart
  <2> HIDE DEF q, at
  <2>5. BodyRead(s, q, WalkChunks(s, q)[at])
    BY <2>1, <2>2, <2>4, ChunksRead
  <2> QED BY <2>2, <2>3, <2>5 DEF BodyRead, SameHead
<1>2. CASE InBody(s, r)
  <2>1. /\ r \in Parsers /\ r.headers_done /\ r.chunked /\ r.body_offset > 0
        /\ r.dechunk_pos \in Nat /\ r.dechunk_pos # 0
    BY <1>2 DEF InBody, Parsers
  <2>2. CASE /\ r.dechunk_state = "chunks"
             /\ InChunks(s, r.body_offset, r.dechunk_pos, r.dechunk_total)
    <3> DEFINE at == [pos |-> r.dechunk_pos, total |-> r.dechunk_total]
    <3>1. at \in Cursors(s)
      BY <2>1, <2>2 DEF InChunks, Parsers, Cursors
    <3>2. dechunk(s, r) = WalkChunks(s, r)[at]
      BY <2>1, <2>2 DEF dechunk
    <3>3. InChunks(s, r.body_offset, at.pos, at.total)
      BY <2>2
    <3> HIDE DEF at
    <3> QED BY <2>1, <2>2, <3>1, <3>2, <3>3, ChunksRead
  <2>3. ASSUME NEW z, InLast(s, r.body_offset, z, r.dechunk_total),
               InTrailers(s, z, r.dechunk_pos, r.dechunk_state)
        PROVE  BodyRead(s, r, dechunk(s, r))
    <3>1. r.dechunk_state # "chunks"
      BY <2>3 DEF InTrailers
    <3>2. dechunk(s, r) = dechunk_trailers(s, r)
      BY <2>1, <3>1 DEF dechunk
    <3> QED BY <2>1, <2>3, <3>2, TrailersDone
  <2> QED BY <1>2, <2>2, <2>3 DEF InBody
<1> QED BY <1>1, <1>2

-----------------------------------------------------------------------------
(* HEADERS                                                                  *)

HeaderEnd(s) == memmem(s, 0, Len(s), CRLF \o CRLF)

(* The end of the headers is four bytes. *)
LEMMA EndMark ==
  /\ Len(CRLF \o CRLF) = 4 /\ DOMAIN (CRLF \o CRLF) = 1 .. 4
<1>1. CRLF \in Seq({CR, LF}) /\ Len(CRLF) = 2
  BY DEF CRLF
<1> DEFINE S == {CR, LF}
           k == CRLF \o CRLF
<1>2. k \in Seq(S) /\ Len(k) = Len(CRLF) + Len(CRLF)
  <2> HIDE DEF S
  <2> QED BY <1>1, ConcatProperties DEF S
<1> HIDE DEF k
<1>3. Len(k) = 4 /\ DOMAIN k = 1 .. 4
  BY <1>1, <1>2
<1> QED BY <1>3 DEF k

(* What lies in the bytes received lies there for good. *)
LEMMA LiesStays ==
  ASSUME NEW s, NEW t, Begins(s, t), NEW p \in Nat, NEW needle, NEW n \in Nat,
         DOMAIN needle = 1 .. n, p + n <= Len(s)
  PROVE  Lies(t, p, needle) <=> Lies(s, p, needle)
<1>1. Len(s) \in Nat /\ \A j \in 1 .. Len(s) : t[j] = s[j]
  BY DEF Begins
<1>2. \A i \in DOMAIN needle : p + i \in 1 .. Len(s)
  BY <1>1
<1> QED BY <1>1, <1>2 DEF Lies

(* The end of the headers, once found, is found again. *)
LEMMA HeaderEndType ==
  ASSUME NEW s \in Seq(STRING)
  PROVE  \/ /\ HeaderEnd(s) = NULL
            /\ \A p \in Nat : p + 4 <= Len(s) => ~Lies(s, p, CRLF \o CRLF)
         \/ /\ HeaderEnd(s) \in Nat /\ HeaderEnd(s) + 4 <= Len(s)
            /\ Lies(s, HeaderEnd(s), CRLF \o CRLF)
            /\ \A p \in 0 .. (HeaderEnd(s) - 1) : ~Lies(s, p, CRLF \o CRLF)
<1> DEFINE m == HeaderEnd(s)
           k == CRLF \o CRLF
           last == Len(s) - Len(k)
<1>1. Len(s) \in Nat /\ 0 \in Nat /\ Len(k) = 4 /\ Len(k) \in Nat
  BY EndMark
<1>2. m = memmem(s, 0, Len(s), k)
  BY DEF HeaderEnd
<1> HIDE DEF m, k
<1>3. LET l == Len(s) - Len(k)
      IN  \/ m = NULL /\ \A p \in 0 .. l : ~Lies(s, p, k)
          \/ /\ m \in 0 .. l /\ m \in Nat /\ Lies(s, m, k)
             /\ \A p \in 0 .. (m - 1) : ~Lies(s, p, k)
  <2>1. Len(s) \in Int
    BY <1>1
  <2> QED BY <1>1, <1>2, <2>1, MemmemFirst
<1>4. CASE m = NULL /\ \A p \in 0 .. last : ~Lies(s, p, k)
  <2>1. \A p \in Nat : p + 4 <= Len(s) => p \in 0 .. last
    BY <1>1
  <2> QED BY <1>4, <2>1 DEF m, k
<1>5. CASE /\ m \in 0 .. last /\ m \in Nat /\ Lies(s, m, k)
           /\ \A p \in 0 .. (m - 1) : ~Lies(s, p, k)
  <2>1. m \in Nat /\ m + 4 <= Len(s)
    BY <1>1, <1>5
  <2> QED BY <1>5, <2>1 DEF m, k
<1> QED BY <1>3, <1>4, <1>5

(* More bytes do not move the end of the headers. *)
LEMMA HeaderEndStays ==
  ASSUME NEW s, NEW t, Begins(s, t), HeaderEnd(s) # NULL
  PROVE  HeaderEnd(t) = HeaderEnd(s)
<1> DEFINE m == HeaderEnd(s)
           n == HeaderEnd(t)
           k == CRLF \o CRLF
<1>1. s \in Seq(STRING) /\ t \in Seq(STRING) /\ Len(s) \in Nat /\ 4 \in Nat
  BY DEF Begins
<1>2. /\ m \in Nat /\ m + 4 <= Len(s) /\ Lies(s, m, k)
      /\ \A p \in 0 .. (m - 1) : ~Lies(s, p, k)
  BY <1>1, HeaderEndType
<1>3. \/ n = NULL /\ \A p \in Nat : p + 4 <= Len(t) => ~Lies(t, p, k)
      \/ /\ n \in Nat /\ n + 4 <= Len(t) /\ Lies(t, n, k)
         /\ \A p \in 0 .. (n - 1) : ~Lies(t, p, k)
  BY <1>1, HeaderEndType
<1>4. DOMAIN k = 1 .. 4
  BY EndMark
<1> HIDE DEF m, n, k
<1>5. \A p \in Nat : p + 4 <= Len(s) => (Lies(t, p, k) <=> Lies(s, p, k))
  BY <1>1, <1>4, LiesStays
<1>6. Lies(t, m, k) /\ m + 4 <= Len(t)
  BY <1>1, <1>2, <1>5 DEF Begins
<1>7. \A p \in 0 .. (m - 1) : ~Lies(t, p, k)
  <2> SUFFICES ASSUME NEW p \in 0 .. (m - 1) PROVE ~Lies(t, p, k)
    OBVIOUS
  <2>1. p \in Nat /\ p + 4 <= Len(s)
    BY <1>1, <1>2
  <2> QED BY <1>2, <1>5, <2>1
<1>8. n \in Nat /\ Lies(t, n, k) /\ \A p \in 0 .. (n - 1) : ~Lies(t, p, k)
  BY <1>2, <1>3, <1>6
<1>9. ~(n < m) /\ ~(m < n)
  BY <1>2, <1>6, <1>7, <1>8
<1> QED BY <1>2, <1>8, <1>9 DEF m, n

(* Three bytes back from what has been searched in vain is far enough. *)
LEMMA SearchResumes ==
  ASSUME NEW s, NEW t, Begins(s, t), HeaderEnd(s) = NULL, NEW from \in Nat,
         from = IF Len(s) > 3 THEN Len(s) - 3 ELSE 0
  PROVE  memmem(t, from, Len(t), CRLF \o CRLF) = HeaderEnd(t)
<1> DEFINE k == CRLF \o CRLF
           m == memmem(t, from, Len(t), k)
           n == HeaderEnd(t)
           last == Len(t) - Len(k)
<1>1. /\ s \in Seq(STRING) /\ t \in Seq(STRING)
      /\ Len(s) \in Nat /\ Len(t) \in Nat /\ Len(s) <= Len(t) /\ 4 \in Nat
  BY DEF Begins
<1>2. \A p \in Nat : p + 4 <= Len(s) => ~Lies(s, p, k)
  <2>1. ~(HeaderEnd(s) \in Nat)
    BY DEF NULL
  <2> QED BY <1>1, <2>1, HeaderEndType
<1>3. DOMAIN k = 1 .. 4 /\ Len(k) = 4 /\ Len(k) \in Nat
  BY EndMark
<1>4. \/ n = NULL /\ \A p \in Nat : p + 4 <= Len(t) => ~Lies(t, p, k)
      \/ /\ n \in Nat /\ n + 4 <= Len(t) /\ Lies(t, n, k)
         /\ \A p \in 0 .. (n - 1) : ~Lies(t, p, k)
  BY <1>1, HeaderEndType
<1> HIDE DEF k, n
<1>5. LET l == Len(t) - Len(k)
      IN  \/ m = NULL /\ \A p \in from .. l : ~Lies(t, p, k)
          \/ /\ m \in from .. l /\ m \in Nat /\ Lies(t, m, k)
             /\ \A p \in from .. (m - 1) : ~Lies(t, p, k)
  <2>1. Len(t) \in Int /\ m = memmem(t, from, Len(t), k)
    BY <1>1
  <2> HIDE DEF m
  <2> QED BY <1>3, <2>1, MemmemFirst
<1> HIDE DEF m
<1>6. \A p \in Nat : p < from => ~Lies(t, p, k)
  <2> SUFFICES ASSUME NEW p \in Nat, p < from PROVE ~Lies(t, p, k)
    OBVIOUS
  <2>1. p + 4 <= Len(s)
    BY <1>1
  <2> QED BY <1>1, <1>2, <1>3, <2>1, LiesStays
<1>7. CASE n = NULL /\ \A p \in Nat : p + 4 <= Len(t) => ~Lies(t, p, k)
  <2>1. m \in Nat /\ m \in from .. last => m + 4 <= Len(t)
    BY <1>1, <1>3
  <2> QED BY <1>5, <1>7, <2>1 DEF n, m, k
<1>8. CASE /\ n \in Nat /\ n + 4 <= Len(t) /\ Lies(t, n, k)
           /\ \A p \in 0 .. (n - 1) : ~Lies(t, p, k)
  <2>1. n >= from /\ n \in from .. last
    BY <1>1, <1>3, <1>6, <1>8
  <2>2. /\ m \in Nat /\ m >= from /\ Lies(t, m, k)
        /\ \A p \in from .. (m - 1) : ~Lies(t, p, k)
    BY <1>5, <2>1, <1>8
  <2>3. ~(m < n) /\ ~(n < m)
    BY <1>8, <2>1, <2>2
  <2> QED BY <1>8, <2>2, <2>3 DEF n, m, k
<1> QED BY <1>4, <1>7, <1>8

(* What scan_headers reads in the first h bytes. *)
HeadLines(s, h) == HeaderLines(s, memmem(s, 0, h, CRLF) + 2, h - 2)
HeadCl(s, h) == HeadLines(s, h) \cap DOMAIN Lengths
HeadBad(s, h) ==
  \/ ~StatusLineOk(s, memmem(s, 0, h, CRLF))
  \/ "L?" \in HeadLines(s, h) \/ Cardinality(HeadCl(s, h)) > 1
  \/ "G" \in HeadLines(s, h)
  \/ "T" \in HeadLines(s, h) /\ HeadCl(s, h) # {}
HeadChunked(s, h) == "T" \in HeadLines(s, h)
HeadLength(s, h) ==
  IF HeadCl(s, h) = {} THEN NULL
  ELSE Lengths[CHOOSE l \in HeadCl(s, h) : TRUE]

(* scan_headers in these terms. *)
LEMMA ScanIs ==
  ASSUME NEW s, NEW r, NEW h
  PROVE  scan_headers(s, r, h) =
           IF HeadBad(s, h) THEN Result(ERROR, [r EXCEPT !.body_offset = h])
           ELSE Result(AGAIN,
                  [r EXCEPT !.headers_done = TRUE, !.body_offset = h,
                            !.chunked = HeadChunked(s, h),
                            !.content_length = HeadLength(s, h)])
BY DEF scan_headers, HeadBad, HeadChunked, HeadLength, HeadCl, HeadLines

(* The types of what it reads. *)
LEMMA HeadTypes ==
  ASSUME NEW s, NEW h
  PROVE  HeadChunked(s, h) \in BOOLEAN /\ HeadLength(s, h) \in Nat \cup {NULL}
<1>1. \A l \in DOMAIN Lengths : Lengths[l] \in Nat
  BY DEF Lengths
<1>2. HeadCl(s, h) \subseteq DOMAIN Lengths
  BY DEF HeadCl
<1>3. HeadLength(s, h) \in Nat \cup {NULL}
  BY <1>1, <1>2 DEF HeadLength
<1> QED BY <1>3 DEF HeadChunked

(* It does not depend on the bytes that follow. *)
LEMMA HeadStays ==
  ASSUME NEW s, NEW t, Begins(s, t), NEW h \in Nat, h >= 4, h <= Len(s)
  PROVE  /\ HeadBad(t, h) <=> HeadBad(s, h)
         /\ HeadChunked(t, h) = HeadChunked(s, h)
         /\ HeadLength(t, h) = HeadLength(s, h)
<1> DEFINE e == memmem(s, 0, h, CRLF)
           i == e + 2
<1>1. /\ s \in Seq(STRING) /\ t \in Seq(STRING) /\ Len(s) \in Nat
      /\ \A j \in 1 .. Len(s) : t[j] = s[j]
  BY DEF Begins
<1>2. Len(CRLF) = 2 /\ Len(CRLF) \in Nat /\ DOMAIN CRLF = 1 .. 2 /\ 2 \in Nat
      /\ 0 \in Nat /\ h \in Int
  BY DEF CRLF
<1>3. memmem(t, 0, h, CRLF) = e
  <2>1. ASSUME NEW p \in 0 .. (h - Len(CRLF))
        PROVE  Lies(t, p, CRLF) <=> Lies(s, p, CRLF)
    <3>1. p \in Nat /\ p + 2 <= Len(s)
      BY <1>1, <1>2
    <3> QED BY <1>2, <3>1, LiesStays
  <2> QED BY <2>1, MemmemSame
<1>4. e = NULL \/ e \in Nat
  BY <1>2, MemmemFirst
<1>5. i \in Nat /\ i >= 1
  BY <1>4 DEF NULL
<1> HIDE DEF e, i
<1>6. HeaderLines(t, i, h - 2) = HeaderLines(s, i, h - 2)
  <2>1. ASSUME NEW q \in i .. (h - 2 - 1)
        PROVE  /\ t[q + 1] = s[q + 1]
               /\ q # i => SubSeq(t, q - 1, q) = SubSeq(s, q - 1, q)
    <3>1. q \in Nat /\ q + 1 \in 1 .. Len(s) /\ q <= Len(s) /\ q \in Int
          /\ (q # i => q - 1 \in Nat \ {0})
      BY <1>1, <1>5
    <3>2. q # i => SubSeq(t, q - 1, q) = SubSeq(s, q - 1, q)
      BY <3>1, SubSeqStays
    <3> QED BY <1>1, <3>1, <3>2
  <2> DEFINE At(u) == {q \in i .. (h - 2 - 1) : q = i \/ SubSeq(u, q - 1, q) = CRLF}
  <2>2. At(t) = At(s)
    BY <2>1
  <2>3. \A q \in At(s) : t[q + 1] = s[q + 1]
    BY <2>1
  <2> HIDE DEF At
  <2>4. {t[p + 1] : p \in At(t)} = {s[p + 1] : p \in At(s)}
    BY <2>2, <2>3
  <2> QED BY <2>4 DEF HeaderLines, At
<1>7. t[1] = s[1]
  BY <1>1
<1>8. HeadLines(t, h) = HeadLines(s, h)
  BY <1>3, <1>6 DEF HeadLines, e, i
<1> HIDE DEF HeadLines
<1>9. HeadCl(t, h) = HeadCl(s, h)
  BY <1>8 DEF HeadCl
<1>10. StatusLineOk(t, e) <=> StatusLineOk(s, e)
  BY <1>7 DEF StatusLineOk
<1> QED BY <1>3, <1>8, <1>9, <1>10 DEF HeadBad, HeadChunked, HeadLength, e

-----------------------------------------------------------------------------
(* THE WHOLE RESPONSE                                                       *)

(* The headers of s are complete and r holds what they say. *)
HeadersRead(s, r) ==
  LET h == HeaderEnd(s) + 4
  IN  /\ HeaderEnd(s) # NULL /\ ~HeadBad(s, h)
      /\ r \in Parsers /\ r.headers_done /\ r.body_offset = h
      /\ r.chunked = HeadChunked(s, h) /\ r.content_length = HeadLength(s, h)

(* A parser that may go on from what it knows of s. *)
Good(s, r) ==
  \/ HeaderEnd(s) = NULL /\ r = [Unparsed EXCEPT !.hdr_scan_pos = Len(s)]
  \/ HeadersRead(s, r) /\ (r.chunked => InBody(s, r))

ParsedRight(s, v) ==
  /\ IsResult(v)
  /\ v.rc = Decoded(s).rc
  /\ v.len = Len(v.body)
  /\ v.rc = DONE => v.body = Decoded(s).body
  /\ v.rc = AGAIN => Good(s, v.r)

(* The type of a parser that has not been called. *)
LEMMA UnparsedType == Unparsed \in Parsers
BY DEF Unparsed, Parsers

(* The reference in terms of the headers. *)
LEMMA DecodedIs ==
  ASSUME NEW s
  PROVE  LET h == HeaderEnd(s) + 4
             c == ChunkedFrom(s)[h]
             n == HeadLength(s, h)
         IN  Decoded(s) =
               IF HeaderEnd(s) = NULL
               THEN [rc |-> AGAIN, by |-> "headers", body |-> <<>>]
               ELSE IF HeadBad(s, h)
               THEN [rc |-> ERROR, by |-> "headers", body |-> <<>>]
               ELSE IF HeadChunked(s, h)
               THEN [rc |-> c.rc, by |-> "chunks",
                     body |-> IF c.rc = DONE THEN c.body ELSE <<>>]
               ELSE IF n # NULL
               THEN IF Len(s) - h >= n
                    THEN [rc |-> DONE, by |-> "length",
                          body |-> SubSeq(s, HeaderEnd(s) + 5, h + n)]
                    ELSE [rc |-> AGAIN, by |-> "length", body |-> <<>>]
               ELSE [rc |-> AGAIN, by |-> "close",
                     body |-> SubSeq(s, HeaderEnd(s) + 5, Len(s))]
<1> DEFINE h == HeaderEnd(s) + 4
           q == scan_headers(s, Unparsed, h)
<1>1. q.rc = (IF HeadBad(s, h) THEN ERROR ELSE AGAIN)
      /\ (~HeadBad(s, h) => /\ q.r.chunked = HeadChunked(s, h)
                            /\ q.r.content_length = HeadLength(s, h))
  <2> HIDE DEF h
  <2> QED BY ScanIs DEF Result, Unparsed
<1>2. AGAIN # ERROR
  BY DEF AGAIN, ERROR
<1>3. Decoded(s) =
        IF HeaderEnd(s) = NULL
        THEN [rc |-> AGAIN, by |-> "headers", body |-> <<>>]
        ELSE IF q.rc = ERROR
        THEN [rc |-> ERROR, by |-> "headers", body |-> <<>>]
        ELSE IF q.r.chunked
        THEN [rc |-> ChunkedFrom(s)[h].rc, by |-> "chunks",
              body |-> IF ChunkedFrom(s)[h].rc = DONE
                       THEN ChunkedFrom(s)[h].body ELSE <<>>]
        ELSE IF q.r.content_length # NULL
        THEN IF Len(s) - h >= q.r.content_length
             THEN [rc |-> DONE, by |-> "length",
                   body |-> SubSeq(s, HeaderEnd(s) + 5, h + q.r.content_length)]
             ELSE [rc |-> AGAIN, by |-> "length", body |-> <<>>]
        ELSE [rc |-> AGAIN, by |-> "close",
              body |-> SubSeq(s, HeaderEnd(s) + 5, Len(s))]
  BY DEF Decoded, HeaderEnd
<1> HIDE DEF q
<1> QED BY <1>1, <1>2, <1>3

(* Once the headers are read the body is parsed as the reference reads it. *)
LEMMA BodyParsed ==
  ASSUME NEW s \in Seq(STRING), NEW r, HeadersRead(s, r),
         r.chunked => AtBody(s, r) \/ InBody(s, r)
  PROVE  ParsedRight(s, parse_body(s, r))
<1> DEFINE h == HeaderEnd(s) + 4
           n == HeadLength(s, h)
           v == parse_body(s, r)
<1>1. /\ HeaderEnd(s) \in Nat /\ h \in Nat /\ h <= Len(s) /\ Len(s) \in Nat
      /\ HeaderEnd(s) + 5 = h + 1
  BY HeaderEndType DEF HeadersRead
<1>2. /\ ~HeadBad(s, h) /\ r.body_offset = h /\ r.chunked = HeadChunked(s, h)
      /\ r.content_length = n /\ HeaderEnd(s) # NULL
  BY DEF HeadersRead
<1>3. DONE # AGAIN /\ DONE # ERROR /\ ERROR # AGAIN /\ Len(<<>>) = 0
  BY DEF DONE, AGAIN, ERROR
<1>4. n \in Nat \cup {NULL}
  BY HeadTypes
<1>5. CASE r.chunked
  <2> DEFINE c == ChunkedFrom(s)[h]
  <2>1. v = dechunk(s, r)
    BY <1>5 DEF parse_body
  <2>2. BodyRead(s, r, v)
    BY <1>5, <2>1, DechunkReads
  <2> HIDE DEF v, h
  <2>3. Decoded(s) = [rc |-> c.rc, by |-> "chunks",
                      body |-> IF c.rc = DONE THEN c.body ELSE <<>>]
    BY <1>2, <1>5, DecodedIs DEF h
  <2> HIDE DEF c
  <2>4. /\ IsResult(v) /\ v.rc = c.rc /\ v.len = Len(v.body)
        /\ v.rc = DONE => v.body = c.body
        /\ v.rc = AGAIN => InBody(s, v.r) /\ SameHead(r, v.r)
    BY <1>2, <2>2 DEF BodyRead, c
  <2>5. v.rc = Decoded(s).rc /\ (v.rc = DONE => v.body = Decoded(s).body)
    BY <2>3, <2>4
  <2>6. ASSUME v.rc = AGAIN PROVE Good(s, v.r)
    <3>1. InBody(s, v.r) /\ SameHead(r, v.r)
      BY <2>4, <2>6
    <3>2. HeadersRead(s, v.r)
      BY <3>1 DEF HeadersRead, SameHead, InBody
    <3> QED BY <3>1, <3>2 DEF Good
  <2> QED BY <2>4, <2>5, <2>6 DEF ParsedRight, v
<1>6. CASE ~r.chunked /\ n # NULL /\ Len(s) - h >= n
  <2> DEFINE body == SubSeq(s, h + 1, h + n)
  <2>1. v = Body(r, body, n)
    BY <1>2, <1>6 DEF parse_body
  <2>2. Len(body) = n
    <3> HIDE DEF h, n
    <3>1. n \in Nat /\ h + n <= Len(s) /\ h + 1 \in Int /\ h + n \in Int
      BY <1>1, <1>4, <1>6
    <3>2. CASE n = 0
      <4>1. h + n < h + 1
        BY <1>1, <3>1, <3>2
      <4>2. body = <<>>
        BY <3>1, <4>1, SubSeqEmpty
      <4> QED BY <1>3, <3>2, <4>2
    <3>3. CASE n # 0
      <4>1. h + 1 <= h + n /\ (h + n) - (h + 1) + 1 = n
        BY <1>1, <3>1, <3>3
      <4>2. \A i \in (h + 1) .. (h + n) : s[i] \in STRING
        BY <1>1, <3>1
      <4> QED BY <3>1, <4>1, <4>2, SubSeqProperties
    <3> QED BY <3>2, <3>3
  <2> HIDE DEF v, h, n
  <2>3. Decoded(s) = [rc |-> DONE, by |-> "length", body |-> body]
    BY <1>1, <1>2, <1>6, DecodedIs DEF h, n
  <2> HIDE DEF body
  <2> QED BY <1>3, <2>1, <2>2, <2>3 DEF ParsedRight, IsResult, Body, v
<1>7. CASE ~r.chunked /\ ~(n # NULL /\ Len(s) - h >= n)
  <2>1. v = Result(AGAIN, r)
    BY <1>2, <1>7 DEF parse_body
  <2> HIDE DEF v, h, n
  <2>2. Decoded(s).rc = AGAIN
    BY <1>2, <1>7, DecodedIs DEF h, n
  <2>3. Good(s, r)
    BY <1>7 DEF Good
  <2> QED BY <1>3, <2>1, <2>2, <2>3 DEF ParsedRight, IsResult, Result, v
<1> QED BY <1>5, <1>6, <1>7

(* ngx_autocert_acme_parse_response resumed with more bytes agrees with a    *)
(* reading of all of them from the first.                                    *)
THEOREM ParseReads ==
  ASSUME NEW s, NEW t, Begins(s, t), NEW r, Good(s, r)
  PROVE  ParsedRight(t, parse_response(t, r))
<1> DEFINE h == HeaderEnd(t) + 4
           v == parse_response(t, r)
<1>1. /\ s \in Seq(STRING) /\ t \in Seq(STRING)
      /\ Len(s) \in Nat /\ Len(t) \in Nat /\ Len(s) <= Len(t)
  BY DEF Begins
<1>2. DONE # AGAIN /\ DONE # ERROR /\ ERROR # AGAIN /\ Len(<<>>) = 0
  BY DEF DONE, AGAIN, ERROR
<1>3. CASE HeaderEnd(s) = NULL /\ r = [Unparsed EXCEPT !.hdr_scan_pos = Len(s)]
  <2> DEFINE q == [r EXCEPT !.headers_done = TRUE, !.body_offset = h,
                            !.chunked = HeadChunked(t, h),
                            !.content_length = HeadLength(t, h)]
  <2>1. /\ r \in Parsers /\ ~r.headers_done /\ r.hdr_scan_pos = Len(s)
        /\ r.dechunk_pos = 0 /\ r.dechunk_total = 0 /\ r.dechunk_state = "chunks"
        /\ [r EXCEPT !.hdr_scan_pos = Len(t)]
             = [Unparsed EXCEPT !.hdr_scan_pos = Len(t)]
    BY <1>1, <1>3 DEF Unparsed, Parsers
  <2>2. memmem(t, scan_from(r), Len(t), CRLF \o CRLF) = HeaderEnd(t)
    <3>1. /\ scan_from(r) = (IF Len(s) > 3 THEN Len(s) - 3 ELSE 0)
          /\ scan_from(r) \in Nat
      BY <1>1, <2>1 DEF scan_from
    <3> QED BY <1>3, <3>1, SearchResumes
  <2>3. CASE HeaderEnd(t) = NULL
    <3>1. v = Result(AGAIN, [r EXCEPT !.hdr_scan_pos = Len(t)])
      BY <2>1, <2>2, <2>3 DEF parse_response
    <3>2. Decoded(t).rc = AGAIN
      BY <2>3, DecodedIs
    <3>3. Good(t, [r EXCEPT !.hdr_scan_pos = Len(t)])
      BY <2>1, <2>3 DEF Good
    <3> HIDE DEF v
    <3> QED BY <1>2, <3>1, <3>2, <3>3 DEF ParsedRight, IsResult, Result, v
  <2>4. CASE HeaderEnd(t) # NULL /\ HeadBad(t, h)
    <3>1. scan_headers(t, r, h) = Result(ERROR, [r EXCEPT !.body_offset = h])
      BY <2>4, ScanIs
    <3>2. v = Result(ERROR, [r EXCEPT !.body_offset = h])
      <4>1. scan_headers(t, r, h).rc = ERROR
        BY <3>1 DEF Result
      <4> QED BY <2>1, <2>2, <2>4, <3>1, <4>1 DEF parse_response
    <3>3. Decoded(t).rc = ERROR
      BY <2>4, DecodedIs
    <3> HIDE DEF v
    <3> QED BY <1>2, <3>2, <3>3 DEF ParsedRight, IsResult, Result, v
  <2>5. CASE HeaderEnd(t) # NULL /\ ~HeadBad(t, h)
    <3>1. scan_headers(t, r, h).rc = AGAIN /\ scan_headers(t, r, h).r = q
      BY <2>5, ScanIs DEF Result
    <3>2. v = parse_body(t, q)
      BY <1>2, <2>1, <2>2, <2>5, <3>1 DEF parse_response
    <3>3. h \in Nat /\ h > 0 /\ h <= Len(t)
      BY <1>1, <2>5, HeaderEndType
    <3>4. HeadChunked(t, h) \in BOOLEAN /\ HeadLength(t, h) \in Nat \cup {NULL}
      BY HeadTypes
    <3> HIDE DEF h, v
    <3>5. /\ q \in Parsers /\ q.headers_done /\ q.body_offset = h
          /\ q.chunked = HeadChunked(t, h) /\ q.content_length = HeadLength(t, h)
          /\ q.dechunk_pos = 0 /\ q.dechunk_total = 0
          /\ q.dechunk_state = "chunks"
      BY <2>1, <3>3, <3>4 DEF Parsers
    <3> HIDE DEF q
    <3>6. HeadersRead(t, q) /\ (q.chunked => AtBody(t, q))
      BY <2>5, <3>3, <3>5 DEF HeadersRead, AtBody, h
    <3> QED BY <1>1, <3>2, <3>6, BodyParsed DEF v
  <2> QED BY <2>3, <2>4, <2>5
<1>4. CASE HeadersRead(s, r) /\ (r.chunked => InBody(s, r))
  <2>1. HeaderEnd(s) # NULL /\ HeaderEnd(t) = HeaderEnd(s)
    BY <1>4, HeaderEndStays DEF HeadersRead
  <2>2. h \in Nat /\ h >= 4 /\ h <= Len(s)
    BY <1>1, <2>1, HeaderEndType
  <2>3. /\ HeadBad(t, h) <=> HeadBad(s, h)
        /\ HeadChunked(t, h) = HeadChunked(s, h)
        /\ HeadLength(t, h) = HeadLength(s, h)
    BY <2>2, HeadStays
  <2>4. HeadersRead(t, r)
    BY <1>4, <2>1, <2>3 DEF HeadersRead
  <2>5. r.chunked => InBody(t, r)
    BY <1>4, InBodyStays
  <2>6. v = parse_body(t, r)
    BY <1>4 DEF parse_response, HeadersRead
  <2> HIDE DEF v
  <2> QED BY <1>1, <2>4, <2>5, <2>6, BodyParsed DEF v
<1> QED BY <1>3, <1>4 DEF Good

(* When the peer closes: a body that nothing delimits is all that has come,  *)
(* and only such a response, or one that was complete, is taken as whole.    *)
LEMMA CloseReads ==
  ASSUME NEW s \in Seq(STRING), NEW r, Good(s, r), Decoded(s).rc = AGAIN,
         r.headers_done, ~r.chunked,
         r.content_length = NULL \/ Len(s) - r.body_offset >= r.content_length
  PROVE  /\ Decoded(s).by = "close"
         /\ Decoded(s).body = SubSeq(s, r.body_offset + 1, Len(s))
<1> DEFINE h == HeaderEnd(s) + 4
           n == HeadLength(s, h)
<1>1. HeadersRead(s, r)
  BY DEF Good, Unparsed
<1>2. /\ ~HeadBad(s, h) /\ r.body_offset = h /\ ~HeadChunked(s, h)
      /\ r.content_length = n /\ HeaderEnd(s) # NULL
  BY <1>1 DEF HeadersRead
<1>3. HeaderEnd(s) \in Nat /\ HeaderEnd(s) + 5 = h + 1
  BY <1>2, HeaderEndType
<1>4. DONE # AGAIN
  BY DEF DONE, AGAIN
<1> HIDE DEF h, n
<1>5. n = NULL
  <2>1. n # NULL => Decoded(s).rc = DONE
    BY <1>2, DecodedIs DEF h, n
  <2> QED BY <1>4, <2>1
<1> DEFINE body == SubSeq(s, h + 1, Len(s))
<1>6. Decoded(s) = [rc |-> AGAIN, by |-> "close", body |-> body]
  BY <1>2, <1>3, <1>5, DecodedIs DEF h, n
<1> HIDE DEF body
<1>7. Decoded(s).by = "close" /\ Decoded(s).body = body
  BY <1>6
<1> QED BY <1>2, <1>7 DEF body
=============================================================================
