---------------------------- MODULE MtpServer_proof ----------------------------
(***************************************************************************)
(* The MTP object database is right for any finite tree of paths, any      *)
(* number of handles and any changes behind its back.                      *)
(*                                                                         *)
(* The invariant (MtpServerInv): the card is a tree (Tree); every variable *)
(* has its type (Typed); a handle nothing happened to behind its back has  *)
(* its object's true path (Named) and size (Sized); an announced upload    *)
(* has no object yet (Pending); a directory that was read shows every      *)
(* object in it by the handle that stands for that object, and not only by *)
(* one of the same name (Shown), or the pair is among the hidden ones.     *)
(*                                                                         *)
(* Paths are sequences of names, and what a rename carries along is put    *)
(* below another prefix, so the file begins with an algebra of prefixes.   *)
(***************************************************************************)
EXTENDS MtpServer, SequenceTheorems, FiniteSetTheorems, WellFoundedInduction, TLAPS

\* A set of numbers has a least member: what induction over indices goes through.
LEMMA Least ==
  ASSUME NEW T \in SUBSET Nat, T # {}
  PROVE  \E x \in T : \A y \in T : x <= y
<1>. DEFINE R == {ss \in Nat \X Nat : ss[1] < ss[2]}
<1>1. IsWellFoundedOn(R, Nat)
  <2>1. OpToRel(<, Nat) = R
    BY DEF OpToRel
  <2>2. IsWellFoundedOn(OpToRel(<, Nat), Nat)
    BY NatLessThanWellFounded
  <2>. QED BY <2>1, <2>2
<1>2. \A x, y \in Nat : y < x => <<y, x>> \in R
  OBVIOUS
<1>. HIDE DEF R
<1>3. \E x \in T : \A y \in T : ~ (<<y, x>> \in R)
  BY <1>1, WFMin
<1>4. PICK x \in T : \A y \in T : ~ (<<y, x>> \in R)
  BY <1>3
<1>5. ASSUME NEW y \in T PROVE x <= y
  <2>1. x \in Nat /\ y \in Nat
    OBVIOUS
  <2>2. ~(y < x)
    BY <1>2, <1>4, <2>1
  <2>. QED BY <2>1, <2>2
<1>. QED
  BY <1>5

\* Sequences of names, the empty one too.
Whole == Seq(Names)

\* What it is to be under a path, name by name.
LEMMA PrefixIs ==
  ASSUME NEW p \in Whole, NEW q \in Whole
  PROVE  IsPrefix(q, p) <=> Len(q) <= Len(p) /\ \A i \in 1..Len(q) : p[i] = q[i]
<1>. DEFINE P == SubSeq(p, 1, Len(q))
            Q == SubSeq(q, 1, Len(q))
<1>1. ASSUME Len(q) <= Len(p)
      PROVE  P = Q <=> \A i \in 1..Len(q) : p[i] = q[i]
  <2>1. /\ DOMAIN P = 1..Len(q) /\ DOMAIN Q = 1..Len(q) /\ P \in Whole /\ Q \in Whole
        /\ Len(P) = Len(q) /\ Len(Q) = Len(q)
        /\ \A i \in 1..Len(q) : P[i] = p[i] /\ Q[i] = q[i]
    BY <1>1 DEF Whole
  <2>. HIDE DEF P, Q
  <2>2. (\A i \in 1..Len(q) : p[i] = q[i]) => P = Q
    BY <2>1, SeqEqual DEF Whole
  <2>. QED BY <2>1, <2>2
<1>. QED
  BY <1>1 DEF IsPrefix

\* Two paths joined: the names of the one, then those of the other.
LEMMA JoinIs ==
  ASSUME NEW p \in Whole, NEW w \in Whole
  PROVE  /\ p \o w \in Whole /\ Len(p \o w) = Len(p) + Len(w) /\ Len(p) \in Nat /\ Len(w) \in Nat
         /\ \A i \in 1..Len(p) + Len(w) : (p \o w)[i] = IF i <= Len(p) THEN p[i] ELSE w[i - Len(p)]
BY ConcatProperties DEF Whole

\* Paths of the same names are the same.
LEMMA SamePath ==
  ASSUME NEW p \in Whole, NEW q \in Whole, Len(p) = Len(q), \A i \in 1..Len(p) : p[i] = q[i]
  PROVE  p = q
BY SeqEqual DEF Whole

\* A path is above whatever is joined to it.
LEMMA PrefixJoin ==
  ASSUME NEW p \in Whole, NEW w \in Whole
  PROVE  IsPrefix(p, p \o w)
<1>1. p \o w \in Whole /\ Len(p) <= Len(p \o w)
  BY JoinIs
<1>2. ASSUME NEW i \in 1..Len(p) PROVE (p \o w)[i] = p[i]
  <2>1. i \in 1..Len(p) + Len(w) /\ i <= Len(p)
    BY SMTT(40), JoinIs
  <2>. QED BY <2>1, JoinIs
<1>. QED
  BY <1>1, <1>2, PrefixIs

\* A path is one above it, joined to the rest.
LEMMA PrefixSplit ==
  ASSUME NEW p \in Whole, NEW q \in Whole, IsPrefix(q, p)
  PROVE  /\ SubSeq(p, Len(q) + 1, Len(p)) \in Whole /\ p = q \o SubSeq(p, Len(q) + 1, Len(p))
<1>. DEFINE w == SubSeq(p, Len(q) + 1, Len(p))
<1>1. Len(q) <= Len(p) /\ SubSeq(q, 1, Len(q)) = SubSeq(p, 1, Len(q)) /\ Len(p) \in Nat /\ Len(q) \in Nat
  BY DEF Whole, IsPrefix
<1>2. w \in Whole
  <2>1. \A i \in Len(q) + 1..Len(p) : p[i] \in Names
    BY <1>1 DEF Whole
  <2>2. Len(q) + 1 \in Int /\ Len(p) \in Int
    BY <1>1
  <2>. QED BY <2>1, <2>2, SubSeqProperties DEF Whole
<1>3. SubSeq(p, 1, Len(q)) \o w = SubSeq(p, 1, Len(p))
  <2>1. 1 \in 1..Len(p) + 1 /\ Len(q) \in 1 - 1..Len(p) /\ Len(p) \in Len(q)..Len(p)
    BY <1>1
  <2>. QED BY <2>1, ConcatAdjacentSubSeq DEF Whole
<1>4. SubSeq(p, 1, Len(p)) = p /\ SubSeq(q, 1, Len(q)) = q
  BY SubSeqFull DEF Whole
<1>. QED
  BY <1>1, <1>2, <1>3, <1>4

\* Being above orders the paths, and what is above one path is in a line.
LEMMA PrefixOrder ==
  /\ \A p \in Whole : IsPrefix(p, p) /\ IsPrefix(<<>>, p)
  /\ \A p, q, r \in Whole : IsPrefix(q, p) /\ IsPrefix(r, q) => IsPrefix(r, p)
  /\ \A p, q \in Whole : IsPrefix(q, p) /\ IsPrefix(p, q) => p = q
  /\ \A p, q, r \in Whole : IsPrefix(q, p) /\ IsPrefix(r, p) => IsPrefix(r, q) \/ IsPrefix(q, r)
<1>0. \A p \in Whole : Len(p) \in Nat
  BY DEF Whole
<1>1. \A p \in Whole : IsPrefix(p, p) /\ IsPrefix(<<>>, p)
  <2>1. <<>> \in Whole /\ Len(<<>>) = 0
    BY DEF Whole
  <2>. QED BY <1>0, <2>1, PrefixIs
<1>2. ASSUME NEW p \in Whole, NEW q \in Whole, NEW r \in Whole, IsPrefix(q, p), IsPrefix(r, q) PROVE IsPrefix(r, p)
  <2>1. Len(q) <= Len(p) /\ \A i \in 1..Len(q) : p[i] = q[i]
    BY <1>2, PrefixIs
  <2>2. Len(r) <= Len(q) /\ \A i \in 1..Len(r) : q[i] = r[i]
    BY <1>2, PrefixIs
  <2>3. Len(r) <= Len(p) /\ \A i \in 1..Len(r) : p[i] = r[i]
    BY <1>0, <2>1, <2>2
  <2>. QED BY <2>3, PrefixIs
<1>3. ASSUME NEW p \in Whole, NEW q \in Whole, IsPrefix(q, p), IsPrefix(p, q) PROVE p = q
  <2>1. Len(q) <= Len(p) /\ (\A i \in 1..Len(q) : p[i] = q[i]) /\ Len(p) <= Len(q)
    BY <1>3, PrefixIs
  <2>2. Len(p) = Len(q)
    BY <1>0, <2>1
  <2>. QED BY <2>1, <2>2, SamePath
<1>4. ASSUME NEW p \in Whole, NEW q \in Whole, NEW r \in Whole, IsPrefix(q, p), IsPrefix(r, p)
      PROVE  IsPrefix(r, q) \/ IsPrefix(q, r)
  <2>1. \A i \in 1..Len(q) : p[i] = q[i]
    BY <1>4, PrefixIs
  <2>2. \A i \in 1..Len(r) : p[i] = r[i]
    BY <1>4, PrefixIs
  <2>3. CASE Len(q) <= Len(r)
    <3>1. \A i \in 1..Len(q) : r[i] = q[i]
      BY <1>0, <2>1, <2>2, <2>3
    <3>. QED BY <2>3, <3>1, PrefixIs
  <2>4. CASE Len(r) <= Len(q)
    <3>1. \A i \in 1..Len(r) : q[i] = r[i]
      BY <1>0, <2>1, <2>2, <2>4
    <3>. QED BY <2>4, <3>1, PrefixIs
  <2>. QED BY <1>0, <2>3, <2>4
<1>. QED
  BY <1>1, <1>2, <1>3, <1>4

\* A path and one name more.
LEMMA ChildIs ==
  ASSUME NEW p \in Whole, NEW n
  PROVE  /\ Front(Append(p, n)) = p /\ Last(Append(p, n)) = n /\ Append(p, n) # <<>>
         /\ n \in Names => Append(p, n) \in Whole /\ IsPrefix(p, Append(p, n))
<1>. DEFINE a == Append(p, n)
<1>1. /\ Len(p) \in Nat /\ Len(a) = Len(p) + 1 /\ a[Len(p) + 1] = n
      /\ \A i \in 1..Len(p) : a[i] = p[i]
  BY DEF Whole
<1>2. a # <<>> /\ Last(a) = n
  BY <1>1 DEF Last
<1>3. Front(a) = p
  <2>. DEFINE s == SubSeq(a, 1, Len(a) - 1)
  <2>1. s = [i \in 1..Len(p) |-> a[i]]
    BY <1>1
  <2>2. s = [i \in 1..Len(p) |-> p[i]]
    BY <1>1, <2>1
  <2>3. p = [i \in 1..Len(p) |-> p[i]]
    BY DEF Whole
  <2>. QED BY <2>2, <2>3 DEF Front
<1>4. n \in Names => a \in Whole
  BY DEF Whole
<1>5. n \in Names => IsPrefix(p, a)
  <2>. HIDE DEF a
  <2>. QED BY <1>1, <1>4, PrefixIs
<1>. QED
  BY <1>2, <1>3, <1>4, <1>5

\* A path that is not the root is its parent's and a name.
LEMMA FrontIs ==
  ASSUME NEW p \in Whole, p # <<>>
  PROVE  /\ Front(p) \in Whole /\ Last(p) \in Names /\ p = Append(Front(p), Last(p))
         /\ Len(Front(p)) = Len(p) - 1 /\ Len(p) \in Nat \ {0} /\ IsPrefix(Front(p), p) /\ Front(p) # p
<1>1. Len(p) \in Nat \ {0} /\ Last(p) = p[Len(p)] /\ Last(p) \in Names
  BY DEF Whole, Last
<1>. DEFINE f == SubSeq(p, 1, Len(p) - 1)
<1>2. f \in Whole /\ Len(f) = Len(p) - 1 /\ \A i \in 1..Len(p) - 1 : f[i] = p[i]
  <2>1. \A i \in 1..Len(p) - 1 : p[i] \in Names
    BY <1>1 DEF Whole
  <2>2. /\ f \in Whole /\ Len(f) = IF 1 <= Len(p) - 1 THEN Len(p) - 1 - 1 + 1 ELSE 0
        /\ \A i \in 1..Len(p) - 1 - 1 + 1 : f[i] = p[1 + i - 1]
    <3>1. 1 \in Int /\ Len(p) - 1 \in Int
      BY <1>1
    <3>. QED BY <2>1, <3>1, SubSeqProperties DEF Whole
  <2>. HIDE DEF f
  <2>3. Len(f) = Len(p) - 1
    <3>1. \A k \in Nat \ {0} : (IF 1 <= k - 1 THEN k - 1 - 1 + 1 ELSE 0) = k - 1
      OBVIOUS
    <3>2. Len(f) = IF 1 <= Len(p) - 1 THEN Len(p) - 1 - 1 + 1 ELSE 0
      BY <2>2
    <3>3. Len(p) \in Nat \ {0}
      BY <1>1
    <3>. QED BY <3>1, <3>2, <3>3, Zenon
  <2>4. ASSUME NEW i \in 1..Len(p) - 1 PROVE f[i] = p[i]
    <3>1. i \in 1..Len(p) - 1 - 1 + 1 /\ 1 + i - 1 = i
      BY <1>1
    <3>. QED BY <2>2, <3>1
  <2>. QED BY <2>2, <2>3, <2>4
<1>3. f = Front(p)
  BY DEF Front
<1>. HIDE DEF f
<1>4. Append(f, Last(p)) = p
  <2>1. Append(f, Last(p)) \in Whole /\ Len(Append(f, Last(p))) = Len(p)
    BY <1>1, <1>2 DEF Whole
  <2>2. \A i \in 1..Len(p) : Append(f, Last(p))[i] = p[i]
    BY <1>1, <1>2 DEF Whole
  <2>. QED BY <2>1, <2>2, SamePath
<1>5. IsPrefix(f, p)
  BY <1>1, <1>2, PrefixIs
<1>6. f # p
  BY <1>1, <1>2
<1>. QED
  BY <1>1, <1>2, <1>3, <1>4, <1>5, <1>6

\* Who is above a path is above its directory, or is the path.
LEMMA AboveFront ==
  ASSUME NEW p \in Whole, NEW a \in Whole, IsPrefix(a, p), a # p
  PROVE  p # <<>> /\ IsPrefix(a, Front(p))
<1>1. Len(a) <= Len(p) /\ (\A i \in 1..Len(a) : p[i] = a[i]) /\ Len(a) \in Nat /\ Len(p) \in Nat
  BY PrefixIs DEF Whole
<1>2. Len(a) # Len(p)
  BY <1>1, SamePath
<1>3. p # <<>>
  BY <1>1, <1>2
<1>4. Front(p) \in Whole /\ Len(Front(p)) = Len(p) - 1 /\ p = Append(Front(p), Last(p))
  BY <1>3, FrontIs
<1>5. \A i \in 1..Len(a) : Front(p)[i] = a[i]
  <2>. DEFINE f == Front(p)
              n == Last(p)
  <2>1. f \in Whole /\ Len(f) = Len(p) - 1 /\ p = Append(f, n)
    BY <1>4
  <2>. HIDE DEF f, n
  <2>2. \A i \in 1..Len(f) : p[i] = f[i]
    BY <2>1 DEF Whole
  <2>. QED BY <1>1, <1>2, <2>1, <2>2 DEF f
<1>. QED
  BY <1>1, <1>2, <1>3, <1>4, <1>5, PrefixIs

\* Joining.
LEMMA JoinLaws ==
  ASSUME NEW p \in Whole, NEW v \in Whole, NEW w \in Whole
  PROVE  /\ p \o <<>> = p /\ <<>> \in Whole
         /\ p \o v = p \o w => v = w
         /\ IsPrefix(p \o w, p \o v) <=> IsPrefix(w, v)
<1>1. <<>> \in Whole /\ Len(<<>>) = 0 /\ p \o <<>> = p
  BY DEF Whole
<1>2. /\ p \o v \in Whole /\ Len(p \o v) = Len(p) + Len(v) /\ Len(p) \in Nat /\ Len(v) \in Nat
      /\ \A i \in 1..Len(p) + Len(v) : (p \o v)[i] = IF i <= Len(p) THEN p[i] ELSE v[i - Len(p)]
  BY JoinIs
<1>3. /\ p \o w \in Whole /\ Len(p \o w) = Len(p) + Len(w) /\ Len(w) \in Nat
      /\ \A i \in 1..Len(p) + Len(w) : (p \o w)[i] = IF i <= Len(p) THEN p[i] ELSE w[i - Len(p)]
  BY JoinIs
<1>. DEFINE V == p \o v
            W == p \o w
<1>4. \A i \in 1..Len(v) : V[Len(p) + i] = v[i]
  <2>1. SUFFICES ASSUME NEW i \in 1..Len(v) PROVE V[Len(p) + i] = v[i]
    OBVIOUS
  <2>. DEFINE j == Len(p) + i
  <2>2. j \in 1..Len(p) + Len(v) /\ ~(j <= Len(p)) /\ j - Len(p) = i
    BY <1>2
  <2>. HIDE DEF j
  <2>. QED BY <1>2, <2>2 DEF j
<1>5. \A i \in 1..Len(w) : W[Len(p) + i] = w[i]
  <2>1. SUFFICES ASSUME NEW i \in 1..Len(w) PROVE W[Len(p) + i] = w[i]
    OBVIOUS
  <2>. DEFINE j == Len(p) + i
  <2>2. j \in 1..Len(p) + Len(w) /\ ~(j <= Len(p)) /\ j - Len(p) = i
    BY <1>3
  <2>. HIDE DEF j
  <2>. QED BY <1>3, <2>2 DEF j
<1>. HIDE DEF V, W
<1>6. p \o v = p \o w => v = w
  <2>1. SUFFICES ASSUME V = W PROVE v = w
    BY DEF V, W
  <2>2. Len(v) = Len(w)
    BY <1>2, <1>3, <2>1 DEF V, W
  <2>3. \A i \in 1..Len(v) : v[i] = w[i]
    BY <1>4, <1>5, <2>1, <2>2
  <2>. QED BY <2>2, <2>3, SamePath
<1>7. IsPrefix(W, V) => IsPrefix(w, v)
  <2>1. SUFFICES ASSUME IsPrefix(W, V) PROVE IsPrefix(w, v)
    OBVIOUS
  <2>2. Len(W) <= Len(V) /\ \A i \in 1..Len(W) : V[i] = W[i]
    BY <1>2, <1>3, <2>1, PrefixIs DEF V, W
  <2>3. Len(V) = Len(p) + Len(v) /\ Len(W) = Len(p) + Len(w)
    BY <1>2, <1>3 DEF V, W
  <2>4. Len(w) <= Len(v)
    BY <1>2, <1>3, <2>2, <2>3
  <2>5. ASSUME NEW i \in 1..Len(w) PROVE v[i] = w[i]
    <3>1. Len(p) + i \in 1..Len(W) /\ i \in 1..Len(v)
      BY <1>2, <1>3, <2>3, <2>4
    <3>. QED BY <1>4, <1>5, <2>2, <3>1
  <2>. QED BY <2>4, <2>5, PrefixIs
<1>8. IsPrefix(w, v) => IsPrefix(W, V)
  <2>1. SUFFICES ASSUME IsPrefix(w, v) PROVE IsPrefix(W, V)
    OBVIOUS
  <2>2. Len(w) <= Len(v) /\ \A i \in 1..Len(w) : v[i] = w[i]
    BY <2>1, PrefixIs
  <2>3. V \in Whole /\ W \in Whole /\ Len(V) = Len(p) + Len(v) /\ Len(W) = Len(p) + Len(w)
    BY <1>2, <1>3 DEF V, W
  <2>4. Len(W) <= Len(V)
    BY <1>2, <1>3, <2>2, <2>3
  <2>5. ASSUME NEW i \in 1..Len(W) PROVE V[i] = W[i]
    <3>0. i \in 1..Len(p) + Len(w) /\ i \in 1..Len(p) + Len(v)
      BY <1>2, <1>3, <2>2, <2>3
    <3>1. CASE i <= Len(p)
      BY <1>2, <1>3, <3>0, <3>1 DEF V, W
    <3>2. CASE ~(i <= Len(p))
      <4>. DEFINE j == i - Len(p)
      <4>1. j \in 1..Len(w) /\ V[i] = v[j] /\ W[i] = w[j]
        BY <1>2, <1>3, <3>0, <3>2 DEF V, W
      <4>. HIDE DEF j
      <4>. QED BY <2>2, <4>1
    <3>. QED BY <3>1, <3>2
  <2>. QED BY <2>3, <2>4, <2>5, PrefixIs
<1>. QED
  BY <1>1, <1>6, <1>7, <1>8 DEF V, W

\* A name may be put behind the whole or behind the second part.
LEMMA JoinAppend ==
  ASSUME NEW p \in Whole, NEW v \in Whole, NEW n \in Names
  PROVE  Append(p \o v, n) = p \o Append(v, n)
<1>1. Append(v, n) \in Whole /\ p \o v \in Whole
  BY ChildIs, JoinIs
<1>. DEFINE a == Append(p \o v, n)
            b == p \o Append(v, n)
<1>2. a \in Whole /\ b \in Whole
  BY <1>1, ChildIs, JoinIs
<1>3. a = b
  BY DEF Whole
<1>. QED
  BY <1>3

\* Siblings have nothing below them in common.
LEMMA Siblings ==
  ASSUME NEW p \in Whole, p # <<>>, NEW n \in Names, Append(Front(p), n) # p
  PROVE  /\ Append(Front(p), n) \in Whole \ {<<>>} /\ Front(Append(Front(p), n)) = Front(p)
         /\ Last(Append(Front(p), n)) = n
         /\ \A q \in Whole : ~(IsPrefix(p, q) /\ IsPrefix(Append(Front(p), n), q))
<1>. DEFINE b == Append(Front(p), n)
<1>1. Front(p) \in Whole /\ Len(Front(p)) = Len(p) - 1 /\ Len(p) \in Nat \ {0}
  BY FrontIs
<1>2. b \in Whole \ {<<>>} /\ Front(b) = Front(p) /\ Last(b) = n
  BY <1>1, ChildIs
<1>3. Len(b) = Len(p)
  <2>1. Len(Front(b)) = Len(b) - 1 /\ Len(b) \in Nat \ {0}
    BY <1>2, FrontIs
  <2>. QED BY <1>1, <1>2, <2>1
<1>4. ASSUME NEW q \in Whole, IsPrefix(p, q), IsPrefix(b, q) PROVE FALSE
  <2>. HIDE DEF b
  <2>1. \A i \in 1..Len(p) : p[i] = b[i]
    BY <1>2, <1>3, <1>4, PrefixIs
  <2>2. p = b
    BY <1>2, <1>3, <2>1, SamePath
  <2>. QED BY <2>2 DEF b
<1>. QED
  BY <1>2, <1>4

\* A path carried over: what is below the old place comes to be below the new one.
LEMMA CarriedJoin ==
  ASSUME NEW old \in Whole, NEW new, NEW w \in Whole
  PROVE  Carried(old, new, old \o w) = new \o w
<1>. DEFINE p == old \o w
<1>1. p \in Whole /\ IsPrefix(old, p)
  BY JoinIs, PrefixJoin
<1>2. SubSeq(p, Len(old) + 1, Len(p)) \in Whole /\ p = old \o SubSeq(p, Len(old) + 1, Len(p))
  <2>. HIDE DEF p
  <2>. QED BY <1>1, PrefixSplit
<1>3. SubSeq(p, Len(old) + 1, Len(p)) = w
  <2>. DEFINE v == SubSeq(p, Len(old) + 1, Len(p))
  <2>1. v \in Whole /\ old \o w = old \o v
    BY <1>2
  <2>. HIDE DEF v
  <2>2. v = w
    BY <2>1, JoinLaws
  <2>. QED BY <2>2 DEF v
<1>4. Carried(old, new, p) = new \o SubSeq(p, Len(old) + 1, Len(p))
  BY <1>1 DEF Carried
<1>. QED
  BY <1>3, <1>4

\* What a rename carries along is below the new name, keeps its parent, and comes back with
\* the opposite rename.
LEMMA CarriedBack ==
  ASSUME NEW old \in Whole, NEW new \in Whole, NEW p \in Whole, IsPrefix(old, p)
  PROVE  /\ Carried(old, new, p) \in Whole /\ IsPrefix(new, Carried(old, new, p))
         /\ Carried(new, old, Carried(old, new, p)) = p
         /\ old # <<>> /\ new # <<>> => Carried(old, new, p) # <<>>
         /\ p # old => /\ p # <<>> /\ Carried(old, new, p) # <<>> /\ Carried(old, new, p) # new
                       /\ IsPrefix(old, Front(p))
                       /\ Front(Carried(old, new, p)) = Carried(old, new, Front(p))
                       /\ Last(Carried(old, new, p)) = Last(p)
<1>. DEFINE w == SubSeq(p, Len(old) + 1, Len(p))
<1>1. w \in Whole /\ p = old \o w
  BY PrefixSplit
<1>. HIDE DEF w
<1>2. Carried(old, new, p) = new \o w
  BY <1>1, CarriedJoin
<1>3. new \o w \in Whole /\ IsPrefix(new, new \o w) /\ Carried(new, old, new \o w) = old \o w
  <2>1. new \o w \in Whole
    BY <1>1, JoinIs
  <2>2. IsPrefix(new, new \o w)
    BY <1>1, PrefixJoin
  <2>3. Carried(new, old, new \o w) = old \o w
    BY <1>1, CarriedJoin
  <2>. QED BY <2>1, <2>2, <2>3
<1>4. ASSUME old # <<>>, new # <<>> PROVE new \o w # <<>>
  BY <1>1, <1>4, ConcatEqualIffEmpty DEF Whole
<1>5. ASSUME p # old
      PROVE  /\ p # <<>> /\ new \o w # <<>> /\ new \o w # new
             /\ IsPrefix(old, Front(p))
             /\ Front(new \o w) = Carried(old, new, Front(p)) /\ Last(new \o w) = Last(p)
  <2>1. w # <<>>
    BY <1>1, <1>5, JoinLaws
  <2>. DEFINE v == Front(w)
              n == Last(w)
  <2>2. v \in Whole /\ n \in Names /\ w = Append(v, n)
    BY <1>1, <2>1, FrontIs
  <2>. HIDE DEF v, n
  <2>3. new \o w = Append(new \o v, n) /\ p = Append(old \o v, n)
    BY SMTT(40), <1>1, <2>2, JoinAppend
  <2>4. new \o v \in Whole /\ old \o v \in Whole
    BY <2>2, JoinIs
  <2>. DEFINE Child(a) == Front(Append(a, n)) = a /\ Last(Append(a, n)) = n /\ Append(a, n) # <<>>
  <2>c. \A a \in Whole : Child(a)
    BY ChildIs
  <2>5. Front(new \o w) = new \o v /\ Last(new \o w) = n /\ new \o w # <<>>
    <3>1. Child(new \o v)
      BY <2>c, <2>4, Zenon
    <3>. QED BY <3>1, <2>3, Zenon
  <2>6. Front(p) = old \o v /\ Last(p) = n /\ p # <<>>
    <3>1. Child(old \o v)
      BY <2>c, <2>4, Zenon
    <3>. QED BY <3>1, <2>3, Zenon
  <2>7. IsPrefix(old, old \o v) /\ Carried(old, new, old \o v) = new \o v
    BY <2>2, PrefixJoin, CarriedJoin
  <2>8. new \o w # new
    BY <1>1, <2>1, ConcatEqualIffEmpty DEF Whole
  <2>. QED BY <2>5, <2>6, <2>7, <2>8
<1>. QED
  BY <1>1, <1>2, <1>3, <1>4, <1>5

\* The renamed object itself gets the new name.
LEMMA CarriedSelf ==
  ASSUME NEW old \in Whole, NEW new \in Whole
  PROVE  Carried(old, new, old) = new
<1>1. <<>> \in Whole /\ old \o <<>> = old /\ new \o <<>> = new
  BY JoinLaws
<1>2. Carried(old, new, old \o <<>>) = new \o <<>>
  BY <1>1, CarriedJoin, Zenon
<1>. QED
  BY <1>1, <1>2, Zenon

\* Carrying keeps what is above what.
LEMMA CarriedOrder ==
  ASSUME NEW old \in Whole, NEW new \in Whole, NEW p \in Whole, NEW a \in Whole,
         IsPrefix(old, a), IsPrefix(a, p)
  PROVE  IsPrefix(Carried(old, new, a), Carried(old, new, p))
<1>1. IsPrefix(old, p)
  BY PrefixOrder
<1>. DEFINE v == SubSeq(a, Len(old) + 1, Len(a))
            w == SubSeq(p, Len(old) + 1, Len(p))
<1>2. v \in Whole /\ a = old \o v
  BY PrefixSplit
<1>3. w \in Whole /\ p = old \o w
  BY <1>1, PrefixSplit
<1>. HIDE DEF v, w
<1>4. IsPrefix(v, w)
  BY <1>2, <1>3, JoinLaws
<1>5. Carried(old, new, a) = new \o v /\ Carried(old, new, p) = new \o w
  BY <1>2, <1>3, CarriedJoin
<1>6. IsPrefix(new \o v, new \o w)
  BY <1>2, <1>3, <1>4, JoinLaws
<1>. QED
  BY <1>5, <1>6

-----------------------------------------------------------------------------
(* The card.                                                               *)

\* What is on the card is a tree: whatever is above an object is a directory.
Tree(t) ==
  /\ DOMAIN t \subseteq Paths
  /\ \A p \in DOMAIN t : t[p] = Dir \/ t[p] \in 0..MaxSize
  /\ \A p \in DOMAIN t, a \in Whole \ {<<>>} :
       IsPrefix(a, p) /\ a # p => a \in DOMAIN t /\ t[a] = Dir

\* Where something can be made.
Place(t, p) == Parent(p) = <<>> \/ (Parent(p) \in DOMAIN t /\ t[Parent(p)] = Dir)

\* A path of the card has a parent above it, and is not the mark for no path.
LEMMA PathIs ==
  ASSUME NEW p \in Paths
  PROVE  /\ p \in Whole \ {<<>>} /\ Parent(p) \in Paths \cup {<<>>} /\ Parent(p) \in Whole
         /\ Parent(p) # p /\ IsPrefix(Parent(p), p) /\ ~IsPrefix(p, Parent(p)) /\ p # None
<1>1. p \in Whole \ {<<>>} /\ Front(p) \in Paths \cup {<<>>} /\ p # None
  BY PathsAssumption, ValuesAssumption DEF Whole
<1>2. Front(p) \in Whole /\ IsPrefix(Front(p), p) /\ Front(p) # p
  BY <1>1, FrontIs
<1>3. ~IsPrefix(p, Front(p))
  BY <1>1, <1>2, PrefixOrder
<1>. QED
  BY <1>1, <1>2, <1>3 DEF Parent

\* What is above a path is above its directory, or is its directory.
LEMMA AboveParent ==
  ASSUME NEW p \in Paths, NEW a \in Whole, IsPrefix(a, p), a # p
  PROVE  IsPrefix(a, Parent(p))
<1>1. p \in Whole
  BY PathIs
<1>. QED
  BY <1>1, AboveFront DEF Parent

\* Everything on the card is in the root or in a directory of the card.
LEMMA TreePlace ==
  ASSUME NEW t, Tree(t), NEW p \in DOMAIN t
  PROVE  Place(t, p)
<1>1. p \in Paths
  BY DEF Tree
<1>2. Parent(p) \in Whole /\ Parent(p) # p /\ IsPrefix(Parent(p), p)
  BY <1>1, PathIs
<1>. QED
  BY <1>2 DEF Tree, Place

\* Something and all that is below it is taken away.
LEMMA TreeWithout ==
  ASSUME NEW t, Tree(t), NEW gone,
         \A p \in DOMAIN t, a \in DOMAIN t : IsPrefix(a, p) /\ a \in gone => p \in gone,
         NEW u, DOMAIN u = DOMAIN t \ gone, \A p \in DOMAIN u : u[p] = t[p]
  PROVE  Tree(u)
<1>2. DOMAIN u \subseteq Paths /\ \A p \in DOMAIN u : u[p] = Dir \/ u[p] \in 0..MaxSize
  BY DEF Tree
<1>3. ASSUME NEW p \in DOMAIN u, NEW a \in Whole \ {<<>>}, IsPrefix(a, p), a # p
      PROVE  a \in DOMAIN u /\ u[a] = Dir
  <2>1. p \in DOMAIN t /\ p \notin gone
    OBVIOUS
  <2>2. a \in DOMAIN t /\ t[a] = Dir
    BY <1>3, <2>1 DEF Tree
  <2>3. a \notin gone
    BY <1>3, <2>1, <2>2
  <2>. QED BY <2>2, <2>3
<1>. QED
  BY <1>2, <1>3 DEF Tree

\* Something is made, or a file gets another length.
LEMMA TreeWith ==
  ASSUME NEW t, Tree(t), NEW p \in Paths, Place(t, p), p \in DOMAIN t => t[p] # Dir,
         NEW u, DOMAIN u = DOMAIN t \cup {p}, u[p] = Dir \/ u[p] \in 0..MaxSize,
         \A q \in DOMAIN t : q # p => u[q] = t[q]
  PROVE  Tree(u)
<1>2. DOMAIN u \subseteq Paths /\ \A q \in DOMAIN u : u[q] = Dir \/ u[q] \in 0..MaxSize
  BY DEF Tree
<1>3. \A a \in DOMAIN t : t[a] = Dir => a # p /\ a \in DOMAIN u /\ u[a] = Dir
  OBVIOUS
<1>4. ASSUME NEW q \in DOMAIN u, NEW a \in Whole \ {<<>>}, IsPrefix(a, q), a # q
      PROVE  a \in DOMAIN u /\ u[a] = Dir
  <2>1. CASE q \in DOMAIN t
    BY <1>3, <1>4, <2>1 DEF Tree
  <2>2. CASE q = p
    <3>1. IsPrefix(a, Parent(p)) /\ Parent(p) \in Whole
      BY <1>4, <2>2, AboveParent, PathIs
    <3>2. Parent(p) # <<>>
      <4>1. SUFFICES ASSUME Parent(p) = <<>> PROVE FALSE
        OBVIOUS
      <4>2. IsPrefix(<<>>, a) /\ <<>> \in Whole
        BY PrefixOrder, JoinLaws
      <4>. QED BY <3>1, <4>1, <4>2, PrefixOrder
    <3>3. Parent(p) \in DOMAIN t /\ t[Parent(p)] = Dir
      BY <3>2 DEF Place
    <3>4. a \in DOMAIN t /\ t[a] = Dir
      BY <3>1, <3>3 DEF Tree
    <3>. QED BY <1>3, <3>4
  <2>. QED BY <2>1, <2>2
<1>. QED
  BY <1>2, <1>4 DEF Tree

\* A rename that can be made, and the card after it.
CanRename(t, old, new) ==
  /\ old \in DOMAIN t /\ old # new /\ \E n \in Names : new = Append(Parent(old), n)
  /\ {Carried(old, new, p) : p \in DOMAIN t} \subseteq Paths
  /\ new \in DOMAIN t => t[new] # Dir /\ t[old] # Dir
Renamed(t, old, new) ==
  [p \in {Carried(old, new, q) : q \in DOMAIN t \ {new}} |->
     IF IsPrefix(new, p) THEN t[Carried(new, old, p)] ELSE t[p]]

\* The two names of a rename are of one directory, and neither is above the other.
LEMMA NewPlace ==
  ASSUME NEW t, Tree(t), NEW old, NEW new, CanRename(t, old, new)
  PROVE  /\ old \in Paths /\ new \in Paths /\ old \in Whole \ {<<>>} /\ new \in Whole \ {<<>>}
         /\ Parent(new) = Parent(old) /\ IsPrefix(old, old) /\ IsPrefix(new, new)
         /\ \A q \in Whole : ~(IsPrefix(old, q) /\ IsPrefix(new, q))
         /\ Carried(old, new, old) = new /\ Carried(old, new, new) = new
         /\ \A q \in Whole : ~IsPrefix(old, q) => Carried(old, new, q) = q
         /\ ~IsPrefix(old, <<>>)
<1>1. old \in Paths /\ old \in DOMAIN t /\ old # new
  BY DEF Tree, CanRename
<1>2. old \in Whole \ {<<>>}
  BY <1>1, PathIs
<1>3. PICK n \in Names : new = Append(Front(old), n)
  BY DEF CanRename, Parent
<1>4. /\ new \in Whole \ {<<>>} /\ Front(new) = Front(old)
      /\ \A q \in Whole : ~(IsPrefix(old, q) /\ IsPrefix(new, q))
  BY <1>1, <1>2, <1>3, Siblings
<1>5. Carried(old, new, old) = new
  BY <1>2, <1>4, CarriedSelf
<1>6. new \in Paths
  BY <1>1, <1>5 DEF CanRename
<1>7. IsPrefix(old, old) /\ IsPrefix(new, new)
  BY <1>2, <1>4, PrefixOrder
<1>8. \A q \in Whole : ~IsPrefix(old, q) => Carried(old, new, q) = q
  BY DEF Carried
<1>9. ~IsPrefix(old, <<>>)
  <2>1. <<>> \in Whole /\ IsPrefix(<<>>, old)
    BY <1>2, JoinLaws, PrefixOrder
  <2>. QED BY <1>2, <2>1, PrefixOrder
<1>. QED
  BY <1>1, <1>2, <1>4, <1>5, <1>6, <1>7, <1>8, <1>9 DEF Parent

\* Every object but a replaced one is carried over with what it is, into the carried
\* directory, and keeps its name unless it is the one renamed.
LEMMA CarriedOver ==
  ASSUME NEW t, Tree(t), NEW old, NEW new, CanRename(t, old, new), NEW q \in DOMAIN t, q # new
  PROVE  /\ Carried(old, new, q) \in DOMAIN Renamed(t, old, new)
         /\ Renamed(t, old, new)[Carried(old, new, q)] = t[q]
         /\ Parent(Carried(old, new, q)) = Carried(old, new, Parent(q))
         /\ q # old => Last(Carried(old, new, q)) = Last(q)
         /\ IsPrefix(old, q) <=> IsPrefix(new, Carried(old, new, q))
         /\ q \in Whole /\ q # <<>> /\ Parent(q) \in Whole /\ Parent(q) # new
<1>. DEFINE c(p) == Carried(old, new, p)
<1>1. q \in Paths /\ q \in Whole \ {<<>>} /\ Parent(q) \in Whole /\ Parent(q) # q /\ IsPrefix(Parent(q), q)
  BY PathIs DEF Tree
<1>2. /\ old \in Paths /\ new \in Paths /\ old \in Whole \ {<<>>} /\ new \in Whole \ {<<>>}
      /\ Parent(new) = Parent(old) /\ IsPrefix(old, old) /\ IsPrefix(new, new)
      /\ \A p \in Whole : ~(IsPrefix(old, p) /\ IsPrefix(new, p))
      /\ c(old) = new
      /\ \A p \in Whole : ~IsPrefix(old, p) => c(p) = p
  BY NewPlace
<1>3. c(q) \in DOMAIN Renamed(t, old, new)
  BY DEF Renamed
<1>4. Renamed(t, old, new)[c(q)] = IF IsPrefix(new, c(q)) THEN t[Carried(new, old, c(q))] ELSE t[c(q)]
  BY <1>3 DEF Renamed
<1>5. ~IsPrefix(new, q)
  <2>1. SUFFICES ASSUME IsPrefix(new, q) PROVE FALSE
    OBVIOUS
  <2>2. new \in DOMAIN t /\ t[new] = Dir
    BY <1>1, <1>2, <2>1 DEF Tree
  <2>. QED BY <2>2 DEF CanRename
<1>6. Parent(q) # new
  BY <1>1, <1>5
<1>7. CASE IsPrefix(old, q)
  <2>1. /\ IsPrefix(new, c(q)) /\ Carried(new, old, c(q)) = q
        /\ q # old => Front(c(q)) = c(Front(q)) /\ Last(c(q)) = Last(q)
    BY <1>1, <1>2, <1>7, CarriedBack
  <2>2. q = old => Parent(c(q)) = c(Parent(q))
    <3>1. ~IsPrefix(old, Parent(old)) /\ Parent(old) \in Whole
      BY <1>2, PathIs
    <3>. QED BY <1>2, <3>1
  <2>. QED BY <1>1, <1>3, <1>4, <1>6, <1>7, <2>1, <2>2 DEF Parent
<1>8. CASE ~IsPrefix(old, q)
  <2>1. c(q) = q
    BY <1>1, <1>2, <1>8
  <2>2. ~IsPrefix(old, Parent(q))
    BY <1>1, <1>2, <1>8, PrefixOrder
  <2>3. c(Parent(q)) = Parent(q)
    BY <1>1, <1>2, <2>2
  <2>. QED BY <1>1, <1>3, <1>4, <1>5, <1>6, <1>8, <2>1, <2>3
<1>. QED
  BY <1>7, <1>8

\* No two paths are carried to one.
LEMMA CarriedApart ==
  ASSUME NEW t, Tree(t), NEW old, NEW new, CanRename(t, old, new),
         NEW q \in (DOMAIN t \ {new}) \cup {<<>>}, NEW r \in (DOMAIN t \ {new}) \cup {<<>>},
         Carried(old, new, q) = Carried(old, new, r)
  PROVE  q = r
<1>. DEFINE c(p) == Carried(old, new, p)
<1>1. /\ old \in Whole \ {<<>>} /\ new \in Whole \ {<<>>}
      /\ \A p \in Whole : ~IsPrefix(old, p) => c(p) = p
      /\ ~IsPrefix(old, <<>>)
  BY NewPlace
<1>2. ~IsPrefix(new, <<>>) /\ <<>> \in Whole
  <2>1. <<>> \in Whole /\ IsPrefix(<<>>, new)
    BY <1>1, JoinLaws, PrefixOrder
  <2>. QED BY <1>1, <2>1, PrefixOrder
<1>3. ASSUME NEW p \in (DOMAIN t \ {new}) \cup {<<>>}
      PROVE  p \in Whole /\ (IsPrefix(old, p) <=> IsPrefix(new, c(p)))
  <2>1. CASE p = <<>>
    BY <1>1, <1>2, <2>1
  <2>2. CASE p \in DOMAIN t \ {new}
    BY <2>2, CarriedOver
  <2>. QED BY <2>1, <2>2
<1>4. CASE IsPrefix(old, q)
  <2>1. IsPrefix(old, r) /\ q \in Whole /\ r \in Whole
    BY <1>3, <1>4
  <2>2. Carried(new, old, c(q)) = q /\ Carried(new, old, c(r)) = r
    BY <1>1, <1>4, <2>1, CarriedBack
  <2>. QED BY <2>2
<1>5. CASE ~IsPrefix(old, q)
  <2>1. ~IsPrefix(old, r) /\ q \in Whole /\ r \in Whole
    BY <1>3, <1>5
  <2>2. c(q) = q /\ c(r) = r
    BY <1>1, <1>5, <2>1
  <2>. QED BY <2>2
<1>. QED
  BY <1>4, <1>5

\* A rename leaves a tree.
LEMMA TreeRenamed ==
  ASSUME NEW t, Tree(t), NEW old, NEW new, CanRename(t, old, new)
  PROVE  Tree(Renamed(t, old, new))
<1>. DEFINE c(p) == Carried(old, new, p)
            u == Renamed(t, old, new)
<1>1. /\ old \in Paths /\ new \in Paths /\ old \in Whole \ {<<>>} /\ new \in Whole \ {<<>>}
      /\ Parent(new) = Parent(old) /\ IsPrefix(old, old) /\ IsPrefix(new, new)
      /\ \A p \in Whole : ~(IsPrefix(old, p) /\ IsPrefix(new, p))
      /\ \A p \in Whole : ~IsPrefix(old, p) => c(p) = p
  BY NewPlace
<1>2. DOMAIN u = {c(q) : q \in DOMAIN t \ {new}}
  BY DEF Renamed
<1>3. \A q \in DOMAIN t \ {new} : c(q) \in DOMAIN u /\ u[c(q)] = t[q] /\ q \in Whole
  BY CarriedOver
<1>. HIDE DEF u
<1>4. DOMAIN u \subseteq Paths
  BY <1>2 DEF CanRename
<1>5. \A p \in DOMAIN u : u[p] = Dir \/ u[p] \in 0..MaxSize
  <2>1. SUFFICES ASSUME NEW q \in DOMAIN t \ {new} PROVE u[c(q)] = Dir \/ u[c(q)] \in 0..MaxSize
    BY <1>2
  <2>. QED BY <1>3 DEF Tree
<1>6. ASSUME NEW p \in DOMAIN u, NEW a \in Whole \ {<<>>}, IsPrefix(a, p), a # p
      PROVE  a \in DOMAIN u /\ u[a] = Dir
  <2>1. PICK q \in DOMAIN t \ {new} : p = c(q)
    BY <1>2
  <2>2. q \in Whole /\ (q \in Paths)
    BY <1>3 DEF Tree
  <2>3. SUFFICES ASSUME TRUE PROVE \E r \in DOMAIN t \ {new} : c(r) = a /\ t[r] = Dir
    BY <1>3
  <2>4. CASE IsPrefix(old, q)
    <3>1. c(q) \in Whole /\ IsPrefix(new, c(q)) /\ Carried(new, old, c(q)) = q
      BY <1>1, <2>2, <2>4, CarriedBack
    <3>2. IsPrefix(new, a) \/ IsPrefix(a, new)
      BY <1>1, <1>6, <2>1, <3>1, PrefixOrder
    <3>3. CASE IsPrefix(new, a)
      <4>. DEFINE r == Carried(new, old, a)
      <4>1. r \in Whole \ {<<>>} /\ IsPrefix(old, r) /\ c(r) = a
        BY <1>1, <3>3, CarriedBack
      <4>2. IsPrefix(r, q)
        <5>1. IsPrefix(r, Carried(new, old, c(q)))
          BY <1>1, <1>6, <2>1, <3>1, <3>3, CarriedOrder
        <5>. QED BY <3>1, <5>1
      <4>. HIDE DEF r
      <4>3. r # q
        BY <1>6, <2>1, <4>1
      <4>4. r \in DOMAIN t /\ t[r] = Dir
        BY <4>1, <4>2, <4>3 DEF Tree
      <4>5. r # new
        BY <1>1, <4>1
      <4>. QED BY <4>1, <4>4, <4>5
    <3>4. CASE IsPrefix(a, new) /\ a # new
      <4>1. IsPrefix(a, Parent(old)) /\ IsPrefix(Parent(old), old) /\ Parent(old) \in Whole
        BY <1>1, <3>4, AboveParent, PathIs
      <4>2. IsPrefix(a, old) /\ a # old
        <5>1. IsPrefix(a, old)
          BY <1>1, <4>1, PrefixOrder
        <5>2. ~IsPrefix(old, Parent(old))
          BY <1>1, PathIs
        <5>. QED BY <4>1, <5>1, <5>2
      <4>3. a \in DOMAIN t /\ t[a] = Dir
        BY <4>2 DEF Tree, CanRename
      <4>4. ~IsPrefix(old, a)
        BY <1>1, <4>2, PrefixOrder
      <4>. QED BY <1>1, <3>4, <4>3, <4>4
    <3>. QED BY <3>2, <3>3, <3>4, <1>1
  <2>5. CASE ~IsPrefix(old, q)
    <3>1. c(q) = q
      BY <1>1, <2>2, <2>5
    <3>2. a \in DOMAIN t /\ t[a] = Dir
      BY <1>6, <2>1, <3>1 DEF Tree
    <3>3. ~IsPrefix(old, a)
      BY <1>1, <1>6, <2>1, <2>2, <2>5, <3>1, PrefixOrder
    <3>4. a # new
      BY <3>2 DEF CanRename
    <3>. QED BY <1>1, <3>2, <3>3, <3>4
  <2>. QED BY <2>4, <2>5
<1>7. Tree(u)
  BY <1>4, <1>5, <1>6 DEF Tree
<1>. QED
  BY <1>2, <1>7 DEF u

-----------------------------------------------------------------------------
(* The inductive invariant.                                                *)

Entries == [dir : BOOLEAN, parent : {0} \cup Handles, storage : Ids, path : Paths,
            size : 0..MaxSize, scanned : BOOLEAN]

\* TypeOK without the card and the edits.
Typed ==
  /\ counter \in 2..(MaxHandle + 1) /\ DOMAIN db \subseteq Given
  /\ \A h \in DOMAIN db : db[h] \in Entries
  /\ pend \in {None} \cup DOMAIN db
  /\ dead \in BOOLEAN
  /\ truth \in [Given -> DOMAIN card \cup {None}]
  /\ why \in [Given -> Causes]
  /\ hidden \subseteq (DOMAIN db \cup {0}) \X DOMAIN card
  /\ rare \in 0..MaxRare

\* A file behind whose back nothing happened has the size its entry says.
Sized ==
  \A h \in DOMAIN db : why[h] = "none" /\ ~db[h].dir => card[db[h].path] = db[h].size

\* An announced upload has no object, and has not been listed.
Pending ==
  pend # None => truth[pend] = None /\ ~db[pend].dir /\ \A x \in hidden : x[1] # pend

\* Handle d may have been listed and is of the directory of p.
Sees(d, p) ==
  \/ d = 0 /\ Parent(p) = <<>>
  \/ d \in DOMAIN db /\ db[d].scanned /\ truth[d] = Parent(p)

\* The listing of d shows p, by a handle that was given for p and nothing else.
Shows(d, p) ==
  \E g \in DOMAIN db : /\ db[g].parent = d /\ db[g].storage = Card
                       /\ truth[g] = p /\ Last(db[g].path) = Last(p)

Shown ==
  \A p \in DOMAIN card, d \in DOMAIN db \cup {0} : Sees(d, p) => <<d, p>> \in hidden \/ Shows(d, p)

\* Named is HandleNamesItsObject in the terms of the card's tree.
Named ==
  \A h \in DOMAIN db :
    why[h] \in {"none", "written"} =>
      /\ truth[h] = db[h].path /\ db[h].path \in DOMAIN card
      /\ db[h].dir <=> card[db[h].path] = Dir

\* An edit is of the file its handle names.
Edited ==
  /\ DOMAIN edits \subseteq Given
  /\ \A h \in DOMAIN edits : edits[h] \in Paths /\ (h \in DOMAIN db => edits[h] = db[h].path)

MtpServerInv == Tree(card) /\ Typed /\ Named /\ Sized /\ Pending /\ Shown /\ Edited

\* Entries and what is known of them.
EntryOf(e, dir, parent, storage, path, size) ==
  /\ e \in Entries /\ e.dir = dir /\ e.parent = parent /\ e.storage = storage /\ e.path = path
  /\ e.size = size /\ ~e.scanned

\* What a new entry holds.
LEMMA EntryIs ==
  ASSUME NEW dir \in BOOLEAN, NEW parent \in {0} \cup Handles, NEW storage \in Ids,
         NEW path \in Paths, NEW size \in 0..MaxSize
  PROVE  EntryOf(Entry(dir, parent, storage, path, size), dir, parent, storage, path, size)
BY DEF Entry, Entries, EntryOf

\* The types of what an entry holds.
LEMMA EntryHas ==
  ASSUME NEW e \in Entries
  PROVE  /\ e.dir \in BOOLEAN /\ e.parent \in {0} \cup Handles /\ e.storage \in Ids /\ e.path \in Paths
         /\ e.size \in 0..MaxSize /\ e.scanned \in BOOLEAN
BY DEF Entries

\* An entry with one field changed is an entry with the others as they were.
LEMMA EntryWith ==
  ASSUME NEW e \in Entries
  PROVE  /\ LET f == [e EXCEPT !.scanned = TRUE] IN
              f \in Entries /\ f.dir = e.dir /\ f.parent = e.parent /\ f.storage = e.storage
              /\ f.path = e.path /\ f.size = e.size /\ f.scanned
         /\ \A v \in Paths : LET f == [e EXCEPT !.path = v] IN
              f \in Entries /\ f.dir = e.dir /\ f.parent = e.parent /\ f.storage = e.storage
              /\ f.path = v /\ f.size = e.size /\ f.scanned = e.scanned
         /\ \A v \in 0..MaxSize : LET f == [e EXCEPT !.size = v] IN
              f \in Entries /\ f.dir = e.dir /\ f.parent = e.parent /\ f.storage = e.storage
              /\ f.path = e.path /\ f.size = v /\ f.scanned = e.scanned
         /\ \A v \in {0} \cup Handles : LET f == [e EXCEPT !.parent = v] IN
              f \in Entries /\ f.dir = e.dir /\ f.parent = v /\ f.storage = e.storage
              /\ f.path = e.path /\ f.size = e.size /\ f.scanned = e.scanned
BY DEF Entries

\* The orders in which readdir may tell the members of a set tell all of them.
LEMMA OrdersAre ==
  ASSUME NEW S, IsFiniteSet(S), NEW order \in SetToSeqs(S)
  PROVE  /\ Len(order) \in Nat /\ \A i \in 1..Len(order) : order[i] \in S
         /\ \A p \in S : \E i \in 1..Len(order) : order[i] = p
<1>. DEFINE n == Cardinality(S)
            D == 1..n
<1>1. n \in Nat
  BY FS_CardinalityType
<1>2. order \in [D -> S] /\ \A i, j \in D : i # j => order[i] # order[j]
  BY DEF SetToSeqs
<1>3. IsFiniteSet(D) /\ Cardinality(D) = n
  <2>1. 1 \in Int /\ n \in Int
    BY <1>1
  <2>2. IsFiniteSet(1..n) /\ Cardinality(1..n) = IF 1 > n THEN 0 ELSE n - 1 + 1
    <3>. HIDE DEF n
    <3>. QED BY <2>1, FS_Interval
  <2>. HIDE DEF n
  <2>. QED BY <1>1, <2>2
<1>4. order \in Injection(D, S)
  BY <1>2 DEF Injection, IsInjective
<1>5. order \in Surjection(D, S)
  <2>1. Cardinality(D) = Cardinality(S) <=> order \in Surjection(D, S)
    <3>. HIDE DEF D
    <3>. QED BY <1>4, FS_Injection
  <2>. QED BY <1>3, <2>1
<1>6. Len(order) = n
  <2>. HIDE DEF n
  <2>. QED BY <1>1, <1>2
<1>. HIDE DEF n
<1>. QED
  BY <1>1, <1>2, <1>5, <1>6 DEF Surjection

\* Directories are finite.
LEMMA FewChildren ==
  ASSUME Tree(card), NEW p
  PROVE  IsFiniteSet(Children(p)) /\ IsFiniteSet(Looked(p))
<1>1. Children(p) \subseteq Paths
  BY DEF Children, Tree
<1>2. IsFiniteSet(Children(p))
  BY <1>1, FS_Subset, PathsAssumption
<1>3. IsFiniteSet({p})
  BY FS_Singleton
<1>. QED
  BY <1>2, <1>3 DEF Looked

\* The database right after the root was read.
LEMMA ReadIs ==
  ASSUME Tree(card), NEW order \in RootOrders, NEW skipped
  PROVE  LET R == Read(order, skipped)
             T == FirstTruth(order, skipped)
             D == 2..(Len(order) + 1)
         IN  /\ Len(order) \in Nat /\ Len(order) < MaxHandle
             /\ DOMAIN R \subseteq D /\ T \in [D -> DOMAIN card \cup {None}]
             /\ \A h \in DOMAIN R :
                  /\ R[h] \in Entries /\ R[h].path \in DOMAIN card /\ T[h] = R[h].path
                  /\ R[h].parent = 0 /\ R[h].storage = Card /\ ~R[h].scanned
                  /\ R[h].dir <=> card[R[h].path] = Dir
                  /\ ~R[h].dir => card[R[h].path] = R[h].size
             /\ \A p \in DOMAIN card : Parent(p) = <<>> =>
                  p \in skipped \/ \E h \in DOMAIN R : R[h].path = p
<1>. DEFINE N == Len(order)
            R == Read(order, skipped)
            T == FirstTruth(order, skipped)
            D == 2..(N + 1)
<1>1. order \in SetToSeqs(Children(<<>>)) /\ N < MaxHandle
  BY DEF RootOrders
<1>2. /\ N \in Nat /\ \A i \in 1..N : order[i] \in Children(<<>>)
      /\ \A p \in Children(<<>>) : \E i \in 1..N : order[i] = p
  BY <1>1, FewChildren, OrdersAre
<1>3. DOMAIN R = {h \in D : order[h - 1] \notin skipped}
  BY DEF Read
<1>4. \A h \in D : order[h - 1] \in DOMAIN card /\ Parent(order[h - 1]) = <<>>
  <2>1. \A h \in D : h - 1 \in 1..N
    BY <1>2
  <2>. QED BY <1>2, <2>1 DEF Children
<1>5. T \in [D -> DOMAIN card \cup {None}]
  BY <1>4 DEF FirstTruth
<1>6. ASSUME NEW h \in DOMAIN R
      PROVE  /\ R[h] \in Entries /\ R[h].path = order[h - 1] /\ R[h].path \in DOMAIN card /\ T[h] = R[h].path
             /\ R[h].parent = 0 /\ R[h].storage = Card /\ ~R[h].scanned
             /\ R[h].dir <=> card[R[h].path] = Dir
             /\ ~R[h].dir => card[R[h].path] = R[h].size
  <2>. DEFINE p == order[h - 1]
  <2>1. h \in D /\ p \notin skipped /\ T[h] = p /\ p \in DOMAIN card
    BY <1>3, <1>4 DEF FirstTruth
  <2>2. R[h] = Entry(IsDir(p), 0, Card, p, SizeOf(card[p]))
    BY <1>3 DEF Read
  <2>. HIDE DEF p, R, T
  <2>3. p \in Paths /\ p # <<>> /\ (card[p] = Dir \/ card[p] \in 0..MaxSize)
    BY <2>1, PathIs DEF Tree
  <2>4. IsDir(p) <=> card[p] = Dir
    BY <2>1, <2>3 DEF IsDir
  <2>5. SizeOf(card[p]) \in 0..MaxSize /\ (card[p] # Dir => SizeOf(card[p]) = card[p])
    BY <2>3, BoundsAssumption DEF SizeOf
  <2>6. IsDir(p) \in BOOLEAN
    BY DEF IsDir
  <2>7. EntryOf(R[h], IsDir(p), 0, Card, p, SizeOf(card[p]))
    BY <2>2, <2>3, <2>5, <2>6, CardAssumption, EntryIs
  <2>. QED BY <2>1, <2>4, <2>5, <2>7 DEF p, EntryOf
<1>7. ASSUME NEW p \in DOMAIN card, Parent(p) = <<>>, p \notin skipped
      PROVE  \E h \in DOMAIN R : R[h].path = p
  <2>1. PICK i \in 1..N : order[i] = p
    BY <1>2, <1>7 DEF Children
  <2>2. i + 1 \in D /\ (i + 1) - 1 = i
    BY <1>2
  <2>3. i + 1 \in DOMAIN R
    BY <1>3, <1>7, <2>1, <2>2
  <2>. QED BY <1>6, <2>1, <2>2, <2>3
<1>. HIDE DEF R, T
<1>. QED
  BY <1>1, <1>2, <1>3, <1>5, <1>6, <1>7 DEF R, T

\* An int holds a number that is small enough.
LEMMA IntHolds ==
  ASSUME NEW x \in Nat, 2 * x < Width
  PROVE  AsInt(x) = x /\ x % Width = x
<1>1. Width \in Nat \ {0} /\ x \in 0..Width - 1
  BY BoundsAssumption
<1>2. \A k \in Nat \ {0} : \A y \in 0..k - 1 : y % k = y
  OBVIOUS
<1>3. x % Width = x
  BY <1>1, <1>2, Zenon
<1>. QED
  BY <1>3 DEF AsInt

\* What GetPartialObject announces is what it sends, as long as an int holds the size.
LEMMA PromiseIs ==
  ASSUME NEW n \in 0..MaxSize, 2 * n < Width, NEW offset \in 0..n, NEW length \in 0..Width - 1
  PROVE  Promised(n, offset, length) = Sends(n, offset, length)
<1>1. MaxSize \in Nat /\ Width \in Nat /\ n \in Nat /\ offset \in Nat /\ length \in Nat
  BY BoundsAssumption
<1>2. CASE offset + length > n
  <2>1. n - offset \in Nat /\ 2 * (n - offset) < Width
    BY <1>1
  <2>2. AsInt(n - offset) = n - offset /\ (n - offset) % Width = n - offset
    BY <2>1, IntHolds
  <2>. QED BY <1>1, <1>2, <2>1, <2>2 DEF Promised, Sends
<1>3. CASE ~(offset + length > n)
  <2>1. 2 * length < Width /\ (offset >= n => length = 0)
    BY <1>1, <1>3
  <2>2. AsInt(length) = length
    BY <1>1, <2>1, IntHolds
  <2>. QED BY <1>1, <1>3, <2>1, <2>2 DEF Promised, Sends
<1>. QED
  BY <1>2, <1>3

\* The invariant gives the properties the runs check.
LEMMA InvGives ==
  ASSUME MtpServerInv
  PROVE  TypeOK /\ HandleNamesItsObject /\ ListingComplete /\ PromiseKept
<1>1. TypeOK
  <2>1. /\ DOMAIN card \subseteq Paths
        /\ \A p \in DOMAIN card : card[p] = Dir \/ card[p] \in 0..MaxSize
    BY DEF MtpServerInv, Tree
  <2>2. \A p \in DOMAIN card : IsDir(Parent(p))
    BY TreePlace DEF MtpServerInv, Place, IsDir
  <2>3. DOMAIN edits \subseteq Given /\ Opened \subseteq Paths
    BY DEF MtpServerInv, Edited, Opened
  <2>. QED BY <2>1, <2>2, <2>3 DEF TypeOK, MtpServerInv, Typed, Entries
<1>2. HandleNamesItsObject
  <2>1. \A p \in DOMAIN card : IsDir(p) <=> card[p] = Dir
    BY PathIs DEF MtpServerInv, Tree, IsDir
  <2>. QED BY <2>1 DEF HandleNamesItsObject, MtpServerInv, Named
<1>3. ListingComplete
  <2>1. SUFFICES ASSUME NEW dir \in {<<>>} \cup DOMAIN card, NEW d \in Viewers(dir), NEW p \in Children(dir)
                 PROVE  \/ <<d, p>> \in hidden
                        \/ \E g \in DOMAIN db :
                             db[g].parent = d /\ db[g].storage = Card /\ Last(db[g].path) = Last(p)
    BY DEF ListingComplete
  <2>2. p \in DOMAIN card /\ d \in DOMAIN db \cup {0} /\ Sees(d, p)
    BY DEF Viewers, Children, Sees
  <2>. QED BY <2>2 DEF MtpServerInv, Shown, Shows
<1>4. PromiseKept
  <2>1. SUFFICES ASSUME NEW h \in DOMAIN db, why[h] = "none", ~db[h].dir, 2 * db[h].size < Width,
                        NEW offset \in 0..db[h].size, NEW length \in 0..Width - 1
                 PROVE  Promised(db[h].size, offset, length) = Sends(card[db[h].path], offset, length)
    BY DEF PromiseKept
  <2>2. card[db[h].path] = db[h].size
    BY <2>1 DEF MtpServerInv, Sized
  <2>3. db[h].size \in 0..MaxSize
    BY EntryHas DEF MtpServerInv, Typed
  <2>. QED BY <2>1, <2>2, <2>3, PromiseIs
<1>. QED
  BY <1>1, <1>2, <1>3, <1>4

\* Of a card where the directory of every object is a directory, nothing above an object
\* is anything else.
LEMMA TreeFromParents ==
  ASSUME NEW t, DOMAIN t \subseteq Paths, \A p \in DOMAIN t : t[p] = Dir \/ t[p] \in 0..MaxSize,
         \A p \in DOMAIN t : Len(p) > 1 => Parent(p) \in DOMAIN t /\ t[Parent(p)] = Dir
  PROVE  Tree(t)
<1>1. SUFFICES ASSUME NEW p \in DOMAIN t, NEW a \in Whole \ {<<>>}, IsPrefix(a, p), a # p,
                      ~(a \in DOMAIN t /\ t[a] = Dir)
               PROVE  FALSE
  BY DEF Tree
<1>. DEFINE Between(q) == q \in DOMAIN t /\ IsPrefix(a, q) /\ a # q
            T == {Len(q) : q \in {r \in DOMAIN t : Between(r)}}
<1>2. ASSUME NEW q, Between(q)
      PROVE  /\ Between(Parent(q)) /\ Len(Parent(q)) < Len(q) /\ Len(q) \in Nat
             /\ Len(Parent(q)) \in Nat
  <2>1. q \in Paths /\ q \in Whole \ {<<>>} /\ Parent(q) \in Whole
    BY <1>2, PathIs
  <2>2. IsPrefix(a, Parent(q))
    BY <1>2, <2>1, AboveParent
  <2>3. Len(Parent(q)) = Len(q) - 1 /\ Len(q) \in Nat \ {0}
    BY <2>1, FrontIs DEF Parent
  <2>4. Len(q) > 1
    <3>1. SUFFICES ASSUME Len(q) = 1 PROVE FALSE
      BY <2>3
    <3>2. Len(a) <= Len(Parent(q)) /\ Len(Parent(q)) = 0
      BY <2>2, <2>3, <3>1 DEF IsPrefix
    <3>3. Len(a) \in Nat \ {0}
      BY FrontIs
    <3>. QED BY <3>2, <3>3
  <2>5. Parent(q) \in DOMAIN t /\ t[Parent(q)] = Dir
    BY <1>2, <2>4
  <2>6. a # Parent(q)
    BY <1>1, <2>5
  <2>. QED BY <2>2, <2>3, <2>5, <2>6
<1>3. T \in SUBSET Nat /\ T # {}
  <2>1. \A q : Between(q) => Len(q) \in Nat
    BY <1>2
  <2>2. Between(p)
    BY <1>1
  <2>. HIDE DEF Between
  <2>. QED BY <2>1, <2>2
<1>4. PICK n \in T : \A m \in T : n <= m
  <2>. HIDE DEF T
  <2>. QED BY <1>3, Least
<1>5. PICK q \in DOMAIN t : Between(q) /\ n = Len(q)
  BY <1>4
<1>6. Between(Parent(q)) /\ Len(Parent(q)) < Len(q) /\ Len(q) \in Nat /\ Len(Parent(q)) \in Nat
  BY <1>2, <1>5
<1>7. Len(Parent(q)) \in T
  BY <1>6
<1>8. Len(q) <= Len(Parent(q))
  <2>. HIDE DEF T, Between
  <2>. QED BY <1>4, <1>5, <1>7
<1>. QED
  BY <1>6, <1>8

\* A new database has just read the root.
LEMMA InitInv == Init => MtpServerInv
<1>. SUFFICES ASSUME Init PROVE MtpServerInv
  OBVIOUS
<1>1. Tree(card)
  <2>1. PICK S \in kSubset(2, Paths) \cup {{}} :
          card \in [S -> {Dir, 1}]
          /\ \A p \in DOMAIN card : Len(p) > 1 => Parent(p) \in DOMAIN card /\ card[Parent(p)] = Dir
    BY DEF Init
  <2>2. S \subseteq Paths
    BY DEF kSubset
  <2>3. 1 \in 0..MaxSize
    BY BoundsAssumption
  <2>. QED BY <2>1, <2>2, <2>3, TreeFromParents
<1>2. PICK order \in RootOrders, skipped \in SUBSET Children(<<>>) :
        /\ counter = 2 + Len(order) /\ db = Read(order, skipped) /\ truth = FirstTruth(order, skipped)
        /\ hidden = {0} \X skipped /\ rare = (IF skipped = {} THEN 0 ELSE 1) /\ rare <= MaxRare
  BY DEF Init
<1>3. /\ Len(order) \in Nat /\ Len(order) < MaxHandle
      /\ DOMAIN db \subseteq 2..(Len(order) + 1) /\ truth \in [2..(Len(order) + 1) -> DOMAIN card \cup {None}]
      /\ \A h \in DOMAIN db :
           /\ db[h] \in Entries /\ db[h].path \in DOMAIN card /\ truth[h] = db[h].path
           /\ db[h].parent = 0 /\ db[h].storage = Card /\ ~db[h].scanned
           /\ db[h].dir <=> card[db[h].path] = Dir
           /\ ~db[h].dir => card[db[h].path] = db[h].size
      /\ \A p \in DOMAIN card : Parent(p) = <<>> =>
           p \in skipped \/ \E h \in DOMAIN db : db[h].path = p
  BY <1>1, <1>2, ReadIs
<1>4. Given = 2..(Len(order) + 1) /\ counter \in 2..(MaxHandle + 1)
  BY <1>2, <1>3, BoundsAssumption DEF Given
<1>5. why = [h \in Given |-> "none"] /\ pend = None /\ edits = NoEdits /\ dead = FALSE
  BY DEF Init
<1>6. Typed
  <2>1. why \in [Given -> Causes]
    BY <1>5 DEF Causes
  <2>2. rare \in 0..MaxRare
    BY <1>2, BoundsAssumption
  <2>3. hidden \subseteq (DOMAIN db \cup {0}) \X DOMAIN card
    BY <1>2 DEF Children
  <2>. QED BY <1>3, <1>4, <1>5, <2>1, <2>2, <2>3 DEF Typed
<1>7. Named /\ Sized
  BY <1>3 DEF Named, Sized
<1>8. Pending /\ Edited
  BY <1>5 DEF Pending, Edited, NoEdits
<1>9. Shown
  <2>1. SUFFICES ASSUME NEW p \in DOMAIN card, NEW d \in DOMAIN db \cup {0}, Sees(d, p)
                 PROVE  <<d, p>> \in hidden \/ Shows(d, p)
    BY DEF Shown
  <2>2. d = 0 /\ Parent(p) = <<>>
    BY <1>3, <2>1 DEF Sees
  <2>3. CASE p \in skipped
    BY <1>2, <2>2, <2>3
  <2>4. CASE p \notin skipped
    <3>1. PICK h \in DOMAIN db : db[h].path = p
      BY <1>3, <2>2, <2>4
    <3>. QED BY <1>3, <2>2, <3>1 DEF Shows
  <2>. QED BY <2>3, <2>4
<1>. QED
  BY <1>1, <1>6, <1>7, <1>8, <1>9 DEF MtpServerInv

-----------------------------------------------------------------------------
(* Two ways a step can change the state.                                   *)

\* Objects go from the card and entries from the database, or nothing does.
LEMMA Removal ==
  ASSUME MtpServerInv,
         NEW gone, \A p \in DOMAIN card, a \in DOMAIN card : IsPrefix(a, p) /\ a \in gone => p \in gone,
         DOMAIN card' = DOMAIN card \ gone, \A p \in DOMAIN card' : card'[p] = card[p],
         DOMAIN db' \subseteq DOMAIN db, \A h \in DOMAIN db' : db'[h] = db[h],
         counter' = counter,
         truth' \in [Given -> DOMAIN card' \cup {None}], why' \in [Given -> Causes],
         \A g \in Given : IF truth[g] \in gone
                          THEN truth'[g] = None /\ why'[g] \notin {"none", "written"}
                          ELSE truth'[g] = truth[g] /\ why'[g] = why[g],
         hidden' \subseteq (DOMAIN db' \cup {0}) \X DOMAIN card',
         hidden \cap ((DOMAIN db' \cup {0}) \X DOMAIN card') \subseteq hidden',
         \A g \in DOMAIN db \ DOMAIN db', d \in DOMAIN db' \cup {0} :
           truth[g] \in DOMAIN card' /\ Sees(d, truth[g]) => <<d, truth[g]>> \in hidden',
         pend' = None \/ (pend' = pend /\ pend \in DOMAIN db' /\ hidden' \subseteq hidden),
         dead' \in BOOLEAN, rare' \in 0..MaxRare, edits' = edits
  PROVE  MtpServerInv'
<1>1. Tree(card')
  BY TreeWithout DEF MtpServerInv
<1>2. Given' = Given /\ DOMAIN db \subseteq Given
  BY DEF Given, MtpServerInv, Typed
<1>3. Typed'
  BY <1>2 DEF MtpServerInv, Typed
<1>4. ASSUME NEW h \in DOMAIN db', why'[h] \in {"none", "written"}
      PROVE  /\ h \in DOMAIN db /\ why'[h] = why[h] /\ truth'[h] = truth[h] /\ truth[h] \notin gone
             /\ db'[h] = db[h] /\ truth[h] = db[h].path
             /\ db[h].path \in DOMAIN card' /\ card'[db[h].path] = card[db[h].path]
             /\ db[h].dir <=> card[db[h].path] = Dir
  <2>1. h \in DOMAIN db /\ h \in Given
    BY <1>2
  <2>2. truth[h] \notin gone /\ why'[h] = why[h] /\ truth'[h] = truth[h]
    BY <1>4, <2>1
  <2>3. truth[h] = db[h].path /\ db[h].path \in DOMAIN card /\ (db[h].dir <=> card[db[h].path] = Dir)
    BY <1>4, <2>1, <2>2 DEF MtpServerInv, Named
  <2>. QED BY <2>1, <2>2, <2>3
<1>5. Named'
  BY <1>4 DEF Named
<1>6. Sized'
  BY <1>4 DEF Sized, MtpServerInv
<1>7. Pending'
  <2>1. SUFFICES ASSUME pend' # None PROVE truth'[pend'] = None /\ ~db'[pend'].dir /\ \A x \in hidden' : x[1] # pend'
    BY DEF Pending
  <2>2. pend' = pend /\ pend \in DOMAIN db' /\ hidden' \subseteq hidden /\ pend \in Given
    BY <1>2, <2>1
  <2>3. truth[pend] = None /\ ~db[pend].dir /\ \A x \in hidden : x[1] # pend
    BY <2>1, <2>2 DEF MtpServerInv, Pending
  <2>4. truth'[pend] = None
    BY <2>2, <2>3
  <2>. QED BY <2>2, <2>3, <2>4
<1>8. Shown'
  <2>1. SUFFICES ASSUME NEW p \in DOMAIN card', NEW d \in DOMAIN db' \cup {0}, Sees(d, p)'
                 PROVE  <<d, p>> \in hidden' \/ Shows(d, p)'
    BY DEF Shown
  <2>2. Sees(d, p)
    <3>1. CASE d = 0 /\ Parent(p) = <<>>
      BY <3>1 DEF Sees
    <3>2. CASE d \in DOMAIN db' /\ db'[d].scanned /\ truth'[d] = Parent(p)
      <4>1. Parent(p) # None
        BY <1>1, PathIs, ValuesAssumption DEF Tree
      <4>2. d \in DOMAIN db /\ d \in Given
        BY <1>2, <3>2
      <4>3. truth[d] = Parent(p)
        BY <3>2, <4>1, <4>2
      <4>. QED BY <3>2, <4>2, <4>3 DEF Sees
    <3>. QED BY <2>1, <3>1, <3>2 DEF Sees
  <2>3. CASE <<d, p>> \in hidden
    BY <2>3
  <2>4. CASE Shows(d, p)
    <3>1. PICK g \in DOMAIN db : /\ db[g].parent = d /\ db[g].storage = Card
                                 /\ truth[g] = p /\ Last(db[g].path) = Last(p)
      BY <2>4 DEF Shows
    <3>2. CASE g \in DOMAIN db'
      <4>1. g \in Given /\ truth[g] \notin gone
        BY <1>2, <3>1
      <4>2. truth'[g] = p /\ db'[g] = db[g]
        BY <3>1, <3>2, <4>1
      <4>. QED BY <3>1, <3>2, <4>2 DEF Shows
    <3>3. CASE g \notin DOMAIN db'
      BY <2>2, <3>1, <3>3
    <3>. QED BY <3>2, <3>3
  <2>5. <<d, p>> \in hidden \/ Shows(d, p)
    BY <2>2 DEF MtpServerInv, Shown
  <2>. QED BY <2>3, <2>4, <2>5
<1>9. Edited'
  BY <1>2 DEF MtpServerInv, Edited
<1>. QED
  BY <1>1, <1>3, <1>5, <1>6, <1>7, <1>8, <1>9 DEF MtpServerInv

\* More handles have been given out.
LEMMA MoreHandles ==
  ASSUME NEW i \in Int, NEW k \in Int, 2 <= i, i <= k
  PROVE  2..(i - 1) \subseteq 2..(k - 1) /\ i..(k - 1) \subseteq 2..(k - 1)
OBVIOUS

\* Objects come to be on the card, entries in the database, or directories are listed.
LEMMA Growth ==
  ASSUME MtpServerInv,
         Tree(card'), DOMAIN card \subseteq DOMAIN card', \A p \in DOMAIN card : card'[p] = card[p],
         counter' \in counter..(MaxHandle + 1),
         NEW new, new \subseteq counter..(counter' - 1), DOMAIN db' = DOMAIN db \cup new,
         \A h \in DOMAIN db' : db'[h] \in Entries,
         \A h \in DOMAIN db : /\ db'[h].dir = db[h].dir /\ db'[h].parent = db[h].parent
                              /\ db'[h].storage = db[h].storage
                              /\ db'[h].path = db[h].path /\ db'[h].size = db[h].size,
         truth' \in [Given' -> DOMAIN card' \cup {None}], why' \in [Given' -> Causes],
         \A g \in Given : truth'[g] = truth[g] /\ why'[g] = why[g],
         \A h \in new : why'[h] \in {"none", "written"} =>
           /\ truth'[h] = db'[h].path /\ db'[h].path \in DOMAIN card'
           /\ db'[h].dir <=> card'[db'[h].path] = Dir
           /\ ~db'[h].dir => card'[db'[h].path] = db'[h].size,
         hidden \subseteq hidden', hidden' \subseteq (DOMAIN db \cup {0}) \X DOMAIN card',
         \A p \in DOMAIN card', d \in DOMAIN db' \cup {0} :
           Sees(d, p)' => \/ p \in DOMAIN card /\ d \in DOMAIN db \cup {0} /\ Sees(d, p)
                          \/ <<d, p>> \in hidden' \/ Shows(d, p)',
         \/ pend' = None
         \/ pend' \in new /\ truth'[pend'] = None /\ ~db'[pend'].dir
         \/ pend' = pend /\ \A x \in hidden' : x \in hidden \/ x[1] # pend,
         dead' \in BOOLEAN, rare' \in 0..MaxRare, edits' = edits
  PROVE  MtpServerInv'
<1>1. counter \in Nat /\ counter >= 2 /\ DOMAIN db \subseteq Given /\ counter' \in Int /\ MaxHandle \in Nat
  BY BoundsAssumption DEF MtpServerInv, Typed
<1>2. Given \subseteq Given' /\ new \subseteq Given' /\ counter' \in 2..(MaxHandle + 1) /\ counter \notin Given
  <2>1. counter \in Int /\ 2 <= counter /\ counter' \in Int /\ MaxHandle \in Nat
    BY <1>1
  <2>2. counter' \in counter..(MaxHandle + 1)
    OBVIOUS
  <2>3. counter <= counter' /\ counter' <= MaxHandle + 1
    BY ONLY <2>1, <2>2
  <2>5. 2..(counter - 1) \subseteq 2..(counter' - 1) /\ counter..(counter' - 1) \subseteq 2..(counter' - 1)
    BY ONLY <2>1, <2>3, MoreHandles
  <2>6. new \subseteq counter..(counter' - 1)
    OBVIOUS
  <2>7. Given \subseteq Given' /\ new \subseteq Given'
    BY ONLY <2>5, <2>6 DEF Given
  <2>8. counter' \in 2..(MaxHandle + 1) /\ counter \notin Given
    BY ONLY <2>1, <2>3 DEF Given
  <2>. QED BY <2>7, <2>8
<1>3. \A h \in new : h \notin DOMAIN db /\ h # 0 /\ h \notin Given
  <2>0. \A h \in counter..(counter' - 1) : h \notin Given /\ h # 0
    BY <1>1 DEF Given
  <2>1. \A h \in new : h \notin Given /\ h # 0
    BY <2>0
  <2>. QED BY <1>1, <2>1
<1>4. Typed'
  BY <1>1, <1>2 DEF MtpServerInv, Typed
<1>5. ASSUME NEW h \in DOMAIN db
      PROVE  h \in Given /\ truth'[h] = truth[h] /\ why'[h] = why[h]
  BY <1>1
<1>6. Named'
  <2>1. SUFFICES ASSUME NEW h \in DOMAIN db', why'[h] \in {"none", "written"}
                 PROVE  /\ truth'[h] = db'[h].path /\ db'[h].path \in DOMAIN card'
                        /\ db'[h].dir <=> card'[db'[h].path] = Dir
    BY DEF Named
  <2>2. CASE h \in new
    BY <2>1, <2>2
  <2>3. CASE h \in DOMAIN db
    <3>1. truth[h] = db[h].path /\ db[h].path \in DOMAIN card /\ (db[h].dir <=> card[db[h].path] = Dir)
      BY <1>5, <2>1, <2>3 DEF MtpServerInv, Named
    <3>. QED BY <1>5, <2>3, <3>1
  <2>. QED BY <2>2, <2>3
<1>7. Sized'
  <2>1. SUFFICES ASSUME NEW h \in DOMAIN db', why'[h] = "none", ~db'[h].dir
                 PROVE  card'[db'[h].path] = db'[h].size
    BY DEF Sized
  <2>2. CASE h \in new
    BY <2>1, <2>2
  <2>3. CASE h \in DOMAIN db
    <3>1. db[h].path \in DOMAIN card /\ card[db[h].path] = db[h].size
      BY <1>5, <2>1, <2>3 DEF MtpServerInv, Named, Sized
    <3>. QED BY <1>5, <2>3, <3>1
  <2>. QED BY <2>2, <2>3
<1>8. Pending'
  <2>1. CASE pend' = None
    BY <2>1 DEF Pending
  <2>2. CASE pend' \in new /\ truth'[pend'] = None /\ ~db'[pend'].dir
    <3>1. \A x \in hidden' : x[1] \in DOMAIN db \cup {0}
      OBVIOUS
    <3>2. \A x \in hidden' : x[1] # pend'
      BY <1>3, <2>2, <3>1
    <3>. QED BY <2>2, <3>2 DEF Pending
  <2>3. CASE pend' = pend /\ pend # None /\ \A x \in hidden' : x \in hidden \/ x[1] # pend
    <3>1. truth[pend] = None /\ ~db[pend].dir /\ (\A x \in hidden : x[1] # pend) /\ pend \in DOMAIN db
      BY <2>3 DEF MtpServerInv, Pending, Typed
    <3>2. truth'[pend] = None /\ ~db'[pend].dir
      BY <1>5, <3>1
    <3>3. \A x \in hidden' : x[1] # pend
      BY <2>3, <3>1
    <3>. QED BY <2>3, <3>2, <3>3 DEF Pending
  <2>. QED BY <2>1, <2>2, <2>3
<1>9. Shown'
  <2>1. SUFFICES ASSUME NEW p \in DOMAIN card', NEW d \in DOMAIN db' \cup {0}, Sees(d, p)',
                        p \in DOMAIN card, d \in DOMAIN db \cup {0}, Sees(d, p)
                 PROVE  <<d, p>> \in hidden' \/ Shows(d, p)'
    BY DEF Shown
  <2>2. CASE <<d, p>> \in hidden
    BY <2>2
  <2>3. CASE Shows(d, p)
    <3>1. PICK g \in DOMAIN db : /\ db[g].parent = d /\ db[g].storage = Card
                                 /\ truth[g] = p /\ Last(db[g].path) = Last(p)
      BY <2>3 DEF Shows
    <3>2. /\ g \in DOMAIN db' /\ db'[g].parent = d /\ db'[g].storage = Card
          /\ truth'[g] = p /\ db'[g].path = db[g].path
      BY <1>5, <3>1
    <3>. QED BY <3>1, <3>2 DEF Shows
  <2>4. <<d, p>> \in hidden \/ Shows(d, p)
    BY <2>1 DEF MtpServerInv, Shown
  <2>. QED BY <2>2, <2>3, <2>4
<1>10. Edited'
  <2>1. DOMAIN edits \subseteq Given' /\ \A h \in DOMAIN edits : h \notin new
    BY <1>2, <1>3 DEF MtpServerInv, Edited
  <2>. QED BY <2>1 DEF MtpServerInv, Edited
<1>. QED
  BY <1>4, <1>6, <1>7, <1>8, <1>9, <1>10 DEF MtpServerInv

-----------------------------------------------------------------------------
(* The actions.                                                            *)

\* The directories of the database that should show a path are those that see it.
LEMMA ViewersSee ==
  ASSUME NEW d, NEW p
  PROVE  d \in Viewers(Parent(p)) <=> d \in DOMAIN db \cup {0} /\ Sees(d, p)
BY DEF Viewers, Sees

\* The same of several paths.
LEMMA MissingIs ==
  ASSUME NEW x, NEW ps
  PROVE  x \in Missing(ps) <=> \E p \in ps : \E d \in DOMAIN db \cup {0} : x = <<d, p>> /\ Sees(d, p)
BY ViewersSee DEF Missing

\* Given, and so on, once and for all.
LEMMA TypedFacts ==
  ASSUME MtpServerInv
  PROVE  /\ counter \in Nat /\ counter >= 2 /\ counter <= MaxHandle + 1 /\ MaxHandle \in Nat
         /\ DOMAIN db \subseteq Given /\ DOMAIN truth = Given /\ DOMAIN why = Given
         /\ counter \notin DOMAIN db /\ 0 \notin DOMAIN db /\ None \notin DOMAIN db
         /\ counter # 0 /\ counter # None /\ counter \notin Given /\ counter - 1 \in Int
         /\ DOMAIN card \subseteq Paths /\ None \notin DOMAIN card
         /\ \A g \in Given : why[g] \in Causes /\ truth[g] \in DOMAIN card \cup {None}
         /\ rare \in 0..MaxRare /\ MaxRare \in Nat /\ MaxSize \in Nat \ {0}
         /\ pend # None => pend \in DOMAIN db
         /\ None # 0 /\ None # <<>>
<1>1. /\ counter \in Nat /\ counter >= 2 /\ counter <= MaxHandle + 1 /\ MaxHandle \in Nat
      /\ MaxRare \in Nat /\ MaxSize \in Nat \ {0}
  BY BoundsAssumption DEF MtpServerInv, Typed
<1>2. counter \notin Given /\ 0 \notin Given /\ Given \subseteq Nat /\ counter - 1 \in Int /\ counter # 0
  BY <1>1 DEF Given
<1>3. DOMAIN db \subseteq Given /\ DOMAIN card \subseteq Paths
  BY DEF MtpServerInv, Typed, Tree
<1>4. None \notin Nat /\ None \notin Paths /\ None # <<>> /\ None # 0
  BY ValuesAssumption
<1>. QED
  BY <1>1, <1>2, <1>3, <1>4 DEF MtpServerInv, Typed

\* Blaming a handle gives a cause, and never a milder one.
LEMMA BlameIs ==
  ASSUME NEW g, NEW cause \in Causes, why[g] \in Causes
  PROVE  /\ Blame(g, cause) \in Causes
         /\ cause \notin {"none", "written"} => Blame(g, cause) \notin {"none", "written"}
         /\ cause = "written" => Blame(g, cause) # "none"
         /\ cause = "written" /\ Blame(g, cause) = "written" => why[g] \in {"none", "written"}
BY DEF Blame

\* The count of what is rare stays within its bound.
LEMMA RareIs ==
  ASSUME MtpServerInv, NEW odd, Rarely(odd)
  PROVE  rare' \in 0..MaxRare
<1>1. rare \in Nat /\ MaxRare \in Nat
  BY TypedFacts
<1>2. (IF odd THEN 1 ELSE 0) \in Nat /\ rare' = rare + (IF odd THEN 1 ELSE 0) /\ rare' <= MaxRare
  BY DEF Rarely
<1>. QED
  BY <1>1, <1>2

\* Edits are of the files their handles name, as long as those keep their paths.
LEMMA EditedStays ==
  ASSUME MtpServerInv, edits' = edits, counter' = counter,
         \A h \in DOMAIN db' : h \in DOMAIN db /\ db'[h].path = db[h].path
  PROVE  Edited'
BY DEF MtpServerInv, Edited, Given

\* Nothing about card and database changes.
LEMMA Quiet ==
  ASSUME MtpServerInv, UNCHANGED <<card, db, counter, truth, why, hidden>>, Edited',
         pend' = None \/ pend' = pend, dead' \in BOOLEAN, rare' \in 0..MaxRare
  PROVE  MtpServerInv'
<1>1. Tree(card') /\ Typed'
  BY DEF MtpServerInv, Typed, Given
<1>2. Named' /\ Sized'
  BY DEF MtpServerInv, Named, Sized
<1>3. Pending'
  BY DEF MtpServerInv, Pending
<1>4. \A p, d : (Sees(d, p)' <=> Sees(d, p)) /\ (Shows(d, p)' <=> Shows(d, p))
  BY DEF Sees, Shows
<1>5. Shown'
  BY <1>4 DEF MtpServerInv, Shown
<1>. QED
  BY <1>1, <1>2, <1>3, <1>5 DEF MtpServerInv

\* Requests that only read keep the invariant.
LEMMA DescribeInv ==
  ASSUME MtpServerInv, DescribeDevice \/ DescribeObject \/ Download \/ ListThrows
  PROVE  MtpServerInv'
<1>1. /\ UNCHANGED <<card, db, counter, truth, why, hidden>> /\ UNCHANGED <<edits, rare>>
      /\ pend' = None \/ pend' = pend
      /\ dead' \in BOOLEAN
  BY DEF DescribeDevice, DescribeObject, Download, ListThrows, Request, Answers, MtpServerInv, Typed
<1>2. Edited' /\ rare' \in 0..MaxRare
  BY <1>1, EditedStays DEF MtpServerInv, Typed
<1>. QED
  BY <1>1, <1>2, Quiet

\* What is below what is taken away goes too.
LEMMA UnderGoes ==
  ASSUME Tree(card), NEW r \in Whole
  PROVE  \A p \in DOMAIN card, a \in DOMAIN card : IsPrefix(a, p) /\ a \in Under(r) => p \in Under(r)
<1>1. ASSUME NEW p \in DOMAIN card, NEW a \in DOMAIN card, IsPrefix(a, p), a \in Under(r)
      PROVE  p \in Under(r)
  <2>1. p \in Whole /\ a \in Whole
    BY PathIs DEF Tree
  <2>2. IsPrefix(r, a)
    BY <1>1 DEF Under
  <2>3. IsPrefix(r, p)
    BY <1>1, <2>1, <2>2, PrefixOrder
  <2>. QED BY <2>3 DEF Under
<1>. QED
  BY <1>1

\* Another user of the card removes an object.
LEMMA OutsideRemoveInv ==
  ASSUME MtpServerInv, OutsideRemove
  PROVE  MtpServerInv'
<1>1. PICK p \in DOMAIN card :
       /\ card' = Only(card, DOMAIN card \ Under(p))
       /\ truth' = [h \in Given |-> IF truth[h] \in Under(p) THEN None ELSE truth[h]]
       /\ why' = [h \in Given |-> IF truth[h] \in Under(p) THEN Blame(h, "outside") ELSE why[h]]
       /\ hidden' = {x \in hidden : x[2] \notin Under(p)}
  BY DEF OutsideRemove
<1>2. rare' = rare + 1 /\ rare < MaxRare /\ UNCHANGED <<db, counter, pend, edits, dead>>
  BY DEF OutsideRemove
<1>3. p \in Whole
  BY PathIs DEF MtpServerInv, Tree
<1>. DEFINE gone == Under(p)
<1>4. \A q \in DOMAIN card, a \in DOMAIN card : IsPrefix(a, q) /\ a \in gone => q \in gone
  BY <1>3, UnderGoes DEF MtpServerInv
<1>. HIDE DEF gone
<1>5. DOMAIN card' = DOMAIN card \ gone /\ \A q \in DOMAIN card' : card'[q] = card[q]
  BY <1>1 DEF Only, gone
<1>6. \A g \in Given : IF truth[g] \in gone
                       THEN truth'[g] = None /\ why'[g] \notin {"none", "written"}
                       ELSE truth'[g] = truth[g] /\ why'[g] = why[g]
  <2>1. \A g \in Given : why[g] \in Causes /\ "outside" \in Causes
    BY TypedFacts DEF Causes
  <2>. QED BY <1>1, <2>1, BlameIs DEF gone
<1>7. truth' \in [Given -> DOMAIN card' \cup {None}]
  BY <1>1, <1>5, TypedFacts DEF gone
<1>8. why' \in [Given -> Causes]
  <2>1. \A g \in Given : why[g] \in Causes /\ "outside" \in Causes
    BY TypedFacts DEF Causes
  <2>2. \A g \in Given : Blame(g, "outside") \in Causes
    BY <2>1, BlameIs
  <2>. QED BY <1>1, <2>1, <2>2
<1>9. hidden' \subseteq hidden /\ hidden \cap ((DOMAIN db' \cup {0}) \X DOMAIN card') \subseteq hidden'
  BY <1>1, <1>5 DEF gone
<1>10. hidden' \subseteq (DOMAIN db' \cup {0}) \X DOMAIN card'
  BY <1>1, <1>2, <1>5 DEF gone, MtpServerInv, Typed
<1>11. rare' \in 0..MaxRare /\ dead' \in BOOLEAN /\ (pend' = None \/ (pend' = pend /\ pend \in DOMAIN db'))
  BY <1>2, TypedFacts DEF MtpServerInv, Typed
<1>. QED
  BY <1>2, <1>4, <1>5, <1>6, <1>7, <1>8, <1>9, <1>10, <1>11, Removal

\* Another user of the card makes an object.
LEMMA OutsideCreateInv ==
  ASSUME MtpServerInv, OutsideCreate
  PROVE  MtpServerInv'
<1>1. PICK p \in Paths \ DOMAIN card, what \in {Dir, 1} :
       IsDir(Parent(p)) /\ card' = Put(card, p, what) /\ hidden' = hidden \cup Missing({p})
  BY DEF OutsideCreate
<1>2. rare' = rare + 1 /\ rare < MaxRare /\ UNCHANGED <<db, counter, pend, edits, dead, truth, why>>
  BY DEF OutsideCreate
<1>3. Place(card, p) /\ (what = Dir \/ what \in 0..MaxSize)
  BY <1>1, TypedFacts DEF Place, IsDir
<1>4. /\ Tree(card') /\ DOMAIN card' = DOMAIN card \cup {p}
      /\ \A q \in DOMAIN card : q # p => card'[q] = card[q]
  <2>1. /\ DOMAIN card' = DOMAIN card \cup {p} /\ card'[p] = what
        /\ \A q \in DOMAIN card : q # p => card'[q] = card[q]
    BY <1>1 DEF Put
  <2>2. Tree(card')
    BY <1>1, <1>3, <2>1, TreeWith DEF MtpServerInv
  <2>. QED BY <2>1, <2>2
<1>5. hidden' \subseteq (DOMAIN db \cup {0}) \X DOMAIN card' /\ hidden \subseteq hidden'
  BY <1>1, <1>4, MissingIs DEF MtpServerInv, Typed
<1>6. truth' \in [Given' -> DOMAIN card' \cup {None}] /\ why' \in [Given' -> Causes]
  BY <1>2, <1>4 DEF Given, MtpServerInv, Typed
<1>7. ASSUME NEW q \in DOMAIN card', NEW d \in DOMAIN db' \cup {0}, Sees(d, q)'
      PROVE  (q \in DOMAIN card /\ d \in DOMAIN db \cup {0} /\ Sees(d, q)) \/ <<d, q>> \in hidden'
  <2>1. Sees(d, q) /\ d \in DOMAIN db \cup {0}
    BY <1>2, <1>7 DEF Sees
  <2>2. CASE q = p
    BY <1>1, <2>1, <2>2, MissingIs
  <2>. QED BY <1>4, <2>1, <2>2
<1>8. pend' = None \/ (pend' = pend /\ \A x \in hidden' : x \in hidden \/ x[1] # pend)
  <2>1. SUFFICES ASSUME pend # None, NEW x \in Missing({p}) PROVE x[1] # pend
    BY <1>1, <1>2
  <2>2. PICK d \in DOMAIN db \cup {0} : x = <<d, p>> /\ Sees(d, p)
    BY MissingIs
  <2>3. truth[pend] = None /\ Parent(p) # None /\ pend # 0
    BY <2>1, PathIs, ValuesAssumption, TypedFacts DEF MtpServerInv, Pending
  <2>. QED BY <2>2, <2>3 DEF Sees
<1>9. rare' \in 0..MaxRare /\ dead' \in BOOLEAN /\ counter' \in counter..(MaxHandle + 1)
  BY <1>2, TypedFacts DEF MtpServerInv, Typed
<1>. DEFINE new == {}
<1>10. new \subseteq counter..(counter' - 1) /\ DOMAIN db' = DOMAIN db \cup new
       /\ \A h \in new : FALSE
  BY <1>2
<1>11. \A h \in DOMAIN db' : db'[h] \in Entries
  BY <1>2 DEF MtpServerInv, Typed
<1>12. \A q \in DOMAIN card : card'[q] = card[q]
  BY <1>1, <1>4
<1>. HIDE DEF new
<1>. QED
  BY <1>2, <1>4, <1>5, <1>6, <1>7, <1>8, <1>9, <1>10, <1>11, <1>12, Growth

\* What readdir told becomes the new entries of directory h.
Adds(h, id, S, new) ==
  /\ counter' \in counter..(MaxHandle + 1) /\ DOMAIN db' = DOMAIN db \cup new
  /\ new \subseteq counter..(counter' - 1)
  /\ \A k \in DOMAIN db' : db'[k] \in Entries
  /\ \A k \in DOMAIN db : /\ db'[k].dir = db[k].dir /\ db'[k].parent = db[k].parent
                          /\ db'[k].storage = db[k].storage
                          /\ db'[k].path = db[k].path /\ db'[k].size = db[k].size
                          /\ k # h => db'[k].scanned = db[k].scanned
  /\ truth' \in [Given' -> DOMAIN card \cup {None}] /\ why' \in [Given' -> Causes]
  /\ \A g \in Given : truth'[g] = truth[g] /\ why'[g] = why[g]
  /\ \A k \in new : /\ k \notin DOMAIN db /\ ~db'[k].scanned
                    /\ db'[k].parent = h /\ db'[k].storage = id
                    /\ truth'[k] = db'[k].path /\ db'[k].path \in DOMAIN card
                    /\ db'[k].dir <=> card[db'[k].path] = Dir
                    /\ ~db'[k].dir => card[db'[k].path] = db'[k].size
  /\ \A p \in S : \E k \in new : truth'[k] = p

\* parse_directory gives every path it is told, and only those, a new handle of its own,
\* and the ones it does not skip an entry.
LEMMA AddEntriesIs ==
  ASSUME MtpServerInv, NEW h \in DOMAIN db, NEW id \in Ids, NEW S, NEW skipped,
         S \ DOMAIN card \subseteq skipped, NEW order,
         Len(order) \in Nat, \A i \in 1..Len(order) : order[i] \in S,
         \A p \in S : \E i \in 1..Len(order) : order[i] = p,
         AddEntries(order, skipped, h, id)
  PROVE  \E new : Adds(h, id, S \ skipped, new)
<1>. DEFINE N == Len(order)
            all == counter..(counter + N - 1)
            at(k) == order[k - counter + 1]
            new == {k \in all : at(k) \notin skipped}
<1>1. /\ counter + N <= MaxHandle + 1 /\ counter' = counter + N
      /\ db' = [k \in DOMAIN db \cup new |->
                  IF k \in new THEN Entry(IsDir(at(k)), h, id, at(k), SizeOf(card[at(k)]))
                  ELSE IF k = h THEN [db[k] EXCEPT !.scanned = TRUE] ELSE db[k]]
      /\ truth' = [k \in DOMAIN truth \cup all |->
                     IF k \in new THEN at(k) ELSE IF k \in all THEN None ELSE truth[k]]
      /\ why' = [k \in DOMAIN why \cup all |-> IF k \in all THEN "none" ELSE why[k]]
  BY DEF AddEntries
<1>2. /\ counter \in Nat /\ counter >= 2 /\ counter <= MaxHandle + 1 /\ MaxHandle \in Nat
      /\ DOMAIN db \subseteq Given /\ DOMAIN truth = Given /\ DOMAIN why = Given
      /\ \A g \in Given : why[g] \in Causes /\ truth[g] \in DOMAIN card \cup {None}
  BY TypedFacts
<1>3. N \in Nat
  OBVIOUS
<1>4. \A k \in all : at(k) \in S
  <2>1. \A k \in all : k - counter + 1 \in 1..N
    BY <1>2, <1>3
  <2>. QED BY <2>1
<1>5. \A p \in S \ skipped : \E k \in new : at(k) = p
  <2>1. SUFFICES ASSUME NEW p \in S \ skipped PROVE \E k \in all : at(k) = p
    OBVIOUS
  <2>2. PICK i \in 1..N : order[i] = p
    OBVIOUS
  <2>3. counter + i - 1 \in all /\ (counter + i - 1) - counter + 1 = i
    BY <1>2, <1>3
  <2>. QED BY <2>2, <2>3
<1>6. /\ all = counter..(counter' - 1) /\ counter' \in counter..(MaxHandle + 1)
      /\ Given' = Given \cup all /\ (\A k \in all : k \notin Given) /\ new \subseteq all
  BY <1>1, <1>2, <1>3 DEF Given
<1>7. h \in {0} \cup Handles
  <2>1. h \in 2..(counter - 1)
    BY <1>2 DEF Given
  <2>. QED BY <1>2, <2>1 DEF Handles
<1>8. \A k \in new : at(k) \in DOMAIN card
  BY <1>4
<1>. HIDE DEF new, all, N
<1>9. ASSUME NEW k \in new
      PROVE  /\ db'[k] \in Entries /\ ~db'[k].scanned /\ db'[k].path = at(k)
             /\ db'[k].parent = h /\ db'[k].storage = id
             /\ db'[k].dir <=> card[at(k)] = Dir
             /\ ~db'[k].dir => card[at(k)] = db'[k].size
             /\ truth'[k] = at(k) /\ at(k) \in DOMAIN card
  <2>. DEFINE p == at(k)
  <2>1. p \in DOMAIN card
    BY <1>8
  <2>2. db'[k] = Entry(IsDir(p), h, id, p, SizeOf(card[p])) /\ truth'[k] = p
    BY <1>1, <1>6
  <2>. HIDE DEF p
  <2>3. p \in Paths /\ p # <<>> /\ (card[p] = Dir \/ card[p] \in 0..MaxSize)
    BY <2>1, PathIs DEF Tree, MtpServerInv
  <2>4. IsDir(p) <=> card[p] = Dir
    BY <2>1, <2>3 DEF IsDir
  <2>5. SizeOf(card[p]) \in 0..MaxSize /\ (card[p] # Dir => SizeOf(card[p]) = card[p])
    BY <2>3, BoundsAssumption DEF SizeOf
  <2>6. IsDir(p) \in BOOLEAN
    BY DEF IsDir
  <2>7. /\ db'[k] \in Entries /\ db'[k].path = p /\ db'[k].parent = h /\ db'[k].storage = id
        /\ ~db'[k].scanned /\ db'[k].dir = IsDir(p) /\ db'[k].size = SizeOf(card[p])
    <3>1. EntryOf(Entry(IsDir(p), h, id, p, SizeOf(card[p])), IsDir(p), h, id, p, SizeOf(card[p]))
      BY <1>7, <2>3, <2>5, <2>6, EntryIs
    <3>2. EntryOf(db'[k], IsDir(p), h, id, p, SizeOf(card[p]))
      BY <2>2, <3>1
    <3>. QED BY <3>2 DEF EntryOf
  <2>. QED BY <2>1, <2>2, <2>4, <2>5, <2>7 DEF p
<1>. HIDE DEF at
<1>10. ASSUME NEW k \in DOMAIN db
       PROVE  /\ db'[k] \in Entries
              /\ db'[k].dir = db[k].dir /\ db'[k].parent = db[k].parent
              /\ db'[k].storage = db[k].storage
              /\ db'[k].path = db[k].path /\ db'[k].size = db[k].size
              /\ k # h => db'[k].scanned = db[k].scanned
  <2>1. k \notin new
    BY <1>2, <1>6
  <2>2. db[k] \in Entries
    BY DEF MtpServerInv, Typed
  <2>3. db'[k] = IF k = h THEN [db[k] EXCEPT !.scanned = TRUE] ELSE db[k]
    BY <1>1, <2>1
  <2>4. CASE k = h
    <3>. DEFINE e == db[k]
    <3>1. e \in Entries /\ db'[k] = [e EXCEPT !.scanned = TRUE]
      BY <2>2, <2>3, <2>4
    <3>. HIDE DEF e
    <3>2. LET f == [e EXCEPT !.scanned = TRUE] IN
            f \in Entries /\ f.dir = e.dir /\ f.parent = e.parent /\ f.storage = e.storage
            /\ f.path = e.path /\ f.size = e.size /\ f.scanned
      BY <3>1, EntryWith
    <3>. QED BY <2>4, <3>1, <3>2 DEF e
  <2>5. CASE k # h
    BY <2>2, <2>3, <2>5
  <2>. QED BY <2>4, <2>5
<1>11. DOMAIN db' = DOMAIN db \cup new
  BY <1>1
<1>12. truth' \in [Given' -> DOMAIN card \cup {None}] /\ why' \in [Given' -> Causes]
  <2>1. /\ truth' = [k \in Given' |-> truth'[k]] /\ why' = [k \in Given' |-> why'[k]]
    BY <1>1, <1>2, <1>6
  <2>2. \A k \in Given' : truth'[k] \in DOMAIN card \cup {None}
    <3>1. \A k \in new : truth'[k] \in DOMAIN card
      BY <1>9
    <3>2. \A k \in all : k \notin new => truth'[k] = None
      BY <1>1
    <3>3. \A k \in Given : truth'[k] = truth[k]
      BY <1>1, <1>2, <1>6
    <3>. QED BY <1>2, <1>6, <3>1, <3>2, <3>3
  <2>3. \A k \in Given' : why'[k] \in Causes
    BY <1>1, <1>2, <1>6 DEF Causes
  <2>. QED BY <2>1, <2>2, <2>3
<1>13. \A g \in Given : truth'[g] = truth[g] /\ why'[g] = why[g]
  BY <1>1, <1>2, <1>6
<1>14. \A k \in new : k \notin DOMAIN db
  BY <1>2, <1>6
<1>15. \A p \in S \ skipped : \E k \in new : truth'[k] = p
  BY <1>5, <1>9
<1>16. \A k \in DOMAIN db' : db'[k] \in Entries
  BY <1>9, <1>10, <1>11
<1>17. Adds(h, id, S \ skipped, new)
  <2>1. counter' \in counter..(MaxHandle + 1) /\ new \subseteq counter..(counter' - 1)
    BY <1>6
  <2>2. \A k \in DOMAIN db : /\ db'[k].dir = db[k].dir /\ db'[k].parent = db[k].parent
                             /\ db'[k].storage = db[k].storage
                             /\ db'[k].path = db[k].path /\ db'[k].size = db[k].size
                             /\ k # h => db'[k].scanned = db[k].scanned
    BY <1>10
  <2>3. \A k \in new : /\ k \notin DOMAIN db /\ ~db'[k].scanned
                       /\ db'[k].parent = h /\ db'[k].storage = id
                       /\ truth'[k] = db'[k].path /\ db'[k].path \in DOMAIN card
                       /\ db'[k].dir <=> card[db'[k].path] = Dir
                       /\ ~db'[k].dir => card[db'[k].path] = db'[k].size
    BY <1>9, <1>14
  <2>. QED BY <1>11, <1>12, <1>13, <1>15, <1>16, <2>1, <2>2, <2>3, Zenon DEF Adds
<1>. QED
  BY <1>17

\* A directory is listed, and read from the card when it has not been scanned.
LEMMA ListInv ==
  ASSUME MtpServerInv, List
  PROVE  MtpServerInv'
<1>1. PICK h \in DOMAIN db, id \in Ids : Look(h, id)
  BY DEF List
<1>2. pend' = None /\ UNCHANGED <<dead, edits, card>>
  BY DEF List, Answers
<1>3. CASE db[h].scanned
  <2>1. UNCHANGED <<counter, db, truth, why, hidden, rare>>
    BY <1>1, <1>3 DEF Look
  <2>2. Edited' /\ rare' \in 0..MaxRare /\ dead' \in BOOLEAN
    BY <1>2, <2>1, EditedStays DEF MtpServerInv, Typed
  <2>. QED BY <1>2, <2>1, <2>2, Quiet
<1>4. CASE ~db[h].scanned
  <2>. DEFINE path == db[h].path
              unseen == (IF truth[h] \in {None, path} THEN {} ELSE Children(truth[h]))
                          \cup (IF id = Card THEN {} ELSE Children(path))
              S == Looked(path)
  <2>1. PICK skipped \in SUBSET S :
          /\ S \ DOMAIN card \subseteq skipped /\ Parse(path, skipped, h, id)
          /\ hidden' = hidden \cup {h} \X (unseen \cup (skipped \cap DOMAIN card))
          /\ Rarely(id # Card \/ skipped \cap DOMAIN card # {})
    BY <1>1, <1>4 DEF Look
  <2>2. PICK order \in SetToSeqs(S) : AddEntries(order, skipped, h, id)
    BY <2>1 DEF Parse
  <2>3. unseen \subseteq DOMAIN card
    BY DEF Children
  <2>4. IsFiniteSet(S)
    BY FewChildren DEF MtpServerInv
  <2>5. \A p \in DOMAIN card : Parent(p) = path => p \in S /\ p \in Children(path)
    <3>1. SUFFICES ASSUME NEW p \in DOMAIN card, Parent(p) = path PROVE p \in S /\ p \in Children(path)
      OBVIOUS
    <3>2. Place(card, p)
      BY TreePlace DEF MtpServerInv
    <3>3. IsDir(path)
      BY <3>1, <3>2 DEF Place, IsDir
    <3>. QED BY <3>1, <3>3 DEF Children, Looked
  <2>6. id # Card => Children(path) \subseteq unseen
    OBVIOUS
  <2>7. truth[h] \notin {None, path} => Children(truth[h]) \subseteq unseen
    OBVIOUS
  <2>. HIDE DEF S, unseen
  <2>8. /\ Len(order) \in Nat /\ \A i \in 1..Len(order) : order[i] \in S
        /\ \A p \in S : \E i \in 1..Len(order) : order[i] = p
    BY <2>2, <2>4, OrdersAre
  <2>9. PICK new : Adds(h, id, S \ skipped, new)
    BY <2>1, <2>2, <2>8, AddEntriesIs
  <2>a. /\ counter' \in counter..(MaxHandle + 1) /\ DOMAIN db' = DOMAIN db \cup new
        /\ new \subseteq counter..(counter' - 1)
        /\ \A k \in DOMAIN db' : db'[k] \in Entries
        /\ \A k \in DOMAIN db : /\ db'[k].dir = db[k].dir /\ db'[k].parent = db[k].parent
                                /\ db'[k].storage = db[k].storage
                                /\ db'[k].path = db[k].path /\ db'[k].size = db[k].size
                                /\ k # h => db'[k].scanned = db[k].scanned
        /\ truth' \in [Given' -> DOMAIN card \cup {None}] /\ why' \in [Given' -> Causes]
        /\ \A g \in Given : truth'[g] = truth[g] /\ why'[g] = why[g]
        /\ \A k \in new : /\ k \notin DOMAIN db /\ ~db'[k].scanned
                          /\ db'[k].parent = h /\ db'[k].storage = id
                          /\ truth'[k] = db'[k].path /\ db'[k].path \in DOMAIN card
                          /\ db'[k].dir <=> card[db'[k].path] = Dir
                          /\ ~db'[k].dir => card[db'[k].path] = db'[k].size
        /\ \A p \in S \ skipped : \E k \in new : truth'[k] = p
    BY <2>9 DEF Adds
  <2>b. ASSUME NEW p \in DOMAIN card', NEW d \in DOMAIN db' \cup {0}, Sees(d, p)'
        PROVE  \/ p \in DOMAIN card /\ d \in DOMAIN db \cup {0} /\ Sees(d, p)
               \/ <<d, p>> \in hidden' \/ Shows(d, p)'
    <3>1. p \in DOMAIN card /\ Parent(p) # None
      BY <1>2, TypedFacts, PathIs, ValuesAssumption
    <3>2. CASE d = 0 /\ Parent(p) = <<>>
      BY <3>1, <3>2 DEF Sees
    <3>3. CASE d \in DOMAIN db' /\ db'[d].scanned /\ truth'[d] = Parent(p)
      <4>1. d \in DOMAIN db /\ truth[d] = Parent(p)
        BY <2>a, <3>3, TypedFacts
      <4>2. CASE d # h
        BY <2>a, <3>1, <3>3, <4>1, <4>2 DEF Sees
      <4>3. CASE d = h /\ truth[h] = path
        <5>1. p \in S /\ p \in Children(path)
          BY <2>5, <3>1, <4>1, <4>3
        <5>2. CASE p \in skipped \/ id # Card
          BY <2>1, <2>6, <3>1, <4>3, <5>1, <5>2
        <5>3. CASE p \notin skipped /\ id = Card
          <6>1. PICK k \in new : truth'[k] = p
            BY <2>a, <5>1, <5>3
          <6>2. k \in DOMAIN db' /\ db'[k].parent = d /\ db'[k].storage = Card /\ db'[k].path = p
            BY <2>a, <4>3, <5>3, <6>1
          <6>. QED BY <6>1, <6>2 DEF Shows
        <5>. QED BY <5>2, <5>3
      <4>4. CASE d = h /\ truth[h] # path
        <5>1. truth[h] \notin {None, path} /\ p \in Children(truth[h])
          BY <3>1, <4>1, <4>4 DEF Children
        <5>. QED BY <2>1, <2>7, <4>4, <5>1
      <4>. QED BY <4>2, <4>3, <4>4
    <3>. QED BY <2>b, <3>2, <3>3 DEF Sees
  <2>c. hidden \subseteq hidden' /\ hidden' \subseteq (DOMAIN db \cup {0}) \X DOMAIN card'
    BY <1>2, <2>1, <2>3 DEF MtpServerInv, Typed
  <2>d. Tree(card') /\ DOMAIN card \subseteq DOMAIN card' /\ \A p \in DOMAIN card : card'[p] = card[p]
    BY <1>2 DEF MtpServerInv
  <2>e. dead' \in BOOLEAN /\ rare' \in 0..MaxRare
    BY <1>2, <2>1, RareIs DEF MtpServerInv, Typed
  <2>f. truth' \in [Given' -> DOMAIN card' \cup {None}]
    BY <1>2, <2>a
  <2>g. \A k \in new : why'[k] \in {"none", "written"} =>
          /\ truth'[k] = db'[k].path /\ db'[k].path \in DOMAIN card'
          /\ db'[k].dir <=> card'[db'[k].path] = Dir
          /\ ~db'[k].dir => card'[db'[k].path] = db'[k].size
    BY <1>2, <2>a
  <2>h. \A k \in DOMAIN db : /\ db'[k].dir = db[k].dir /\ db'[k].parent = db[k].parent
                             /\ db'[k].storage = db[k].storage
                             /\ db'[k].path = db[k].path /\ db'[k].size = db[k].size
    BY <2>a
  <2>. QED
    BY <1>2, <2>a, <2>b, <2>c, <2>d, <2>e, <2>f, <2>g, <2>h, Growth
<1>. QED
  BY <1>3, <1>4

\* A handle is given: the functions on handles have one more.
LEMMA OneMore ==
  ASSUME MtpServerInv, counter <= MaxHandle, counter' = counter + 1, NEW e \in Entries,
         db' = Put(db, counter, e), NEW x, truth' = Put(truth, counter, x),
         NEW w \in Causes, why' = Put(why, counter, w)
  PROVE  /\ counter' \in counter..(MaxHandle + 1) /\ {counter} \subseteq counter..(counter' - 1)
         /\ DOMAIN db' = DOMAIN db \cup {counter} /\ db'[counter] = e
         /\ \A h \in DOMAIN db : db'[h] = db[h]
         /\ \A h \in DOMAIN db' : db'[h] \in Entries
         /\ Given' = Given \cup {counter} /\ counter \notin Given
         /\ truth'[counter] = x /\ why'[counter] = w
         /\ \A g \in Given : truth'[g] = truth[g] /\ why'[g] = why[g]
         /\ why' \in [Given' -> Causes]
         /\ \A T : DOMAIN card \subseteq T /\ x \in T \cup {None} => truth' \in [Given' -> T \cup {None}]
<1>1. /\ counter \in Nat /\ counter >= 2 /\ MaxHandle \in Nat
      /\ DOMAIN db \subseteq Given /\ DOMAIN truth = Given /\ DOMAIN why = Given
      /\ counter \notin DOMAIN db /\ counter \notin Given
      /\ \A g \in Given : why[g] \in Causes /\ truth[g] \in DOMAIN card \cup {None}
  BY TypedFacts
<1>2. counter' \in counter..(MaxHandle + 1) /\ {counter} \subseteq counter..(counter' - 1)
  BY <1>1
<1>3. Given' = Given \cup {counter}
  BY <1>1 DEF Given
<1>4. /\ DOMAIN db' = DOMAIN db \cup {counter} /\ db'[counter] = e
      /\ \A h \in DOMAIN db : db'[h] = db[h]
  BY <1>1 DEF Put
<1>5. \A h \in DOMAIN db' : db'[h] \in Entries
  BY <1>4 DEF MtpServerInv, Typed
<1>6. /\ truth' = [g \in Given' |-> IF g = counter THEN x ELSE truth[g]]
      /\ why' = [g \in Given' |-> IF g = counter THEN w ELSE why[g]]
  BY <1>1, <1>3 DEF Put
<1>7. /\ truth'[counter] = x /\ why'[counter] = w
      /\ \A g \in Given : truth'[g] = truth[g] /\ why'[g] = why[g]
  BY <1>1, <1>3, <1>6
<1>8. why' \in [Given' -> Causes]
  BY <1>1, <1>3, <1>6
<1>9. ASSUME NEW T, DOMAIN card \subseteq T, x \in T \cup {None}
      PROVE  truth' \in [Given' -> T \cup {None}]
  BY <1>1, <1>3, <1>6, <1>9
<1>. QED
  BY <1>1, <1>2, <1>3, <1>4, <1>5, <1>7, <1>8, <1>9

\* A parent that the host may name is the root or a handle it was given.
LEMMA ParentsAre ==
  ASSUME MtpServerInv, NEW parent \in Parents, NEW name \in Names
  PROVE  parent \in {0} \cup Handles /\ parent \in DOMAIN db \cup {0}
<1>1. parent \in DOMAIN db \cup {0}
  BY DEF Parents
<1>2. Given \subseteq Handles
  BY TypedFacts DEF Given, Handles
<1>. QED
  BY <1>1, <1>2, TypedFacts

\* A directory is made.
LEMMA SendDirectoryInv ==
  ASSUME MtpServerInv, SendDirectory
  PROVE  MtpServerInv'
<1>0. /\ pend' = None /\ UNCHANGED <<dead, edits>> /\ counter <= MaxHandle /\ counter' = counter + 1
  BY DEF SendDirectory, Answers
<1>1. PICK parent \in Parents, id \in Ids, name \in Names, fails \in BOOLEAN :
       LET path == PathOf(parent, name)
           made == ~fails /\ path \notin DOMAIN card /\ IsDir(Parent(path))
       IN  /\ path \in Paths
           /\ db' = Put(db, counter, Entry(TRUE, parent, id, path, 0))
           /\ card' = IF made THEN Put(card, path, Dir) ELSE card
           /\ truth' = Put(truth, counter, IF made THEN path ELSE None)
           /\ why' = Put(why, counter, IF made THEN "none" ELSE "announced")
           /\ hidden' = IF made
                        THEN hidden \cup {x \in Missing({path}) : x[1] # parent \/ id # Card}
                        ELSE hidden
           /\ Rarely(id # Card)
  BY ZenonT(60) DEF SendDirectory
<1>. DEFINE path == PathOf(parent, name)
            made == ~fails /\ path \notin DOMAIN card /\ IsDir(Parent(path))
            e == Entry(TRUE, parent, id, path, 0)
            x == IF made THEN path ELSE None
            w == IF made THEN "none" ELSE "announced"
            new == {counter}
<1>2. /\ path \in Paths /\ db' = Put(db, counter, e) /\ truth' = Put(truth, counter, x)
      /\ why' = Put(why, counter, w)
      /\ card' = IF made THEN Put(card, path, Dir) ELSE card
      /\ hidden' = IF made THEN hidden \cup {y \in Missing({path}) : y[1] # parent \/ id # Card}
                   ELSE hidden
      /\ Rarely(id # Card)
  BY <1>1
<1>3. parent \in {0} \cup Handles /\ parent \in DOMAIN db \cup {0}
  BY ParentsAre
<1>4. made => path \notin DOMAIN card /\ Place(card, path)
  BY DEF Place, IsDir
<1>5. x = (IF made THEN path ELSE None) /\ w = (IF made THEN "none" ELSE "announced")
  OBVIOUS
<1>. HIDE DEF path, made
<1>6. /\ e \in Entries /\ e.dir /\ e.parent = parent /\ e.storage = id /\ e.path = path
      /\ e.size = 0 /\ ~e.scanned
  <2>1. 0 \in 0..MaxSize /\ TRUE \in BOOLEAN
    BY TypedFacts
  <2>2. EntryOf(e, TRUE, parent, id, path, 0)
    BY <1>2, <1>3, <2>1, EntryIs
  <2>. QED BY <2>2 DEF EntryOf
<1>7. w \in Causes
  BY DEF Causes
<1>. HIDE DEF e, x, w
<1>8. /\ counter' \in counter..(MaxHandle + 1) /\ new \subseteq counter..(counter' - 1)
      /\ DOMAIN db' = DOMAIN db \cup new /\ db'[counter] = e
      /\ \A h \in DOMAIN db : db'[h] = db[h]
      /\ \A h \in DOMAIN db' : db'[h] \in Entries
      /\ truth'[counter] = x /\ why'[counter] = w
      /\ \A g \in Given : truth'[g] = truth[g] /\ why'[g] = why[g]
      /\ why' \in [Given' -> Causes]
      /\ \A T : DOMAIN card \subseteq T /\ x \in T \cup {None} => truth' \in [Given' -> T \cup {None}]
  BY <1>0, <1>2, <1>6, <1>7, OneMore
<1>9. /\ Tree(card') /\ DOMAIN card' = DOMAIN card \cup (IF made THEN {path} ELSE {})
      /\ \A q \in DOMAIN card : card'[q] = card[q]
      /\ made => card'[path] = Dir
  <2>1. CASE made
    <3>1. /\ Tree(card') /\ DOMAIN card' = DOMAIN card \cup {path} /\ card'[path] = Dir
          /\ \A q \in DOMAIN card : q # path => card'[q] = card[q]
      <4>1. card' = Put(card, path, Dir) /\ path \in Paths
        BY <1>2, <2>1
      <4>2. Tree(card) /\ Place(card, path) /\ (path \in DOMAIN card => card[path] # Dir)
        BY <1>4, <2>1 DEF MtpServerInv
      <4>3. /\ DOMAIN card' = DOMAIN card \cup {path} /\ card'[path] = Dir
            /\ \A q \in DOMAIN card : q # path => card'[q] = card[q]
        BY <4>1 DEF Put
      <4>. QED BY <4>1, <4>2, <4>3, TreeWith
    <3>. QED BY <1>4, <2>1, <3>1
  <2>2. CASE ~made
    BY <1>2, <2>2 DEF MtpServerInv
  <2>. QED BY <2>1, <2>2
<1>10. truth' \in [Given' -> DOMAIN card' \cup {None}]
  <2>1. DOMAIN card \subseteq DOMAIN card' /\ x \in DOMAIN card' \cup {None}
    BY <1>5, <1>9
  <2>. QED BY <1>8, <2>1
<1>11. \A h \in new : why'[h] \in {"none", "written"} =>
         /\ truth'[h] = db'[h].path /\ db'[h].path \in DOMAIN card'
         /\ db'[h].dir <=> card'[db'[h].path] = Dir
         /\ ~db'[h].dir => card'[db'[h].path] = db'[h].size
  BY <1>5, <1>6, <1>8, <1>9
<1>12. hidden \subseteq hidden' /\ hidden' \subseteq (DOMAIN db \cup {0}) \X DOMAIN card'
  <2>1. hidden \subseteq (DOMAIN db \cup {0}) \X DOMAIN card
    BY DEF MtpServerInv, Typed
  <2>2. \A y \in Missing({path}) : made => y \in (DOMAIN db \cup {0}) \X DOMAIN card'
    BY <1>9, MissingIs
  <2>. QED BY <1>2, <1>9, <2>1, <2>2
<1>13. ASSUME NEW p \in DOMAIN card', NEW d \in DOMAIN db' \cup {0}, Sees(d, p)'
       PROVE  \/ p \in DOMAIN card /\ d \in DOMAIN db \cup {0} /\ Sees(d, p)
              \/ <<d, p>> \in hidden' \/ Shows(d, p)'
  <2>1. d \in DOMAIN db \cup {0} /\ Sees(d, p)
    <3>1. CASE d = 0 /\ Parent(p) = <<>>
      BY <3>1 DEF Sees
    <3>2. CASE d \in DOMAIN db' /\ db'[d].scanned /\ truth'[d] = Parent(p)
      BY <1>6, <1>8, <3>2, TypedFacts DEF Sees
    <3>. QED BY <1>13, <3>1, <3>2 DEF Sees
  <2>2. CASE p \in DOMAIN card
    BY <2>1, <2>2
  <2>3. CASE p \notin DOMAIN card /\ d = parent /\ id = Card
    <3>1. made /\ p = path
      BY <1>9, <2>3
    <3>2. /\ counter \in DOMAIN db' /\ db'[counter].parent = d /\ db'[counter].storage = Card
          /\ truth'[counter] = p /\ db'[counter].path = p
      BY <1>5, <1>6, <1>8, <2>3, <3>1
    <3>. QED BY <3>2 DEF Shows
  <2>4. CASE p \notin DOMAIN card /\ (d # parent \/ id # Card)
    <3>1. made /\ p = path
      BY <1>9, <2>4
    <3>2. <<d, p>> \in Missing({path})
      BY <2>1, <3>1, MissingIs
    <3>. QED BY <1>2, <2>4, <3>1, <3>2
  <2>. QED BY <2>2, <2>3, <2>4
<1>14. dead' \in BOOLEAN /\ rare' \in 0..MaxRare
  BY <1>0, <1>2, RareIs DEF MtpServerInv, Typed
<1>15. DOMAIN card \subseteq DOMAIN card'
  BY <1>9
<1>16. \A h \in DOMAIN db : /\ db'[h].dir = db[h].dir /\ db'[h].parent = db[h].parent
                            /\ db'[h].storage = db[h].storage
                            /\ db'[h].path = db[h].path /\ db'[h].size = db[h].size
  BY <1>8
<1>. HIDE DEF new
<1>. QED
  BY <1>0, <1>8, <1>9, <1>10, <1>11, <1>12, <1>13, <1>14, <1>15, <1>16, Growth

\* A file is announced: its handle is given out before the file is there.
LEMMA SendObjectInfoInv ==
  ASSUME MtpServerInv, SendObjectInfo
  PROVE  MtpServerInv'
<1>0. /\ UNCHANGED <<card, edits, dead, hidden>> /\ counter <= MaxHandle /\ counter' = counter + 1
      /\ pend' = counter /\ truth' = Put(truth, counter, None)
      /\ why' = Put(why, counter, "announced")
  BY DEF SendObjectInfo
<1>1. PICK parent \in Parents, id \in Ids, name \in Names, size \in 1..MaxSize :
       /\ PathOf(parent, name) \in Paths
       /\ db' = Put(db, counter, Entry(FALSE, parent, id, PathOf(parent, name), size))
       /\ Rarely(id # Card)
  BY DEF SendObjectInfo
<1>. DEFINE path == PathOf(parent, name)
            e == Entry(FALSE, parent, id, path, size)
            new == {counter}
<1>2. /\ path \in Paths /\ db' = Put(db, counter, e)
  BY <1>1
<1>3. parent \in {0} \cup Handles /\ parent \in DOMAIN db \cup {0}
  BY ParentsAre
<1>. HIDE DEF path
<1>4. e \in Entries /\ ~e.dir /\ ~e.scanned
  <2>1. size \in 0..MaxSize /\ FALSE \in BOOLEAN
    BY TypedFacts
  <2>2. EntryOf(e, FALSE, parent, id, path, size)
    BY <1>2, <1>3, <2>1, EntryIs
  <2>. QED BY <2>2 DEF EntryOf
<1>5. "announced" \in Causes
  BY DEF Causes
<1>. HIDE DEF e
<1>6. /\ counter' \in counter..(MaxHandle + 1) /\ new \subseteq counter..(counter' - 1)
      /\ DOMAIN db' = DOMAIN db \cup new /\ db'[counter] = e
      /\ \A h \in DOMAIN db : db'[h] = db[h]
      /\ \A h \in DOMAIN db' : db'[h] \in Entries
      /\ truth'[counter] = None /\ why'[counter] = "announced"
      /\ \A g \in Given : truth'[g] = truth[g] /\ why'[g] = why[g]
      /\ why' \in [Given' -> Causes]
      /\ \A T : DOMAIN card \subseteq T /\ None \in T \cup {None} => truth' \in [Given' -> T \cup {None}]
  BY <1>0, <1>2, <1>4, <1>5, OneMore
<1>7. Tree(card') /\ DOMAIN card \subseteq DOMAIN card' /\ \A q \in DOMAIN card : card'[q] = card[q]
  BY <1>0 DEF MtpServerInv
<1>8. truth' \in [Given' -> DOMAIN card' \cup {None}]
  BY <1>0, <1>6
<1>9. \A h \in new : why'[h] \notin {"none", "written"}
  BY <1>6
<1>10. hidden \subseteq hidden' /\ hidden' \subseteq (DOMAIN db \cup {0}) \X DOMAIN card'
  BY <1>0 DEF MtpServerInv, Typed
<1>11. ASSUME NEW p \in DOMAIN card', NEW d \in DOMAIN db' \cup {0}, Sees(d, p)'
       PROVE  p \in DOMAIN card /\ d \in DOMAIN db \cup {0} /\ Sees(d, p)
  <2>1. CASE d = 0 /\ Parent(p) = <<>>
    BY <1>0, <2>1 DEF Sees
  <2>2. CASE d \in DOMAIN db' /\ db'[d].scanned /\ truth'[d] = Parent(p)
    BY <1>0, <1>4, <1>6, <2>2, TypedFacts DEF Sees
  <2>. QED BY <1>11, <2>1, <2>2 DEF Sees
<1>12. pend' \in new /\ truth'[pend'] = None /\ ~db'[pend'].dir
  BY <1>0, <1>4, <1>6
<1>13. dead' \in BOOLEAN /\ rare' \in 0..MaxRare /\ edits' = edits
  BY <1>0, <1>1, RareIs DEF MtpServerInv, Typed
<1>14. \A h \in DOMAIN db : /\ db'[h].dir = db[h].dir /\ db'[h].parent = db[h].parent
                            /\ db'[h].storage = db[h].storage
                            /\ db'[h].path = db[h].path /\ db'[h].size = db[h].size
  BY <1>6
<1>. HIDE DEF new
<1>. QED
  BY <1>6, <1>7, <1>8, <1>9, <1>10, <1>11, <1>12, <1>13, <1>14, Growth

\* The announced file cannot be opened, and its handle goes.
LEMMA SendObjectFailsInv ==
  ASSUME MtpServerInv, SendObjectFails
  PROVE  MtpServerInv'
<1>0. /\ db' = Only(db, DOMAIN db \ {pend}) /\ pend' = None
      /\ UNCHANGED <<card, counter, edits, dead, truth, why, hidden, rare>>
  BY DEF SendObjectFails
<1>1. DOMAIN db' = DOMAIN db \ {pend} /\ \A h \in DOMAIN db' : db'[h] = db[h]
  BY <1>0 DEF Only
<1>2. pend \in DOMAIN db => truth[pend] = None /\ \A x \in hidden : x[1] # pend
  BY TypedFacts DEF MtpServerInv, Pending
<1>3. hidden' \subseteq (DOMAIN db' \cup {0}) \X DOMAIN card'
  <2>1. SUFFICES ASSUME NEW x \in hidden PROVE x \in (DOMAIN db' \cup {0}) \X DOMAIN card'
    BY <1>0
  <2>2. x \in (DOMAIN db \cup {0}) \X DOMAIN card
    BY DEF MtpServerInv, Typed
  <2>3. x[1] # pend \/ pend \notin DOMAIN db
    BY <1>2
  <2>. QED BY <1>0, <1>1, <2>2, <2>3
<1>4. \A g \in DOMAIN db \ DOMAIN db' : truth[g] \notin DOMAIN card'
  BY <1>0, <1>1, <1>2, TypedFacts
<1>5. truth' \in [Given -> DOMAIN card' \cup {None}] /\ why' \in [Given -> Causes]
      /\ rare' \in 0..MaxRare /\ dead' \in BOOLEAN
  BY <1>0 DEF MtpServerInv, Typed
<1>. DEFINE gone == {}
<1>6. /\ \A p \in DOMAIN card, a \in DOMAIN card : IsPrefix(a, p) /\ a \in gone => p \in gone
      /\ DOMAIN card' = DOMAIN card \ gone /\ \A p \in DOMAIN card' : card'[p] = card[p]
      /\ \A g \in Given : IF truth[g] \in gone
                          THEN truth'[g] = None /\ why'[g] \notin {"none", "written"}
                          ELSE truth'[g] = truth[g] /\ why'[g] = why[g]
  BY <1>0
<1>. HIDE DEF gone
<1>. QED
  BY <1>0, <1>1, <1>3, <1>4, <1>5, <1>6, Removal

\* The upload fails on the way: the handle goes, the file may stay.
LEMMA SendObjectUndoneInv ==
  ASSUME MtpServerInv, SendObjectUndone
  PROVE  MtpServerInv'
<1>. DEFINE path == db[pend].path
            gone == {path}
<1>0. /\ db' = Only(db, DOMAIN db \ {pend}) /\ pend' = None /\ pend # None
      /\ UNCHANGED <<counter, edits, dead, rare>>
      /\ Writable(path)
      /\ card' = Only(card, DOMAIN card \ gone)
      /\ truth' = [g \in Given |-> IF truth[g] = path THEN None ELSE truth[g]]
      /\ why' = [g \in Given |-> IF truth[g] = path THEN Blame(g, "alias") ELSE why[g]]
      /\ hidden' = {x \in hidden : x[2] # path}
  BY DEF SendObjectUndone
<1>1. DOMAIN db' = DOMAIN db \ {pend} /\ \A h \in DOMAIN db' : db'[h] = db[h]
  BY <1>0 DEF Only
<1>2. pend \in DOMAIN db /\ truth[pend] = None /\ \A x \in hidden : x[1] # pend
  BY <1>0, TypedFacts DEF MtpServerInv, Pending
<1>3. path \in Paths
  BY <1>2, EntryHas DEF MtpServerInv, Typed
<1>4. path \in DOMAIN card => card[path] # Dir
  BY <1>0 DEF Writable, IsDir
<1>. HIDE DEF path
<1>5. DOMAIN card' = DOMAIN card \ gone /\ \A p \in DOMAIN card' : card'[p] = card[p]
  BY <1>0 DEF Only
<1>6. \A p \in DOMAIN card, a \in DOMAIN card : IsPrefix(a, p) /\ a \in gone => p \in gone
  <2>1. path \in Whole \ {<<>>}
    BY <1>3, PathIs
  <2>2. \A p \in DOMAIN card : IsPrefix(path, p) /\ path # p => card[path] = Dir /\ path \in DOMAIN card
    BY <2>1 DEF MtpServerInv, Tree
  <2>. QED BY <1>4, <2>2
<1>7. \A g \in Given : IF truth[g] \in gone
                       THEN truth'[g] = None /\ why'[g] \notin {"none", "written"}
                       ELSE truth'[g] = truth[g] /\ why'[g] = why[g]
  <2>1. \A g \in Given : why[g] \in Causes /\ "alias" \in Causes
    BY TypedFacts DEF Causes
  <2>. QED BY <1>0, <2>1, BlameIs
<1>8. truth' \in [Given -> DOMAIN card' \cup {None}]
  BY <1>0, <1>5, TypedFacts
<1>9. why' \in [Given -> Causes]
  <2>1. \A g \in Given : why[g] \in Causes /\ "alias" \in Causes
    BY TypedFacts DEF Causes
  <2>2. \A g \in Given : Blame(g, "alias") \in Causes
    BY <2>1, BlameIs
  <2>. QED BY <1>0, <2>1, <2>2
<1>10. hidden \cap ((DOMAIN db' \cup {0}) \X DOMAIN card') \subseteq hidden'
  BY <1>0, <1>5
<1>11. hidden' \subseteq (DOMAIN db' \cup {0}) \X DOMAIN card'
  <2>1. SUFFICES ASSUME NEW x \in hidden, x[2] # path PROVE x \in (DOMAIN db' \cup {0}) \X DOMAIN card'
    BY <1>0
  <2>2. x \in (DOMAIN db \cup {0}) \X DOMAIN card
    BY DEF MtpServerInv, Typed
  <2>. QED BY <1>1, <1>2, <1>5, <2>1, <2>2
<1>12. \A g \in DOMAIN db \ DOMAIN db' : truth[g] \notin DOMAIN card'
  BY <1>1, <1>2, <1>5, TypedFacts
<1>13. rare' \in 0..MaxRare /\ dead' \in BOOLEAN
  BY <1>0 DEF MtpServerInv, Typed
<1>. HIDE DEF gone
<1>. QED
  BY <1>0, <1>1, <1>5, <1>6, <1>7, <1>8, <1>9, <1>10, <1>11, <1>12, <1>13, Removal

\* An object is deleted, with the handles one level below it.
LEMMA DeleteInv ==
  ASSUME MtpServerInv, Delete
  PROVE  MtpServerInv'
<1>0. pend' = None /\ UNCHANGED <<dead, edits, rare, counter>>
  BY DEF Delete, Request, Answers
<1>1. PICK h \in DOMAIN db : \E left \in Remains(db[h].path) :
        LET gone == Under(db[h].path) \ left
            kept == DOMAIN db \ Erased(h)
            stay == {truth[g] : g \in Erased(h)} \cap (DOMAIN card \ gone)
        IN  /\ db' = Only(db, kept)
            /\ card' = Only(card, DOMAIN card \ gone)
            /\ truth' = [g \in Given |-> IF truth[g] \in gone THEN None ELSE truth[g]]
            /\ why' = [g \in Given |->
                         IF truth[g] \notin gone THEN why[g]
                         ELSE Blame(g, IF truth[g] = db[h].path THEN "alias" ELSE "ancestor")]
            /\ hidden' = {x \in hidden \cup Missing(stay) : x[1] \in kept \cup {0} /\ x[2] \notin gone}
  BY DEF Delete
<1>. DEFINE path == db[h].path
<1>2. path \in Paths /\ path \in Whole
  BY EntryHas, PathIs DEF MtpServerInv, Typed
<1>3. PICK left \in Remains(path) :
        LET gone == Under(path) \ left
            kept == DOMAIN db \ Erased(h)
            stay == {truth[g] : g \in Erased(h)} \cap (DOMAIN card \ gone)
        IN  /\ db' = Only(db, kept)
            /\ card' = Only(card, DOMAIN card \ gone)
            /\ truth' = [g \in Given |-> IF truth[g] \in gone THEN None ELSE truth[g]]
            /\ why' = [g \in Given |->
                         IF truth[g] \notin gone THEN why[g]
                         ELSE Blame(g, IF truth[g] = path THEN "alias" ELSE "ancestor")]
            /\ hidden' = {x \in hidden \cup Missing(stay) : x[1] \in kept \cup {0} /\ x[2] \notin gone}
  BY <1>1
<1>. HIDE DEF path
<1>. DEFINE gone == Under(path) \ left
            kept == DOMAIN db \ Erased(h)
            stay == {truth[g] : g \in Erased(h)} \cap (DOMAIN card \ gone)
<1>4. \A p \in DOMAIN card, a \in DOMAIN card : IsPrefix(a, p) /\ a \in gone => p \in gone
  <2>1. SUFFICES ASSUME NEW p \in DOMAIN card, NEW a \in DOMAIN card, IsPrefix(a, p), a \in gone
                 PROVE  p \in gone
    OBVIOUS
  <2>2. p \in Under(path)
    BY <1>2, <2>1, UnderGoes DEF MtpServerInv
  <2>3. p \notin left
    BY <2>1 DEF Remains
  <2>. QED BY <2>2, <2>3
<1>5. /\ db' = Only(db, kept) /\ card' = Only(card, DOMAIN card \ gone)
      /\ truth' = [g \in Given |-> IF truth[g] \in gone THEN None ELSE truth[g]]
      /\ why' = [g \in Given |->
                   IF truth[g] \notin gone THEN why[g]
                   ELSE Blame(g, IF truth[g] = path THEN "alias" ELSE "ancestor")]
      /\ hidden' = {x \in hidden \cup Missing(stay) : x[1] \in kept \cup {0} /\ x[2] \notin gone}
  BY <1>3
<1>6. stay \subseteq DOMAIN card \ gone /\ kept \subseteq DOMAIN db
      /\ \A g \in DOMAIN db \ kept : truth[g] \in DOMAIN card \ gone => truth[g] \in stay
  BY DEF Erased
<1>. HIDE DEF gone, kept, stay
<1>7. DOMAIN card' = DOMAIN card \ gone /\ \A p \in DOMAIN card' : card'[p] = card[p]
  BY <1>5 DEF Only
<1>8. DOMAIN db' = kept /\ \A g \in DOMAIN db' : db'[g] = db[g]
  BY <1>5, <1>6 DEF Only
<1>9. \A g \in Given : IF truth[g] \in gone
                       THEN truth'[g] = None /\ why'[g] \notin {"none", "written"}
                       ELSE truth'[g] = truth[g] /\ why'[g] = why[g]
  <2>1. \A g \in Given : why[g] \in Causes /\ "alias" \in Causes /\ "ancestor" \in Causes
    BY TypedFacts DEF Causes
  <2>2. \A g \in Given : Blame(g, "alias") \notin {"none", "written"}
                         /\ Blame(g, "ancestor") \notin {"none", "written"}
    BY <2>1, BlameIs
  <2>. QED BY <1>5, <2>2
<1>10. truth' \in [Given -> DOMAIN card' \cup {None}]
  BY <1>5, <1>7, TypedFacts
<1>11. why' \in [Given -> Causes]
  <2>1. \A g \in Given : why[g] \in Causes /\ "alias" \in Causes /\ "ancestor" \in Causes
    BY TypedFacts DEF Causes
  <2>2. \A g \in Given : Blame(g, "alias") \in Causes /\ Blame(g, "ancestor") \in Causes
    BY <2>1, BlameIs
  <2>. QED BY <1>5, <2>1, <2>2
<1>12. hidden \cap ((DOMAIN db' \cup {0}) \X DOMAIN card') \subseteq hidden'
  BY <1>5, <1>7, <1>8
<1>13. hidden' \subseteq (DOMAIN db' \cup {0}) \X DOMAIN card'
  <2>1. SUFFICES ASSUME NEW x \in hidden \cup Missing(stay), x[1] \in kept \cup {0}, x[2] \notin gone
                 PROVE  x \in (DOMAIN db' \cup {0}) \X DOMAIN card'
    BY <1>5
  <2>2. x \in (DOMAIN db \cup {0}) \X DOMAIN card
    BY <1>6, MissingIs DEF MtpServerInv, Typed
  <2>. QED BY <1>7, <1>8, <2>1, <2>2
<1>14. ASSUME NEW g \in DOMAIN db \ DOMAIN db', NEW d \in DOMAIN db' \cup {0},
              truth[g] \in DOMAIN card', Sees(d, truth[g])
       PROVE  <<d, truth[g]>> \in hidden'
  <2>1. truth[g] \in stay /\ truth[g] \notin gone
    BY <1>6, <1>7, <1>8, <1>14
  <2>2. <<d, truth[g]>> \in Missing(stay)
    BY <1>6, <1>8, <1>14, <2>1, MissingIs
  <2>. QED BY <1>5, <1>8, <2>1, <2>2
<1>15. rare' \in 0..MaxRare /\ dead' \in BOOLEAN
  BY <1>0 DEF MtpServerInv, Typed
<1>. QED
  BY <1>0, <1>4, <1>6, <1>7, <1>8, <1>9, <1>10, <1>11, <1>12, <1>13, <1>14, <1>15, Removal

\* The next server has a new database.
LEMMA RestartInv ==
  ASSUME MtpServerInv, Restart
  PROVE  MtpServerInv'
<1>1. PICK order \in RootOrders, skipped \in SUBSET Children(<<>>) :
       /\ counter' = 2 + Len(order) /\ db' = Read(order, skipped) /\ truth' = FirstTruth(order, skipped)
       /\ why' = [h \in 2..(Len(order) + 1) |-> "none"]
       /\ hidden' = {0} \X skipped /\ Rarely(skipped # {})
  BY DEF Restart
<1>2. pend' = None /\ dead' = FALSE /\ edits' = NoEdits /\ UNCHANGED card
  BY DEF Restart
<1>3. /\ Len(order) \in Nat /\ Len(order) < MaxHandle
      /\ DOMAIN db' \subseteq 2..(Len(order) + 1) /\ truth' \in [2..(Len(order) + 1) -> DOMAIN card \cup {None}]
      /\ \A h \in DOMAIN db' :
           /\ db'[h] \in Entries /\ db'[h].path \in DOMAIN card /\ truth'[h] = db'[h].path
           /\ db'[h].parent = 0 /\ db'[h].storage = Card /\ ~db'[h].scanned
           /\ db'[h].dir <=> card[db'[h].path] = Dir
           /\ ~db'[h].dir => card[db'[h].path] = db'[h].size
      /\ \A p \in DOMAIN card : Parent(p) = <<>> =>
           p \in skipped \/ \E h \in DOMAIN db' : db'[h].path = p
  BY <1>1, ReadIs DEF MtpServerInv
<1>4. Given' = 2..(Len(order) + 1) /\ counter' \in 2..(MaxHandle + 1)
  BY <1>1, <1>3, BoundsAssumption DEF Given
<1>5. Typed'
  <2>1. why' \in [Given' -> Causes]
    BY <1>1, <1>4 DEF Causes
  <2>2. rare' \in 0..MaxRare
    BY <1>1, RareIs
  <2>3. hidden' \subseteq (DOMAIN db' \cup {0}) \X DOMAIN card'
    BY <1>1, <1>2 DEF Children
  <2>. QED BY <1>2, <1>3, <1>4, <2>1, <2>2, <2>3 DEF Typed
<1>6. Tree(card')
  BY <1>2 DEF MtpServerInv
<1>7. Named' /\ Sized'
  BY <1>2, <1>3 DEF Named, Sized
<1>8. Pending' /\ Edited'
  BY <1>2 DEF Pending, Edited, NoEdits
<1>9. Shown'
  <2>1. SUFFICES ASSUME NEW p \in DOMAIN card', NEW d \in DOMAIN db' \cup {0}, Sees(d, p)'
                 PROVE  <<d, p>> \in hidden' \/ Shows(d, p)'
    BY DEF Shown
  <2>2. d = 0 /\ Parent(p) = <<>>
    BY <1>3, <2>1 DEF Sees
  <2>3. CASE p \in skipped
    BY <1>1, <2>2, <2>3
  <2>4. CASE p \notin skipped
    <3>1. PICK h \in DOMAIN db' : db'[h].path = p
      BY <1>2, <1>3, <2>2, <2>4
    <3>. QED BY <1>3, <2>2, <3>1 DEF Shows
  <2>. QED BY <2>3, <2>4
<1>. QED
  BY <1>5, <1>6, <1>7, <1>8, <1>9 DEF MtpServerInv

\* An upload is made.
LEMMA SendObjectInv ==
  ASSUME MtpServerInv, SendObject
  PROVE  MtpServerInv'
<1>. DEFINE path == db[pend].path
            e == db[pend]
<1>0. pend' = None /\ pend # None /\ UNCHANGED <<counter, edits, dead>>
  BY DEF SendObject
<1>p. PICK upto \in 0..db[pend].size, known \in BOOLEAN :
        /\ Uploaded(db[pend].path, upto)
        /\ db' = IF known THEN [db EXCEPT ![pend].size = upto] ELSE db
        /\ why' = [g \in Given |->
                     IF g = pend THEN IF known THEN "none" ELSE "written"
                     ELSE IF truth[g] = db[pend].path THEN Blame(g, "written") ELSE why[g]]
        /\ Rarely(~known)
  BY DEF SendObject
<1>. DEFINE size == IF known THEN upto ELSE e.size
            mark == IF known THEN "none" ELSE "written"
<1>1. /\ Writable(path) /\ card' = Put(card, path, upto)
      /\ hidden' = IF path \in DOMAIN card THEN hidden
                   ELSE hidden \cup {x \in Missing({path}) :
                                      x[1] # db[pend].parent \/ db[pend].storage # Card}
      /\ truth' = [truth EXCEPT ![pend] = path]
      /\ db' = IF known THEN [db EXCEPT ![pend].size = upto] ELSE db
      /\ why' = [g \in Given |-> IF g = pend THEN mark
                                 ELSE IF truth[g] = path THEN Blame(g, "written") ELSE why[g]]
      /\ Rarely(~known)
  BY <1>p DEF Uploaded
<1>2. /\ pend \in DOMAIN db /\ truth[pend] = None /\ ~e.dir /\ pend \in Given
      /\ \A x \in hidden : x[1] # pend
  BY <1>0, TypedFacts DEF MtpServerInv, Pending
<1>3. e \in Entries /\ path \in Paths /\ e.size \in 0..MaxSize /\ path # <<>> /\ path # None /\ Parent(path) # path
  <2>1. e \in Entries
    BY <1>2 DEF MtpServerInv, Typed
  <2>2. path \in Paths /\ e.size \in 0..MaxSize
    BY <2>1, EntryHas
  <2>. QED BY <2>1, <2>2, PathIs
<1>4. /\ size \in 0..MaxSize /\ upto \in 0..MaxSize /\ upto # Dir /\ (known => size = upto)
      /\ mark = (IF known THEN "none" ELSE "written") /\ mark \in {"none", "written"}
  BY <1>3, TypedFacts, ValuesAssumption
<1>5. Place(card, path) /\ (path \in DOMAIN card => card[path] # Dir)
  BY <1>1, <1>3 DEF Writable, Place, IsDir
<1>6. /\ DOMAIN card' = DOMAIN card \cup {path} /\ card'[path] = upto
      /\ \A q \in DOMAIN card : q # path => card'[q] = card[q]
  BY <1>1 DEF Put
<1>7. Tree(card')
  BY <1>3, <1>4, <1>5, <1>6, TreeWith DEF MtpServerInv
<1>8. /\ DOMAIN db' = DOMAIN db /\ \A h \in DOMAIN db : h # pend => db'[h] = db[h]
      /\ db'[pend] = [e EXCEPT !.size = size]
  <2>1. [e EXCEPT !.size = e.size] = e
    BY <1>3 DEF Entries
  <2>. QED BY <1>1, <1>2, <2>1
<1>9. /\ db'[pend] \in Entries /\ ~db'[pend].dir /\ db'[pend].parent = e.parent
      /\ db'[pend].storage = e.storage /\ db'[pend].path = path /\ db'[pend].size = size /\ db'[pend].scanned = e.scanned
  <2>. HIDE DEF e, size
  <2>1. LET f == [e EXCEPT !.size = size] IN
          f \in Entries /\ f.dir = e.dir /\ f.parent = e.parent /\ f.storage = e.storage
          /\ f.path = e.path /\ f.size = size /\ f.scanned = e.scanned
    BY <1>3, <1>4, EntryWith
  <2>. QED BY <1>2, <1>8, <2>1 DEF e
<1>10. \A h \in DOMAIN db' : db'[h] \in Entries
  BY <1>8, <1>9 DEF MtpServerInv, Typed
<1>11. Given' = Given /\ DOMAIN db \subseteq Given
  BY <1>0, TypedFacts DEF Given
<1>. DEFINE parent == db[pend].parent
            id == db[pend].storage
<1>12. hidden' = IF path \in DOMAIN card THEN hidden
                 ELSE hidden \cup {x \in Missing({path}) : x[1] # parent \/ id # Card}
  BY <1>1
<1>. HIDE DEF path, e, parent, id, size, mark
<1>13. /\ truth' \in [Given -> DOMAIN card' \cup {None}] /\ truth'[pend] = path
       /\ \A g \in Given : g # pend => truth'[g] = truth[g]
  <2>1. truth \in [Given -> DOMAIN card \cup {None}]
    BY DEF MtpServerInv, Typed
  <2>. QED BY <1>1, <1>2, <1>6, <2>1
<1>14. /\ why' \in [Given -> Causes]
       /\ \A g \in Given : g # pend /\ why'[g] \in {"none", "written"} => why[g] \in {"none", "written"}
       /\ \A g \in Given : g # pend /\ why'[g] = "none" => why[g] = "none" /\ truth[g] # path
  <2>1. \A g \in Given : why[g] \in Causes /\ "written" \in Causes /\ "none" \in Causes
    BY TypedFacts DEF Causes
  <2>2. \A g \in Given : /\ Blame(g, "written") \in Causes /\ Blame(g, "written") # "none"
                         /\ Blame(g, "written") = "written" => why[g] \in {"none", "written"}
    BY <2>1, BlameIs
  <2>3. \A g \in Given : why'[g] = IF g = pend THEN mark
                                   ELSE IF truth[g] = path THEN Blame(g, "written") ELSE why[g]
    BY <1>1
  <2>4. why' \in [Given -> Causes]
    BY <1>1, <1>4, <2>1, <2>2
  <2>. QED BY <2>2, <2>3, <2>4
<1>15. hidden \subseteq hidden' /\ hidden' \subseteq (DOMAIN db' \cup {0}) \X DOMAIN card'
  <2>1. hidden \subseteq (DOMAIN db \cup {0}) \X DOMAIN card
    BY DEF MtpServerInv, Typed
  <2>2. \A y \in Missing({path}) : y \in (DOMAIN db \cup {0}) \X DOMAIN card'
    BY <1>6, MissingIs
  <2>. QED BY <1>6, <1>8, <1>12, <2>1, <2>2
<1>r. rare' \in 0..MaxRare
  BY <1>1, RareIs
<1>16. Typed'
  BY <1>0, <1>r, <1>8, <1>10, <1>11, <1>13, <1>14, <1>15 DEF MtpServerInv, Typed
<1>17. ASSUME NEW h \in DOMAIN db', h # pend, why'[h] \in {"none", "written"}
       PROVE  /\ truth'[h] = db'[h].path /\ db'[h].path \in DOMAIN card'
              /\ db'[h].dir <=> card'[db'[h].path] = Dir
              /\ why'[h] = "none" /\ ~db'[h].dir => card'[db'[h].path] = db'[h].size
  <2>. DEFINE f == db[h]
              q == f.path
  <2>1. h \in DOMAIN db /\ h \in Given /\ db'[h] = f /\ truth'[h] = truth[h]
    BY <1>8, <1>11, <1>13, <1>17
  <2>2. why[h] \in {"none", "written"} /\ (why'[h] = "none" => why[h] = "none" /\ truth[h] # path)
    BY <1>14, <1>17, <2>1
  <2>3. truth[h] = q /\ q \in DOMAIN card /\ (f.dir <=> card[q] = Dir)
    BY <2>1, <2>2 DEF MtpServerInv, Named
  <2>4. why[h] = "none" /\ ~f.dir => card[q] = f.size
    BY <2>1 DEF MtpServerInv, Sized
  <2>. HIDE DEF f
  <2>5. CASE q = path
    BY <1>4, <1>5, <1>6, <2>1, <2>2, <2>3, <2>5
  <2>6. CASE q # path
    BY <1>6, <2>1, <2>2, <2>3, <2>4, <2>6
  <2>. QED BY <2>5, <2>6
<1>18. Named' /\ Sized'
  <2>1. /\ truth'[pend] = db'[pend].path /\ db'[pend].path \in DOMAIN card'
        /\ ~db'[pend].dir /\ card'[db'[pend].path] # Dir
        /\ why'[pend] = "none" => card'[db'[pend].path] = db'[pend].size
    BY <1>1, <1>2, <1>4, <1>6, <1>9, <1>13
  <2>2. Named'
    BY <1>17, <2>1 DEF Named
  <2>3. Sized'
    BY <1>17, <2>1 DEF Sized
  <2>. QED BY <2>2, <2>3
<1>19. Pending'
  BY <1>0 DEF Pending
<1>20. Shown'
  <2>1. SUFFICES ASSUME NEW p \in DOMAIN card', NEW d \in DOMAIN db' \cup {0}, Sees(d, p)'
                 PROVE  <<d, p>> \in hidden' \/ Shows(d, p)'
    BY DEF Shown
  <2>2. d \in DOMAIN db \cup {0} /\ Sees(d, p)
    <3>1. CASE d = 0 /\ Parent(p) = <<>>
      BY <3>1 DEF Sees
    <3>2. CASE d \in DOMAIN db' /\ db'[d].scanned /\ truth'[d] = Parent(p) /\ d # pend
      <4>1. d \in DOMAIN db /\ d \in Given
        BY <1>8, <1>11, <3>2
      <4>. QED BY <1>8, <1>13, <3>2, <4>1 DEF Sees
    <3>3. CASE truth'[pend] = Parent(p)
      <4>1. p # path /\ Parent(p) = path
        BY <1>3, <1>13, <3>3
      <4>2. p \in DOMAIN card /\ Place(card, p)
        BY <1>6, <4>1, TreePlace DEF MtpServerInv
      <4>. QED BY <1>3, <1>5, <4>1, <4>2 DEF Place
    <3>. QED BY <1>8, <2>1, <3>1, <3>2, <3>3 DEF Sees
  <2>3. CASE p \in DOMAIN card
    <3>1. CASE <<d, p>> \in hidden
      BY <1>15, <3>1
    <3>2. CASE Shows(d, p)
      <4>1. PICK g \in DOMAIN db : /\ db[g].parent = d /\ db[g].storage = Card
                                   /\ truth[g] = p /\ Last(db[g].path) = Last(p)
        BY <3>2 DEF Shows
      <4>2. g # pend /\ g \in Given
        BY <1>2, <1>11, <2>3, <4>1, TypedFacts
      <4>3. g \in DOMAIN db' /\ db'[g] = db[g] /\ truth'[g] = p
        BY <1>8, <1>13, <4>1, <4>2
      <4>. QED BY <4>1, <4>3 DEF Shows
    <3>. QED BY <2>2, <2>3, <3>1, <3>2 DEF MtpServerInv, Shown
  <2>4. CASE p \notin DOMAIN card
    <3>1. p = path
      BY <1>6, <2>4
    <3>2. CASE d = parent /\ id = Card
      <4>1. /\ pend \in DOMAIN db' /\ db'[pend].parent = d /\ db'[pend].storage = Card
            /\ truth'[pend] = p /\ db'[pend].path = p
        BY <1>2, <1>8, <1>9, <1>13, <3>1, <3>2 DEF parent, id, e
      <4>. QED BY <4>1 DEF Shows
    <3>3. CASE d # parent \/ id # Card
      <4>1. <<d, p>> \in Missing({path})
        BY <2>2, <3>1, MissingIs
      <4>. QED BY <1>12, <2>4, <3>1, <3>3, <4>1
    <3>. QED BY <3>2, <3>3
  <2>. QED BY <2>3, <2>4
<1>21. Edited'
  <2>1. \A h \in DOMAIN db' : h \in DOMAIN db /\ db'[h].path = db[h].path
    BY <1>8, <1>9 DEF path
  <2>. QED BY <1>0, <2>1, EditedStays
<1>. QED
  BY <1>7, <1>16, <1>18, <1>19, <1>20, <1>21 DEF MtpServerInv

\* An object is said to be moved.
LEMMA MoveInv ==
  ASSUME MtpServerInv, Move
  PROVE  MtpServerInv'
<1>1. PICK h \in DOMAIN db, parent \in DOMAIN db \cup {0} :
        /\ db' = [db EXCEPT ![h].parent = parent]
        /\ hidden' = IF truth[h] = None THEN hidden ELSE hidden \cup Missing({truth[h]})
  BY DEF Move
<1>2. pend' = None /\ rare < MaxRare /\ rare' = rare + 1 /\ UNCHANGED <<card, counter, edits, dead, truth, why>>
  BY DEF Move
<1>. DEFINE e == db[h]
<1>3. /\ DOMAIN db' = DOMAIN db /\ \A g \in DOMAIN db : g # h => db'[g] = db[g]
      /\ db'[h] = [e EXCEPT !.parent = parent]
  BY <1>1
<1>4. parent \in {0} \cup Handles /\ e \in Entries
  <2>1. Given \subseteq Handles
    BY TypedFacts DEF Given, Handles
  <2>. QED BY <2>1, TypedFacts DEF MtpServerInv, Typed
<1>. HIDE DEF e
<1>5. /\ db'[h] \in Entries /\ db'[h].dir = e.dir /\ db'[h].storage = e.storage /\ db'[h].path = e.path
      /\ db'[h].size = e.size /\ db'[h].scanned = e.scanned
  <2>1. LET f == [e EXCEPT !.parent = parent] IN
          f \in Entries /\ f.dir = e.dir /\ f.parent = parent /\ f.storage = e.storage
          /\ f.path = e.path /\ f.size = e.size /\ f.scanned = e.scanned
    BY <1>4, EntryWith
  <2>. QED BY <1>3, <2>1
<1>6. \A g \in DOMAIN db : /\ db'[g] \in Entries /\ db'[g].dir = db[g].dir /\ db'[g].path = db[g].path
                           /\ db'[g].size = db[g].size /\ db'[g].scanned = db[g].scanned
  BY <1>3, <1>5 DEF e, MtpServerInv, Typed
<1>7. hidden \subseteq hidden' /\ hidden' \subseteq (DOMAIN db' \cup {0}) \X DOMAIN card'
  <2>1. hidden \subseteq (DOMAIN db \cup {0}) \X DOMAIN card
    BY DEF MtpServerInv, Typed
  <2>2. truth[h] # None => truth[h] \in DOMAIN card
    BY TypedFacts
  <2>3. \A x \in Missing({truth[h]}) : truth[h] # None => x \in (DOMAIN db \cup {0}) \X DOMAIN card
    BY <2>2, MissingIs
  <2>. QED BY <1>1, <1>2, <1>3, <2>1, <2>3
<1>8. Typed'
  <2>1. rare' \in 0..MaxRare
    BY <1>2, TypedFacts
  <2>2. Given' = Given
    BY <1>2 DEF Given
  <2>. QED BY <1>2, <1>3, <1>6, <1>7, <2>1, <2>2 DEF MtpServerInv, Typed
<1>9. Named' /\ Sized'
  BY <1>2, <1>3, <1>6 DEF MtpServerInv, Named, Sized
<1>10. Pending' /\ Tree(card')
  BY <1>2 DEF Pending, MtpServerInv
<1>11. Shown'
  <2>1. SUFFICES ASSUME NEW p \in DOMAIN card', NEW d \in DOMAIN db' \cup {0}, Sees(d, p)'
                 PROVE  <<d, p>> \in hidden' \/ Shows(d, p)'
    BY DEF Shown
  <2>2. p \in DOMAIN card /\ d \in DOMAIN db \cup {0} /\ Sees(d, p)
    BY <1>2, <1>3, <1>6, <2>1 DEF Sees
  <2>3. CASE <<d, p>> \in hidden
    BY <1>7, <2>3
  <2>4. CASE Shows(d, p)
    <3>1. PICK g \in DOMAIN db : /\ db[g].parent = d /\ db[g].storage = Card
                                 /\ truth[g] = p /\ Last(db[g].path) = Last(p)
      BY <2>4 DEF Shows
    <3>2. CASE g = h
      <4>1. truth[h] # None /\ truth[h] = p
        BY <2>2, <3>1, <3>2, TypedFacts
      <4>2. <<d, p>> \in Missing({truth[h]})
        BY <2>2, <4>1, MissingIs
      <4>. QED BY <1>1, <4>1, <4>2
    <3>3. CASE g # h
      <4>1. g \in DOMAIN db' /\ db'[g] = db[g] /\ truth'[g] = p
        BY <1>2, <1>3, <3>1, <3>3
      <4>. QED BY <3>1, <4>1 DEF Shows
    <3>. QED BY <3>2, <3>3
  <2>. QED BY <2>2, <2>3, <2>4 DEF MtpServerInv, Shown
<1>12. Edited'
  BY <1>2, <1>3, <1>6, EditedStays
<1>. QED
  BY <1>8, <1>9, <1>10, <1>11, <1>12 DEF MtpServerInv

\* An object is renamed, with everything below it, and this one entry is told.
LEMMA RenameInv ==
  ASSUME MtpServerInv, Rename
  PROVE  MtpServerInv'
<1>0. pend' = None /\ UNCHANGED <<dead, edits, rare, counter>>
  BY DEF Rename, Request, Answers
<1>1. PICK h \in DOMAIN db, name \in Names :
        /\ RenameOnCard(h, db[h].path, Append(Parent(db[h].path), name))
        /\ db' = [db EXCEPT ![h].path = Append(Parent(db[h].path), name)]
  BY DEF Rename
<1>. DEFINE e == db[h]
            old == e.path
            new == Append(Parent(old), name)
            c(p) == Carried(old, new, p)
<1>2. /\ old # new /\ old \in DOMAIN card /\ {c(p) : p \in DOMAIN card} \subseteq Paths
      /\ Opened \cap Under(old) = {}
      /\ new \in DOMAIN card => IsFile(new) /\ IsFile(old)
      /\ card' = Renamed(card, old, new)
      /\ truth' = [g \in Given |-> IF truth[g] \in Under(old) THEN c(truth[g])
                                   ELSE IF truth[g] = new THEN None ELSE truth[g]]
      /\ why' = [g \in Given |->
                   IF truth[g] \in Under(old) \ {old} THEN Blame(g, "ancestor")
                   ELSE IF g # h /\ truth[g] \in {old, new} THEN Blame(g, "alias") ELSE why[g]]
      /\ hidden' = {<<x[1], c(x[2])>> : x \in {y \in hidden : y[2] # new}}
                     \cup {<<d, new>> : d \in {v \in Viewers(Parent(old)) :
                                                 v # e.parent \/ truth[h] # old
                                                   \/ e.storage # Card}}
                     \cup {<<e.parent, c(p)>> : p \in Misnamed(h, old, new)}
  BY <1>1 DEF RenameOnCard, Renamed
<1>3. db' = [db EXCEPT ![h].path = new]
  BY <1>1
<1>4. CanRename(card, old, new)
  BY <1>2 DEF CanRename, IsFile
<1>5. e \in Entries
  BY DEF MtpServerInv, Typed
<1>6. DOMAIN db' = DOMAIN db /\ (\A g \in DOMAIN db : g # h => db'[g] = db[g])
      /\ db'[h] = [e EXCEPT !.path = new]
  BY <1>3
<1>7. Misnamed(h, old, new) = {p \in {truth[h]} \ {None, old, new} : e.parent \in Viewers(Parent(p))}
  BY DEF Misnamed
<1>. DEFINE parent == e.parent
            id == e.storage
<1>8. /\ hidden' = {<<x[1], c(x[2])>> : x \in {y \in hidden : y[2] # new}}
                     \cup {<<d, new>> : d \in {v \in Viewers(Parent(old)) :
                                                 v # parent \/ truth[h] # old \/ id # Card}}
                     \cup {<<parent, c(p)>> : p \in Misnamed(h, old, new)}
      /\ Misnamed(h, old, new) = {p \in {truth[h]} \ {None, old, new} : parent \in Viewers(Parent(p))}
  BY <1>2, <1>7
<1>. HIDE DEF new
<1>9. /\ old \in Paths /\ new \in Paths
      /\ c(old) = new
      /\ \A q \in Whole : ~IsPrefix(old, q) => c(q) = q
      /\ \A q \in Whole : ~(IsPrefix(old, q) /\ IsPrefix(new, q))
      /\ IsPrefix(new, new) /\ new \in Whole /\ IsPrefix(old, old)
  BY <1>4, NewPlace DEF MtpServerInv
<1>10. /\ db'[h] \in Entries /\ db'[h].dir = e.dir /\ db'[h].parent = e.parent /\ db'[h].storage = e.storage
       /\ db'[h].path = new /\ db'[h].size = e.size /\ db'[h].scanned = e.scanned
  <2>. HIDE DEF e, old
  <2>1. LET f == [e EXCEPT !.path = new] IN
          f \in Entries /\ f.dir = e.dir /\ f.parent = e.parent /\ f.storage = e.storage
          /\ f.path = new /\ f.size = e.size /\ f.scanned = e.scanned
    BY <1>5, <1>9, EntryWith
  <2>. QED BY <1>6, <2>1
<1>11. \A g \in DOMAIN db : /\ db'[g] \in Entries /\ db'[g].dir = db[g].dir /\ db'[g].parent = db[g].parent
                            /\ db'[g].storage = db[g].storage
                            /\ db'[g].size = db[g].size /\ db'[g].scanned = db[g].scanned
  <2>1. /\ db'[h] \in Entries /\ db'[h].dir = db[h].dir /\ db'[h].parent = db[h].parent
        /\ db'[h].storage = db[h].storage
        /\ db'[h].size = db[h].size /\ db'[h].scanned = db[h].scanned
    BY <1>10
  <2>2. \A g \in DOMAIN db : db[g] \in Entries
    BY DEF MtpServerInv, Typed
  <2>. HIDE DEF e, old
  <2>. QED BY <1>6, <2>1, <2>2
<1>12. Given' = Given /\ DOMAIN db \subseteq Given
  BY <1>0, TypedFacts DEF Given
<1>13. db[h].path = old /\ db[h].parent = parent /\ db[h].storage = id /\ db'[h].path = new
  BY <1>10
<1>. HIDE DEF e, old, parent, id
<1>14. /\ Tree(card') /\ DOMAIN card' = {c(q) : q \in DOMAIN card \ {new}}
  <2>1. Tree(card)
    BY DEF MtpServerInv
  <2>2. Tree(Renamed(card, old, new))
    <3>1. CanRename(card, old, new)
      BY <1>4
    <3>. QED
      BY <2>1, <3>1, TreeRenamed
  <2>3. DOMAIN Renamed(card, old, new) = {Carried(old, new, q) : q \in DOMAIN card \ {new}}
    BY DEF Renamed
  <2>4. card' = Renamed(card, old, new)
    BY <1>2
  <2>. QED
    BY <2>2, <2>3, <2>4, Zenon
<1>15. \A q \in DOMAIN card \ {new} :
         /\ c(q) \in DOMAIN card' /\ card'[c(q)] = card[q]
         /\ Parent(c(q)) = c(Parent(q)) /\ q \in Whole
         /\ q # old => Last(c(q)) = Last(q)
         /\ Parent(q) \in (DOMAIN card \ {new}) \cup {<<>>}
  <2>1. SUFFICES ASSUME NEW q \in DOMAIN card \ {new}
                 PROVE  /\ c(q) \in DOMAIN card' /\ card'[c(q)] = card[q]
                        /\ Parent(c(q)) = c(Parent(q)) /\ q \in Whole
                        /\ q # old => Last(c(q)) = Last(q)
                        /\ Parent(q) \in (DOMAIN card \ {new}) \cup {<<>>}
    OBVIOUS
  <2>2. /\ c(q) \in DOMAIN card' /\ card'[c(q)] = card[q]
        /\ Parent(c(q)) = c(Parent(q)) /\ q \in Whole
        /\ q # old => Last(c(q)) = Last(q)
        /\ Parent(q) # new
    BY <1>2, <1>4, CarriedOver DEF MtpServerInv
  <2>3. Place(card, q)
    BY TreePlace DEF MtpServerInv
  <2>. QED BY <2>2, <2>3 DEF Place
<1>16. \A q, r \in (DOMAIN card \ {new}) \cup {<<>>} : c(q) = c(r) => q = r
  BY <1>4, CarriedApart DEF MtpServerInv
<1>17. c(<<>>) = <<>>
  BY <1>4, NewPlace, JoinLaws DEF MtpServerInv
<1>18. \A g \in Given : truth'[g] = IF truth[g] \in {None, new} THEN None ELSE c(truth[g])
  <2>1. SUFFICES ASSUME NEW g \in Given
                 PROVE  truth'[g] = IF truth[g] \in {None, new} THEN None ELSE c(truth[g])
    OBVIOUS
  <2>2. truth'[g] = IF truth[g] \in Under(old) THEN c(truth[g])
                    ELSE IF truth[g] = new THEN None ELSE truth[g]
    BY <1>2
  <2>3. truth[g] \in DOMAIN card \cup {None}
    BY TypedFacts
  <2>4. None \notin Under(old) /\ new \notin Under(old)
    BY <1>9, TypedFacts DEF Under
  <2>5. CASE truth[g] \in {None, new}
    BY <2>2, <2>4, <2>5
  <2>6. CASE truth[g] \notin {None, new}
    <3>1. truth[g] \in DOMAIN card \ {new}
      BY <2>3, <2>6
    <3>2. truth[g] \notin Under(old) => c(truth[g]) = truth[g]
      BY <1>9, <1>15, <3>1 DEF Under
    <3>. QED BY <2>2, <2>6, <3>2
  <2>. QED BY <2>5, <2>6
<1>. HIDE DEF c
<1>19. truth' \in [Given -> DOMAIN card' \cup {None}]
  <2>1. truth' = [g \in Given |-> truth'[g]]
    BY <1>2
  <2>2. \A g \in Given : truth'[g] \in DOMAIN card' \cup {None}
    BY <1>15, <1>18, TypedFacts
  <2>. QED BY <2>1, <2>2
<1>20. /\ why' \in [Given -> Causes]
       /\ \A g \in Given : why'[g] \in {"none", "written"} =>
            /\ why'[g] = why[g] /\ truth[g] \notin Under(old) \ {old}
            /\ g = h \/ truth[g] \notin {old, new}
  <2>1. \A g \in Given : why[g] \in Causes /\ "alias" \in Causes /\ "ancestor" \in Causes
    BY TypedFacts DEF Causes
  <2>2. \A g \in Given : /\ Blame(g, "alias") \in Causes /\ Blame(g, "ancestor") \in Causes
                         /\ Blame(g, "alias") \notin {"none", "written"}
                         /\ Blame(g, "ancestor") \notin {"none", "written"}
    BY <2>1, BlameIs
  <2>3. \A g \in Given : why'[g] =
          IF truth[g] \in Under(old) \ {old} THEN Blame(g, "ancestor")
          ELSE IF g # h /\ truth[g] \in {old, new} THEN Blame(g, "alias") ELSE why[g]
    BY <1>2
  <2>4. why' \in [Given -> Causes]
    BY <1>2, <2>1, <2>2
  <2>. QED BY <2>2, <2>3, <2>4
<1>21. \A d, p : d \in Viewers(Parent(p)) <=> d \in DOMAIN db \cup {0} /\ Sees(d, p)
  BY ViewersSee
<1>22. hidden' \subseteq (DOMAIN db' \cup {0}) \X DOMAIN card'
  <2>1. \A x \in hidden : x[1] \in DOMAIN db \cup {0} /\ x[2] \in DOMAIN card
    BY DEF MtpServerInv, Typed
  <2>2. \A x \in hidden : x[2] # new => c(x[2]) \in DOMAIN card'
    BY <1>15, <2>1
  <2>3. new \in DOMAIN card'
    BY <1>2, <1>9, <1>15
  <2>4. \A d \in Viewers(Parent(old)) : d \in DOMAIN db \cup {0}
    BY <1>21
  <2>5. \A p \in Misnamed(h, old, new) : parent \in DOMAIN db \cup {0} /\ c(p) \in DOMAIN card'
    <3>1. SUFFICES ASSUME NEW p \in Misnamed(h, old, new)
                   PROVE  parent \in DOMAIN db \cup {0} /\ c(p) \in DOMAIN card'
      OBVIOUS
    <3>2. p = truth[h] /\ p \notin {None, old, new} /\ parent \in Viewers(Parent(p))
      BY <1>8
    <3>3. p \in DOMAIN card \ {new}
      BY <1>12, <3>2, TypedFacts
    <3>. QED BY <1>15, <1>21, <3>2, <3>3
  <2>6. hidden' = {<<x[1], c(x[2])>> : x \in {y \in hidden : y[2] # new}}
                    \cup {<<d, new>> : d \in {v \in Viewers(Parent(old)) :
                                                v # parent \/ truth[h] # old \/ id # Card}}
                    \cup {<<parent, c(p)>> : p \in Misnamed(h, old, new)}
    BY <1>8
  <2>. QED BY <1>6, <2>1, <2>2, <2>3, <2>4, <2>5, <2>6
<1>23. Typed'
  BY <1>0, <1>6, <1>11, <1>12, <1>19, <1>20, <1>22 DEF MtpServerInv, Typed
<1>24. ASSUME NEW g \in DOMAIN db', why'[g] \in {"none", "written"}
       PROVE  /\ truth'[g] = db'[g].path /\ db'[g].path \in DOMAIN card'
              /\ db'[g].dir <=> card'[db'[g].path] = Dir
              /\ why'[g] = "none" /\ ~db'[g].dir => card'[db'[g].path] = db'[g].size
  <2>1. g \in DOMAIN db /\ g \in Given /\ db'[g].dir = db[g].dir /\ db'[g].size = db[g].size
    BY <1>6, <1>11, <1>12, <1>24
  <2>2. /\ why'[g] = why[g] /\ truth[g] \notin Under(old) \ {old}
        /\ g = h \/ truth[g] \notin {old, new}
    BY <1>20, <1>24, <2>1
  <2>. DEFINE q == db[g].path
  <2>3. truth[g] = q /\ q \in DOMAIN card /\ (db[g].dir <=> card[q] = Dir)
    BY <1>24, <2>1, <2>2 DEF MtpServerInv, Named
  <2>4. why[g] = "none" /\ ~db[g].dir => card[q] = db[g].size
    BY <2>1 DEF MtpServerInv, Sized
  <2>5. q # new /\ c(q) = db'[g].path
    <3>1. CASE g = h
      BY <1>2, <1>9, <1>13, <3>1
    <3>2. CASE g # h
      <4>1. q \notin Under(old) /\ q # new /\ q \in Whole
        BY <1>9, <1>15, <2>2, <2>3, <3>2 DEF Under
      <4>2. c(q) = q
        BY <1>9, <2>3, <4>1 DEF Under
      <4>. QED BY <1>6, <2>1, <3>2, <4>1, <4>2
    <3>. QED BY <3>1, <3>2
  <2>6. truth'[g] = c(q) /\ c(q) \in DOMAIN card' /\ card'[c(q)] = card[q]
    BY <1>15, <1>18, <2>1, <2>3, <2>5, TypedFacts
  <2>. HIDE DEF q
  <2>. QED BY <2>1, <2>2, <2>3, <2>4, <2>5, <2>6
<1>25. Named' /\ Sized'
  BY <1>24 DEF Named, Sized
<1>26. Pending'
  BY <1>0 DEF Pending
<1>27. Shown'
  <2>1. SUFFICES ASSUME NEW r \in DOMAIN card', NEW d \in DOMAIN db' \cup {0}, Sees(d, r)'
                 PROVE  <<d, r>> \in hidden' \/ Shows(d, r)'
    BY DEF Shown
  <2>2. PICK p \in DOMAIN card \ {new} : r = c(p)
    BY <1>14
  <2>3. /\ Parent(r) = c(Parent(p)) /\ Parent(p) \in (DOMAIN card \ {new}) \cup {<<>>}
        /\ p # old => Last(r) = Last(p)
    BY <1>15, <2>2
  <2>4. d \in DOMAIN db \cup {0} /\ Sees(d, p)
    <3>1. CASE d = 0 /\ Parent(r) = <<>>
      <4>1. Parent(p) = <<>>
        BY <1>16, <1>17, <2>3, <3>1
      <4>. QED BY <3>1, <4>1 DEF Sees
    <3>2. CASE d \in DOMAIN db' /\ db'[d].scanned /\ truth'[d] = Parent(r)
      <4>1. d \in DOMAIN db /\ d \in Given /\ db[d].scanned
        BY <1>6, <1>11, <1>12, <3>2
      <4>2. Parent(r) # None
        BY <1>14, PathIs, ValuesAssumption DEF Tree
      <4>3. truth[d] \notin {None, new} /\ c(truth[d]) = c(Parent(p))
        BY <1>18, <2>3, <3>2, <4>1, <4>2
      <4>4. truth[d] \in DOMAIN card \ {new}
        BY <4>1, <4>3, TypedFacts
      <4>5. truth[d] = Parent(p)
        BY <1>16, <2>3, <4>3, <4>4
      <4>. QED BY <4>1, <4>5 DEF Sees
    <3>. QED BY <2>1, <3>1, <3>2 DEF Sees
  <2>5. CASE <<d, p>> \in hidden
    <3>. DEFINE x == <<d, p>>
    <3>1. x \in {y \in hidden : y[2] # new} /\ <<x[1], c(x[2])>> = <<d, r>>
      BY <2>2, <2>5
    <3>. QED BY <1>8, <3>1
  <2>6. CASE Shows(d, p)
    <3>1. PICK g \in DOMAIN db : /\ db[g].parent = d /\ db[g].storage = Card
                                 /\ truth[g] = p /\ Last(db[g].path) = Last(p)
      BY <2>6 DEF Shows
    <3>2. g \in DOMAIN db' /\ db'[g].parent = d /\ db'[g].storage = Card /\ truth'[g] = r
      <4>1. g \in Given /\ truth[g] \notin {None, new}
        BY <1>12, <3>1, TypedFacts
      <4>. QED BY <1>6, <1>11, <1>18, <2>2, <3>1, <4>1
    <3>3. CASE g # h /\ p # old
      <4>1. db'[g].path = db[g].path
        BY <1>6, <3>1, <3>3
      <4>. QED BY <2>3, <3>1, <3>2, <3>3, <4>1 DEF Shows
    <3>4. CASE g = h /\ p = old
      <4>1. db'[g].path = r
        BY <1>9, <1>13, <2>2, <3>4
      <4>. QED BY <3>2, <4>1 DEF Shows
    <3>5. CASE g = h /\ p # old
      <4>1. p \in {truth[h]} \ {None, old, new} /\ parent = d
        BY <1>13, <3>1, <3>5, TypedFacts
      <4>2. p \in Misnamed(h, old, new)
        BY <1>8, <1>21, <2>4, <4>1
      <4>. QED BY <1>8, <2>2, <4>1, <4>2
    <3>6. CASE g # h /\ p = old
      <4>1. r = new
        BY <1>9, <2>2, <3>6
      <4>2. CASE d # parent \/ truth[h] # old \/ id # Card
        <5>1. d \in {v \in Viewers(Parent(old)) : v # parent \/ truth[h] # old \/ id # Card}
          BY <1>21, <2>4, <3>6, <4>2
        <5>. QED BY <1>8, <4>1, <5>1
      <4>3. CASE d = parent /\ truth[h] = old /\ id = Card
        <5>1. h \in Given /\ truth[h] \notin {None, new}
          BY <1>2, <1>12, <4>3, TypedFacts
        <5>2. /\ h \in DOMAIN db' /\ db'[h].parent = d /\ db'[h].storage = Card
              /\ truth'[h] = r /\ db'[h].path = r
          BY <1>6, <1>9, <1>11, <1>13, <1>18, <4>1, <4>3, <5>1
        <5>. QED BY <5>2 DEF Shows
      <4>. QED BY <4>2, <4>3
    <3>. QED BY <3>3, <3>4, <3>5, <3>6
  <2>. QED BY <2>4, <2>5, <2>6 DEF MtpServerInv, Shown
<1>28. Edited'
  <2>1. old \in Under(old)
    BY <1>2, <1>9 DEF Under
  <2>2. h \notin DOMAIN edits
    BY <1>2, <1>13, <2>1 DEF MtpServerInv, Edited, Opened
  <2>. QED BY <1>0, <1>6, <1>12, <2>2 DEF MtpServerInv, Edited
<1>. QED
  BY <1>14, <1>23, <1>25, <1>26, <1>27, <1>28 DEF MtpServerInv

\* A file gets other contents, and every handle of it is told so.
LEMMA OverwriteInv ==
  ASSUME MtpServerInv, NEW path \in DOMAIN card, IsFile(path), NEW size \in 0..MaxSize,
         Overwrite(path, size), UNCHANGED <<db, counter, edits, truth, hidden>>,
         pend' = None \/ pend' = pend, dead' \in BOOLEAN, rare' \in 0..MaxRare
  PROVE  MtpServerInv'
<1>1. /\ DOMAIN card' = DOMAIN card /\ card'[path] = size /\ card[path] # Dir /\ size # Dir
      /\ \A q \in DOMAIN card : q # path => card'[q] = card[q]
  BY ValuesAssumption, TypedFacts DEF Overwrite, IsFile
<1>2. Tree(card')
  <2>1. path \in Paths /\ Place(card, path)
    BY TypedFacts, TreePlace DEF MtpServerInv
  <2>. QED BY <1>1, <2>1, TreeWith DEF MtpServerInv
<1>3. Given' = Given /\ DOMAIN db \subseteq Given
  BY TypedFacts DEF Given
<1>4. /\ why' \in [Given -> Causes]
      /\ \A g \in Given : why'[g] \in {"none", "written"} => why[g] \in {"none", "written"}
      /\ \A g \in Given : why'[g] = "none" => why[g] = "none" /\ truth[g] # path
  <2>1. \A g \in Given : why[g] \in Causes /\ "written" \in Causes
    BY TypedFacts DEF Causes
  <2>2. \A g \in Given : /\ Blame(g, "written") \in Causes /\ Blame(g, "written") # "none"
                         /\ Blame(g, "written") = "written" => why[g] \in {"none", "written"}
    BY <2>1, BlameIs
  <2>3. why' = [g \in Given |-> IF truth[g] = path THEN Blame(g, "written") ELSE why[g]]
    BY DEF Overwrite
  <2>. QED BY <2>1, <2>2, <2>3
<1>5. Typed'
  BY <1>1, <1>3, <1>4 DEF MtpServerInv, Typed
<1>6. Named' /\ Sized'
  <2>1. SUFFICES ASSUME NEW h \in DOMAIN db, why'[h] \in {"none", "written"}
                 PROVE  /\ truth[h] = db[h].path /\ db[h].path \in DOMAIN card'
                        /\ db[h].dir <=> card'[db[h].path] = Dir
                        /\ why'[h] = "none" /\ ~db[h].dir => card'[db[h].path] = db[h].size
    BY DEF Named, Sized
  <2>2. why[h] \in {"none", "written"} /\ (why'[h] = "none" => why[h] = "none" /\ truth[h] # path)
    BY <1>3, <1>4, <2>1
  <2>3. truth[h] = db[h].path /\ db[h].path \in DOMAIN card /\ (db[h].dir <=> card[db[h].path] = Dir)
    BY <2>2 DEF MtpServerInv, Named
  <2>4. why[h] = "none" /\ ~db[h].dir => card[db[h].path] = db[h].size
    BY DEF MtpServerInv, Sized
  <2>5. CASE db[h].path = path
    BY <1>1, <2>2, <2>3, <2>5
  <2>6. CASE db[h].path # path
    BY <1>1, <2>2, <2>3, <2>4, <2>6
  <2>. QED BY <2>5, <2>6
<1>7. Pending' /\ Edited'
  BY EditedStays DEF MtpServerInv, Pending
<1>8. Shown'
  <2>1. \A p, d : (Sees(d, p)' <=> Sees(d, p)) /\ (Shows(d, p)' <=> Shows(d, p))
    BY DEF Sees, Shows
  <2>. QED BY <1>1, <2>1 DEF MtpServerInv, Shown
<1>. QED
  BY <1>2, <1>5, <1>6, <1>7, <1>8 DEF MtpServerInv

\* The three ways a file is written in place.
LEMMA WritesInv ==
  ASSUME MtpServerInv, OutsideWrite \/ SendPartial \/ Truncate
  PROVE  MtpServerInv'
<1>1. CASE OutsideWrite
  <2>1. PICK p \in DOMAIN card \ Opened, size \in 0..MaxSize : IsFile(p) /\ Overwrite(p, size)
    BY <1>1 DEF OutsideWrite
  <2>2. /\ UNCHANGED <<db, counter, edits, truth, hidden>> /\ pend' = pend
        /\ dead' \in BOOLEAN /\ rare' \in 0..MaxRare
    BY <1>1, TypedFacts DEF OutsideWrite, MtpServerInv, Typed
  <2>. QED BY <2>1, <2>2, OverwriteInv
<1>2. CASE SendPartial
  <2>1. PICK path \in Opened : IsFile(path) /\ \E size \in card[path]..MaxSize : Overwrite(path, size)
    BY <1>2 DEF SendPartial
  <2>2. PICK size \in card[path]..MaxSize : Overwrite(path, size)
    BY <2>1
  <2>3. path \in DOMAIN card /\ size \in 0..MaxSize
    <3>1. path \in DOMAIN card /\ card[path] \in 0..MaxSize
      BY <2>1 DEF IsFile, MtpServerInv, Tree
    <3>. QED BY <3>1, TypedFacts
  <2>4. /\ UNCHANGED <<db, counter, edits, truth, hidden>> /\ pend' = None
        /\ dead' \in BOOLEAN /\ rare' \in 0..MaxRare
    BY <1>2 DEF SendPartial, Request, Answers, MtpServerInv, Typed
  <2>. QED BY <2>1, <2>2, <2>3, <2>4, OverwriteInv
<1>3. CASE Truncate
  <2>1. PICK path \in Opened, size \in 0..MaxSize : IsFile(path) /\ Overwrite(path, size)
    BY <1>3 DEF Truncate
  <2>2. path \in DOMAIN card
    BY <2>1 DEF IsFile
  <2>3. /\ UNCHANGED <<db, counter, edits, truth, hidden>> /\ pend' = None
        /\ dead' \in BOOLEAN /\ rare' \in 0..MaxRare
    BY <1>3 DEF Truncate, Request, Answers, MtpServerInv, Typed
  <2>. QED BY <2>1, <2>2, <2>3, OverwriteInv
<1>. QED
  BY <1>1, <1>2, <1>3

\* A file is opened for an edit.
LEMMA BeginEditInv ==
  ASSUME MtpServerInv, BeginEdit
  PROVE  MtpServerInv'
<1>1. /\ UNCHANGED <<card, db, counter, truth, why, hidden>> /\ UNCHANGED dead
      /\ pend' = None /\ rare < MaxRare /\ rare' = rare + 1
  BY DEF BeginEdit, Answers
<1>2. PICK h \in DOMAIN db \ DOMAIN edits : edits' = Put(edits, h, db[h].path)
  BY DEF BeginEdit
<1>3. db[h].path \in Paths /\ h \in Given
  BY EntryHas, TypedFacts DEF MtpServerInv, Typed
<1>4. /\ DOMAIN edits' = DOMAIN edits \cup {h} /\ edits'[h] = db[h].path
      /\ \A g \in DOMAIN edits : edits'[g] = edits[g]
  BY <1>2 DEF Put
<1>5. Edited'
  BY <1>1, <1>3, <1>4 DEF MtpServerInv, Edited, Given
<1>6. dead' \in BOOLEAN /\ rare' \in 0..MaxRare
  BY <1>1, TypedFacts DEF MtpServerInv, Typed
<1>. QED
  BY <1>1, <1>5, <1>6, Quiet

\* An edit ends, and its entry may get the size the file has now.
LEMMA EndEditInv ==
  ASSUME MtpServerInv, EndEdit
  PROVE  MtpServerInv'
<1>1. /\ pend' = None /\ UNCHANGED <<card, counter, dead, truth, hidden, rare>>
  BY DEF EndEdit, Answers
<1>2. PICK h \in DOMAIN edits, known \in BOOLEAN :
        /\ known => h \in DOMAIN db /\ IsFile(edits[h])
        /\ db' = IF known THEN [db EXCEPT ![h].size = card[edits[h]]] ELSE db
        /\ why' = IF known /\ why[h] = "written" THEN [why EXCEPT ![h] = "none"] ELSE why
        /\ edits' = Only(edits, DOMAIN edits \ {h})
  BY DEF EndEdit
<1>3. /\ DOMAIN edits' = DOMAIN edits \ {h} /\ \A g \in DOMAIN edits' : edits'[g] = edits[g]
  BY <1>2 DEF Only
<1>4. Given' = Given
  BY <1>1 DEF Given
<1>5. CASE ~known
  <2>1. db' = db /\ why' = why
    BY <1>2, <1>5
  <2>2. Edited'
    BY <1>3, <1>4, <2>1 DEF MtpServerInv, Edited
  <2>3. dead' \in BOOLEAN /\ rare' \in 0..MaxRare
    BY <1>1 DEF MtpServerInv, Typed
  <2>. QED BY <1>1, <2>1, <2>2, <2>3, Quiet
<1>6. CASE known
  <2>. DEFINE e == db[h]
              size == card[edits[h]]
  <2>1. /\ h \in DOMAIN db /\ h \in Given /\ edits[h] = e.path /\ e \in Entries
        /\ edits[h] \in DOMAIN card /\ size \in 0..MaxSize
    BY <1>2, <1>6, TypedFacts DEF MtpServerInv, Edited, Typed, IsFile, Tree
  <2>2. /\ DOMAIN db' = DOMAIN db /\ \A g \in DOMAIN db : g # h => db'[g] = db[g]
        /\ db'[h] = [e EXCEPT !.size = size]
    BY <1>2, <1>6, <2>1
  <2>3. card[e.path] = size
    BY <2>1
  <2>. HIDE DEF e, size
  <2>4. /\ db'[h] \in Entries /\ db'[h].dir = e.dir /\ db'[h].parent = e.parent
        /\ db'[h].storage = e.storage /\ db'[h].path = e.path
        /\ db'[h].size = size /\ db'[h].scanned = e.scanned
    <3>1. LET f == [e EXCEPT !.size = size] IN
            f \in Entries /\ f.dir = e.dir /\ f.parent = e.parent /\ f.storage = e.storage
            /\ f.path = e.path /\ f.size = size /\ f.scanned = e.scanned
      BY <2>1, EntryWith
    <3>. QED BY <2>2, <3>1
  <2>5. \A g \in DOMAIN db : /\ db'[g] \in Entries /\ db'[g].dir = db[g].dir
                             /\ db'[g].parent = db[g].parent /\ db'[g].storage = db[g].storage
                             /\ db'[g].path = db[g].path /\ db'[g].scanned = db[g].scanned
    BY <2>2, <2>4 DEF e, MtpServerInv, Typed
  <2>6. /\ why' \in [Given -> Causes]
        /\ \A g \in Given : /\ why'[g] \in {"none", "written"} <=> why[g] \in {"none", "written"}
                            /\ g # h => why'[g] = why[g]
    <3>1. why \in [Given -> Causes] /\ "none" \in Causes
      BY DEF MtpServerInv, Typed, Causes
    <3>2. why' = IF why[h] = "written" THEN [why EXCEPT ![h] = "none"] ELSE why
      BY <1>2, <1>6
    <3>. QED BY <2>1, <3>1, <3>2
  <2>7. Typed'
    BY <1>1, <1>4, <2>2, <2>5, <2>6 DEF MtpServerInv, Typed
  <2>8. DOMAIN db \subseteq Given
    BY TypedFacts
  <2>9. Named'
    BY <1>1, <2>2, <2>5, <2>6, <2>8 DEF MtpServerInv, Named
  <2>10. Sized'
    <3>1. SUFFICES ASSUME NEW g \in DOMAIN db, why'[g] = "none", ~db[g].dir
                   PROVE  card[db[g].path] = db'[g].size
      BY <1>1, <2>2, <2>5 DEF Sized
    <3>2. CASE g = h
      BY <2>3, <2>4, <3>2 DEF e
    <3>3. CASE g # h
      BY <2>2, <2>6, <2>8, <3>1, <3>3 DEF MtpServerInv, Sized
    <3>. QED BY <3>2, <3>3
  <2>11. Pending' /\ Tree(card')
    BY <1>1 DEF Pending, MtpServerInv
  <2>12. Shown'
    <3>1. \A p, d : d \in DOMAIN db \cup {0} /\ Sees(d, p)' => Sees(d, p)
      BY <1>1, <2>2, <2>5 DEF Sees
    <3>2. \A p, d : Shows(d, p) => Shows(d, p)'
      BY <1>1, <2>2, <2>5 DEF Shows
    <3>. QED BY <1>1, <2>2, <3>1, <3>2 DEF MtpServerInv, Shown
  <2>13. Edited'
    BY <1>3, <1>4, <2>2, <2>5 DEF MtpServerInv, Edited
  <2>. QED BY <2>7, <2>9, <2>10, <2>11, <2>12, <2>13 DEF MtpServerInv
<1>. QED
  BY <1>5, <1>6

-----------------------------------------------------------------------------
(* The theorems.                                                           *)

\* Every step keeps the invariant.
LEMMA NextInv ==
  ASSUME MtpServerInv, [Next]_vars
  PROVE  MtpServerInv'
<1>1. CASE UNCHANGED vars
  <2>1. /\ UNCHANGED <<card, db, counter, truth, why, hidden>> /\ UNCHANGED <<edits, rare>>
        /\ pend' = pend /\ dead' = dead
    BY <1>1 DEF vars
  <2>2. dead' \in BOOLEAN /\ rare' \in 0..MaxRare /\ Edited'
    BY <2>1, EditedStays DEF MtpServerInv, Typed
  <2>. QED BY <2>1, <2>2, Quiet
<1>2. CASE Next
  BY <1>2, OutsideRemoveInv, OutsideCreateInv, DescribeInv, ListInv, RestartInv, SendDirectoryInv,
     SendObjectInfoInv, SendObjectFailsInv, SendObjectInv, SendObjectUndoneInv, RenameInv, MoveInv,
     DeleteInv, WritesInv, BeginEditInv, EndEditInv DEF Next
<1>. QED
  BY <1>1, <1>2

\* The invariant the others follow from: the card is a tree, a handle behind whose back
\* nothing happened names its object by its true path and size, and every object of a
\* listed directory is shown by the handle that was given for it.
THEOREM ServerInvariance == Spec => []MtpServerInv
<1>1. Init => MtpServerInv
  BY InitInv
<1>2. MtpServerInv /\ [Next]_vars => MtpServerInv'
  BY NextInv
<1>. QED
  BY <1>1, <1>2, PTL DEF Spec

\* Types, and that what the card holds is a tree, through renames of directories.
THEOREM ServerTypeCorrect == Spec => []TypeOK
<1>1. MtpServerInv => TypeOK
  BY InvGives
<1>. QED
  BY <1>1, ServerInvariance, PTL

\* A handle of the database names the very object it was given out for.
THEOREM HandlesAreTrue == Spec => []HandleNamesItsObject
<1>1. MtpServerInv => HandleNamesItsObject
  BY InvGives
<1>. QED
  BY <1>1, ServerInvariance, PTL

\* A listed directory shows every object in it that did not come there behind the
\* database's back.
THEOREM ListingsAreComplete == Spec => []ListingComplete
<1>1. MtpServerInv => ListingComplete
  BY InvGives
<1>. QED
  BY <1>1, ServerInvariance, PTL

\* A download sends what its header announces.
THEOREM PromisesAreKept == Spec => []PromiseKept
<1>1. MtpServerInv => PromiseKept
  BY InvGives
<1>. QED
  BY <1>1, ServerInvariance, PTL
=============================================================================
