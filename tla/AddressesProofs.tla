---------------------------- MODULE AddressesProofs ----------------------------
(***************************************************************************)
(* Lemmas about the address helpers of Addresses.tla.  Dedup is a          *)
(* recursive function over the indices of a slice; what it returns is      *)
(* reasoned about by induction on the index, done here as a least          *)
(* counterexample, which the well-foundedness of < on Nat provides.        *)
(***************************************************************************)
EXTENDS Addresses, WellFoundedInduction, TLAPS

\* Every non-empty set of naturals has a least element.
LEMMA LeastNat ==
    ASSUME NEW T \in SUBSET Nat, T # {}
    PROVE  \E n \in T : \A m \in T : ~(m < n)
<1>1. \E x \in T : \A y \in T : ~(<<y, x>> \in OpToRel(<, Nat))
  BY NatLessThanWellFounded, WFMin
<1>2. QED
  BY <1>1, Zenon DEF OpToRel

\* One step of Dedup: the i-th element is kept unless already kept.
DedupStep(s, v, i) == IF s[i] \in AddrSet(v) THEN v ELSE Append(v, s[i])

\* The functions on 0..k that follow Dedup's recursion up to k.
DedupPrefix(s, g, k) ==
    \A i \in 0..k : g[i] = IF i = 0 THEN <<>> ELSE DedupStep(s, g[i - 1], i)

\* The recursive function Dedup's LET defines.
DedupFn(s) ==
    CHOOSE g : g = [i \in 0..Len(s) |-> IF i = 0 THEN <<>>
                                        ELSE DedupStep(s, g[i - 1], i)]

LEMMA DedupUnfold ==
    ASSUME NEW s PROVE Dedup(s) = DedupFn(s)[Len(s)]
BY DEF Dedup, DedupFn, DedupStep

\* A step of Dedup keeps a sequence over S one.
LEMMA DedupStepType ==
    ASSUME NEW S, NEW s \in Seq(S), NEW v \in Seq(S), NEW i \in 1..Len(s)
    PROVE  DedupStep(s, v, i) \in Seq(S)
BY DEF DedupStep

\* For every k up to Len(s), some function on 0..k into Seq(S) follows the
\* recursion up to k.
LEMMA DedupPrefixExists ==
    ASSUME NEW S, NEW s \in Seq(S)
    PROVE  \A k \in 0..Len(s) : \E g \in [0..k -> Seq(S)] : DedupPrefix(s, g, k)
<1> DEFINE T == {k \in 0..Len(s) : ~\E g \in [0..k -> Seq(S)] : DedupPrefix(s, g, k)}
<1> SUFFICES ASSUME T # {} PROVE FALSE
  OBVIOUS
<1>0. T \in SUBSET Nat
  OBVIOUS
<1>1. PICK k \in T : \A m \in T : ~(m < k)
  BY <1>0, LeastNat
<1>2. CASE k = 0
  <2> DEFINE h == [i \in 0..0 |-> <<>>]
  <2>1. h \in [0..0 -> Seq(S)] /\ DedupPrefix(s, h, 0)
    BY DEF DedupPrefix
  <2>2. QED
    BY <1>1, <1>2, <2>1
<1>3. CASE k # 0
  <2>1. k - 1 \in 0..Len(s) /\ k - 1 < k /\ k \in 1..Len(s)
    BY <1>1, <1>3
  <2>2. PICK g \in [0..k - 1 -> Seq(S)] : DedupPrefix(s, g, k - 1)
    BY <1>1, <2>1
  <2> DEFINE h == [i \in 0..k |-> IF i < k THEN g[i] ELSE DedupStep(s, g[k - 1], k)]
  <2>3. DedupStep(s, g[k - 1], k) \in Seq(S)
    BY <2>1, <2>2, DedupStepType
  <2>4. h \in [0..k -> Seq(S)]
    BY <2>2, <2>3
  <2>5. ASSUME NEW i \in 0..k
        PROVE  h[i] = IF i = 0 THEN <<>> ELSE DedupStep(s, h[i - 1], i)
    <3>1. CASE i < k
      BY <2>2, <3>1, <2>1 DEF DedupPrefix
    <3>2. CASE i = k
      BY <3>2, <1>3, <2>1
    <3>3. QED
      BY <3>1, <3>2
  <2>6. DedupPrefix(s, h, k)
    BY <2>5 DEF DedupPrefix
  <2>7. QED
    BY <1>1, <2>4, <2>6
<1>4. QED
  BY <1>2, <1>3

\* Every function on 0..Len(s) following the recursion is into Seq(S).
LEMMA DedupPrefixType ==
    ASSUME NEW S, NEW s \in Seq(S), NEW g, DedupPrefix(s, g, Len(s))
    PROVE  \A i \in 0..Len(s) : g[i] \in Seq(S)
<1> DEFINE T == {i \in 0..Len(s) : g[i] \notin Seq(S)}
<1> SUFFICES ASSUME T # {} PROVE FALSE
  OBVIOUS
<1>0. T \in SUBSET Nat
  OBVIOUS
<1>1. PICK k \in T : \A m \in T : ~(m < k)
  BY <1>0, LeastNat
<1>2. CASE k = 0
  <2>1. 0 \in 0..Len(s)
    OBVIOUS
  <2>2. g[0] = <<>>
    BY <2>1 DEF DedupPrefix, DedupStep
  <2>3. <<>> \in Seq(S)
    OBVIOUS
  <2>4. QED
    BY <1>1, <1>2, <2>2, <2>3
<1>3. CASE k # 0
  <2>1. k - 1 \in 0..Len(s) /\ k - 1 < k /\ k \in 1..Len(s)
    BY <1>1, <1>3
  <2>2. g[k - 1] \in Seq(S)
    BY <1>1, <2>1
  <2>3. g[k] = DedupStep(s, g[k - 1], k)
    BY <1>3, <2>1 DEF DedupPrefix
  <2>4. QED
    BY <1>1, <2>1, <2>2, <2>3, DedupStepType
<1>4. QED
  BY <1>2, <1>3

\* The function Dedup chooses follows the recursion and is into Seq(S).
LEMMA DedupFnPrefix ==
    ASSUME NEW S, NEW s \in Seq(S)
    PROVE  /\ DedupPrefix(s, DedupFn(s), Len(s))
           /\ \A i \in 0..Len(s) : DedupFn(s)[i] \in Seq(S)
<1> DEFINE F == [i \in 0..Len(s) |-> IF i = 0 THEN <<>> ELSE DedupStep(s, DedupFn(s)[i - 1], i)]
<1>1. PICK g \in [0..Len(s) -> Seq(S)] : DedupPrefix(s, g, Len(s))
  BY DedupPrefixExists
<1>2. g = [i \in 0..Len(s) |-> IF i = 0 THEN <<>> ELSE DedupStep(s, g[i - 1], i)]
  BY <1>1 DEF DedupPrefix
<1>3. DedupFn(s) = F
  BY <1>2 DEF DedupFn
<1>4. DedupPrefix(s, DedupFn(s), Len(s))
  BY <1>3 DEF DedupPrefix
<1>5. QED
  BY <1>4, DedupPrefixType

\* Dedup of a sequence over S is a sequence over S.
LEMMA DedupType ==
    ASSUME NEW S, NEW s \in Seq(S)
    PROVE  Dedup(s) \in Seq(S)
BY DedupFnPrefix, DedupUnfold

\* Appending an element adds it to the elements of a slice.
LEMMA AppendAddrSet ==
    ASSUME NEW S, NEW v \in Seq(S), NEW e \in S
    PROVE  AddrSet(Append(v, e)) = AddrSet(v) \cup {e}
<1>1. DOMAIN Append(v, e) = 1..(Len(v) + 1) /\ DOMAIN v = 1..Len(v)
  OBVIOUS
<1>2. \A i \in 1..Len(v) : Append(v, e)[i] = v[i]
  OBVIOUS
<1>3. Append(v, e)[Len(v) + 1] = e
  OBVIOUS
<1>4. QED
  BY <1>1, <1>2, <1>3 DEF AddrSet

(***************************************************************************)
(* What Dedup has kept after the first k elements of s: exactly those      *)
(* elements.                                                                *)
(***************************************************************************)
DedupKept(s, v, k) == AddrSet(v) = {s[i] : i \in 1..k}

\* A step of Dedup keeps DedupKept.
LEMMA DedupKeptStep ==
    ASSUME NEW S, NEW s \in Seq(S), NEW k \in 1..Len(s), NEW v \in Seq(S),
           DedupKept(s, v, k - 1)
    PROVE  DedupKept(s, DedupStep(s, v, k), k)
<1>1. {s[i] : i \in 1..k} = {s[i] : i \in 1..(k - 1)} \cup {s[k]}
  OBVIOUS
<1>2. CASE s[k] \in AddrSet(v)
  <2>1. DedupStep(s, v, k) = v
    BY <1>2 DEF DedupStep
  <2>2. QED
    BY <1>1, <1>2, <2>1 DEF DedupKept
<1>3. CASE s[k] \notin AddrSet(v)
  <2>1. DedupStep(s, v, k) = Append(v, s[k])
    BY <1>3 DEF DedupStep
  <2>2. AddrSet(Append(v, s[k])) = AddrSet(v) \cup {s[k]}
    BY AppendAddrSet
  <2>3. QED
    BY <1>1, <2>1, <2>2 DEF DedupKept
<1>4. QED
  BY <1>2, <1>3

\* After every k elements, Dedup has kept what DedupKept says.
LEMMA DedupKeptAll ==
    ASSUME NEW S, NEW s \in Seq(S)
    PROVE  \A k \in 0..Len(s) : DedupKept(s, DedupFn(s)[k], k)
<1> DEFINE g == DedupFn(s)
           T == {k \in 0..Len(s) : ~DedupKept(s, g[k], k)}
<1> SUFFICES ASSUME T # {} PROVE FALSE
  OBVIOUS
<1>0. T \in SUBSET Nat
  OBVIOUS
<1>1. PICK k \in T : \A m \in T : ~(m < k)
  BY <1>0, LeastNat
<1>2. DedupPrefix(s, g, Len(s)) /\ \A i \in 0..Len(s) : g[i] \in Seq(S)
  BY DedupFnPrefix
<1>3. CASE k = 0
  <2>1. g[0] = <<>>
    BY <1>2 DEF DedupPrefix
  <2>2. DedupKept(s, <<>>, 0)
    BY DEF DedupKept, AddrSet
  <2>3. QED
    BY <1>1, <1>3, <2>1, <2>2
<1>4. CASE k # 0
  <2>1. k - 1 \in 0..Len(s) /\ k - 1 < k /\ k \in 1..Len(s)
    BY <1>1, <1>4
  <2>2. DedupKept(s, g[k - 1], k - 1)
    BY <1>1, <2>1
  <2>3. g[k] = DedupStep(s, g[k - 1], k)
    BY <1>2, <1>4, <2>1 DEF DedupPrefix
  <2>4. QED
    BY <1>1, <1>2, <2>1, <2>2, <2>3, DedupKeptStep
<1>5. QED
  BY <1>3, <1>4

\* Dedup drops repeats only: its result has the elements of s.
LEMMA DedupElements ==
    ASSUME NEW S, NEW s \in Seq(S)
    PROVE  AddrSet(Dedup(s)) = AddrSet(s)
<1>1. DedupKept(s, Dedup(s), Len(s))
  BY DedupKeptAll, DedupUnfold
<1>2. AddrSet(s) = {s[i] : i \in 1..Len(s)}
  BY DEF AddrSet
<1>3. QED
  BY <1>1, <1>2 DEF DedupKept

\* cfgutil.NormalizeAddress keeps an address an address.
LEMMA NormalizeAddressType ==
    ASSUME NEW a \in Address, NEW p \in Ports
    PROVE  NormalizeAddress(a, p) \in Address
BY DEF NormalizeAddress, JoinHostPort, Address

\* cfgutil.NormalizeAddresses of a slice of addresses is a slice of addresses.
LEMMA NormalizeAddressesType ==
    ASSUME NEW s \in Seq(Address), NEW p \in Ports
    PROVE  NormalizeAddresses(s, p) \in Seq(Address)
<1>1. [i \in DOMAIN s |-> NormalizeAddress(s[i], p)] \in Seq(Address)
  <2>1. \A i \in DOMAIN s : NormalizeAddress(s[i], p) \in Address
    BY NormalizeAddressType
  <2>2. QED
    BY <2>1
<1>2. QED
  BY <1>1, DedupType DEF NormalizeAddresses

\* A well-formed address normalizes to one with a port.
LEMMA NormalizeValid ==
    ASSUME NEW a \in Address, a # Malformed, NEW p \in Ports
    PROVE  NormalizeAddress(a, p) \in HostPort
BY DEF NormalizeAddress, JoinHostPort, Address, HostPort

(***************************************************************************)
(* cfgutil.NormalizeAddresses of a slice without a malformed address      *)
(* gives a slice of addresses that all carry a port: the default port is  *)
(* added to each address without one, and Dedup keeps only elements of   *)
(* the normalized slice.                                                  *)
(***************************************************************************)
LEMMA NormalizedListeners ==
    ASSUME NEW s \in Seq(Address), AddrsValid(s), NEW p \in Ports
    PROVE  /\ NormalizeAddresses(s, p) \in Seq(Address)
           /\ AddrSet(NormalizeAddresses(s, p)) \subseteq HostPort
<1> DEFINE m == [i \in DOMAIN s |-> NormalizeAddress(s[i], p)]
<1>1. m \in Seq(HostPort)
  <2>1. \A i \in DOMAIN s : s[i] \in Address /\ s[i] # Malformed
    BY DEF AddrsValid, AddrSet
  <2>2. \A i \in DOMAIN s : NormalizeAddress(s[i], p) \in HostPort
    BY <2>1, NormalizeValid
  <2>3. QED
    BY <2>2
<1>2. AddrSet(Dedup(m)) = AddrSet(m)
  BY <1>1, DedupElements
<1>3. AddrSet(m) \subseteq HostPort
  BY <1>1 DEF AddrSet
<1>4. QED
  BY <1>2, <1>3, NormalizeAddressesType DEF NormalizeAddresses
=============================================================================
