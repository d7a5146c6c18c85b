------------------------ MODULE ProactiveChecksProofs ------------------------
(***************************************************************************)
(* For every set of documents and any number of requests, timers and       *)
(* installers: which candidates a check and a delegation reach.            *)
(***************************************************************************)
EXTENDS ProactiveChecks, FiniteSetTheorems, TLAPS

-----------------------------------------------------------------------------
(***************************************************************************)
(* Sequences.  A set of positions is ranked without gaps, which makes Pick *)
(* well defined and gives every sequence a first and a last position of    *)
(* any kind.                                                               *)
(***************************************************************************)

(* The ranks of a set of n numbers are 0 to n - 1, in the numbers' order. *)
LEMMA RanksAreDense ==
  ASSUME NEW I \in SUBSET Nat, IsFiniteSet(I)
  PROVE  /\ Cardinality(I) \in Nat
         /\ \A i \in I : Rank(I, i) \in 0..(Cardinality(I) - 1)
         /\ \A i, j \in I : i < j => Rank(I, i) < Rank(I, j)
         /\ \A k \in 0..(Cardinality(I) - 1) : \E i \in I : Rank(I, i) = k
<1>1. Cardinality(I) \in Nat
  BY FS_CardinalityType
<1>2. ASSUME NEW i \in I
      PROVE  Rank(I, i) \in 0..(Cardinality(I) - 1)
  <2>1. {j \in I : j < i} \in SUBSET I /\ {j \in I : j < i} # I
    OBVIOUS
  <2>2. /\ IsFiniteSet({j \in I : j < i})
        /\ Cardinality({j \in I : j < i}) <= Cardinality(I)
        /\ Cardinality({j \in I : j < i}) # Cardinality(I)
    BY <2>1, FS_Subset
  <2>3. Cardinality({j \in I : j < i}) \in Nat
    BY <2>2, FS_CardinalityType
  <2> QED
    BY <1>1, <2>2, <2>3 DEF Rank
<1>3. ASSUME NEW i \in I, NEW j \in I, i < j
      PROVE  Rank(I, i) < Rank(I, j)
  <2> DEFINE A == {k \in I : k < i}
             B == {k \in I : k < j}
  <2>1. A \in SUBSET B /\ B \in SUBSET I
    <3>1. i \in Nat /\ j \in Nat /\ \A k \in I : k \in Nat
      OBVIOUS
    <3>2. \A k \in I : k < i => k < j
      BY <1>3, <3>1
    <3> QED
      BY <3>2
  <2>2. i \in B /\ i \notin A
    BY <1>3
  <2>3. IsFiniteSet(B)
    BY <2>1, FS_Subset
  <2>4. IsFiniteSet(A) /\ Cardinality(A) <= Cardinality(B) /\ Cardinality(A) # Cardinality(B)
    BY <2>1, <2>2, <2>3, FS_Subset
  <2>5. Cardinality(A) \in Nat /\ Cardinality(B) \in Nat
    BY <2>3, <2>4, FS_CardinalityType
  <2> QED
    BY <2>4, <2>5 DEF Rank
<1>4. ASSUME NEW k \in 0..(Cardinality(I) - 1)
      PROVE  \E i \in I : Rank(I, i) = k
  <2> DEFINE K == 0..(Cardinality(I) - 1)
             rank == [i \in I |-> Rank(I, i)]
  <2>1. IsFiniteSet(K) /\ Cardinality(K) = Cardinality(I)
    BY <1>1, FS_Interval
  <2>2. rank \in Injection(I, K)
    <3>1. rank \in [I -> K]
      BY <1>2
    <3>2. ASSUME NEW i \in I, NEW j \in I, i # j PROVE rank[i] # rank[j]
      <4>1. i \in Nat /\ j \in Nat /\ Rank(I, i) \in Int /\ Rank(I, j) \in Int
        BY <1>2
      <4>2. (i < j => Rank(I, i) < Rank(I, j)) /\ (j < i => Rank(I, j) < Rank(I, i))
        BY <1>3
      <4> QED
        BY <3>2, <4>1, <4>2
    <3> HIDE DEF rank
    <3> QED
      BY <3>1, <3>2 DEF Injection, IsInjective
  <2>3. rank \in Surjection(I, K)
    BY <2>1, <2>2, FS_Injection
  <2> QED
    BY <2>3 DEF Surjection
<1> QED
  BY <1>1, <1>2, <1>3, <1>4

(* Positions are a finite set of numbers. *)
LEMMA PositionsAreFinite ==
  ASSUME NEW n \in Nat, NEW I \in SUBSET (1..n)
  PROVE  I \in SUBSET Nat /\ IsFiniteSet(I)
<1>1. I \in SUBSET Nat
  OBVIOUS
<1>2. IsFiniteSet(1..n)
  BY FS_Interval
<1>3. IsFiniteSet(I)
  BY <1>2, FS_Subset
<1> QED
  BY <1>1, <1>3

(* A set of positions that is not empty has a least and a greatest one. *)
LEMMA FirstAndLast ==
  ASSUME NEW n \in Nat, NEW I \in SUBSET (1..n), I # {}
  PROVE  /\ \E i \in I : \A j \in I : i <= j
         /\ \E i \in I : \A j \in I : i >= j
<1>1. I \in SUBSET Nat /\ IsFiniteSet(I)
  BY PositionsAreFinite
<1>2. Cardinality(I) \in Nat \ {0}
  BY <1>1, FS_CardinalityType, FS_EmptySet
<1>3. ASSUME NEW i \in I, NEW j \in I, j < i PROVE Rank(I, j) < Rank(I, i)
  BY <1>1, <1>3, RanksAreDense
<1>4. \A i \in I : Rank(I, i) \in 0..(Cardinality(I) - 1)
  BY <1>1, RanksAreDense
<1>5. \A k \in 0..(Cardinality(I) - 1) : \E i \in I : Rank(I, i) = k
  BY <1>1, RanksAreDense
<1>6. PICK first \in I : Rank(I, first) = 0
  BY <1>2, <1>5
<1>7. PICK last \in I : Rank(I, last) = Cardinality(I) - 1
  BY <1>2, <1>5
<1>8. ASSUME NEW j \in I PROVE first <= j /\ last >= j
  <2>1. first \in Nat /\ last \in Nat /\ j \in Nat /\ Rank(I, j) \in 0..(Cardinality(I) - 1)
    BY <1>1, <1>4
  <2>2. (j < first => Rank(I, j) < Rank(I, first)) /\ (last < j => Rank(I, last) < Rank(I, j))
    BY <1>3
  <2> QED
    BY <1>2, <1>6, <1>7, <2>1, <2>2
<1> QED
  BY <1>8

(* One sequence is another one of which some entries were left out. *)
Within(t, s) ==
  \E place \in [DOMAIN t -> DOMAIN s] :
    /\ \A k \in DOMAIN t : t[k] = s[place[k]]
    /\ \A k, l \in DOMAIN t : k < l => place[k] < place[l]

LEMMA WithinIsTransitive ==
  ASSUME NEW s, NEW t, NEW u, Within(t, s), Within(u, t)
  PROVE  Within(u, s)
<1>1. PICK f \in [DOMAIN t -> DOMAIN s] :
        /\ \A k \in DOMAIN t : t[k] = s[f[k]]
        /\ \A k, l \in DOMAIN t : k < l => f[k] < f[l]
  BY DEF Within
<1>2. PICK g \in [DOMAIN u -> DOMAIN t] :
        /\ \A k \in DOMAIN u : u[k] = t[g[k]]
        /\ \A k, l \in DOMAIN u : k < l => g[k] < g[l]
  BY DEF Within
<1> DEFINE h == [k \in DOMAIN u |-> f[g[k]]]
<1>3. h \in [DOMAIN u -> DOMAIN s] /\ \A k \in DOMAIN u : h[k] = f[g[k]] /\ g[k] \in DOMAIN t
  OBVIOUS
<1> HIDE DEF h
<1>4. \A k \in DOMAIN u : u[k] = s[h[k]]
  BY <1>1, <1>2, <1>3
<1>5. \A k, l \in DOMAIN u : k < l => h[k] < h[l]
  BY <1>1, <1>2, <1>3
<1> QED
  BY <1>3, <1>4, <1>5 DEF Within

(* Pick keeps what stands at the positions, in its order, and nothing else. *)
LEMMA PickProperties ==
  ASSUME NEW T, NEW s \in Seq(T), NEW I \in SUBSET (DOMAIN s)
  PROVE  /\ Pick(s, I) \in Seq(T)
         /\ ToSet(Pick(s, I)) = {s[i] : i \in I}
         /\ Within(Pick(s, I), s)
<1>1. DOMAIN s = 1..Len(s) /\ Len(s) \in Nat /\ \A i \in DOMAIN s : s[i] \in T
  OBVIOUS
<1>2. I \in SUBSET Nat /\ IsFiniteSet(I)
  BY <1>1, PositionsAreFinite
<1>3. Cardinality(I) \in Nat
  BY <1>2, FS_CardinalityType
<1> DEFINE n == Cardinality(I)
           at(k) == CHOOSE i \in I : Rank(I, i) = k - 1
<1>4. ASSUME NEW k \in 1..n PROVE at(k) \in I /\ Rank(I, at(k)) = k - 1
  <2>1. k - 1 \in 0..(n - 1)
    BY <1>3
  <2>2. \E i \in I : Rank(I, i) = k - 1
    BY <1>2, <2>1, RanksAreDense
  <2> QED
    BY <2>2
<1>5. ASSUME NEW i \in I PROVE \E k \in 1..n : at(k) = i
  <2>1. Rank(I, i) \in 0..(n - 1)
    BY <1>2, RanksAreDense
  <2> DEFINE k == Rank(I, i) + 1
  <2>2. k \in 1..n /\ k - 1 = Rank(I, i)
    BY <1>3, <2>1
  <2>3. at(k) \in I /\ Rank(I, at(k)) = Rank(I, i)
    BY <1>4, <2>2
  <2>4. at(k) \in Nat /\ i \in Nat /\ Rank(I, i) \in Int
    BY <1>2, <2>1, <2>3
  <2>5. (at(k) < i => Rank(I, at(k)) < Rank(I, i)) /\ (i < at(k) => Rank(I, i) < Rank(I, at(k)))
    BY <1>2, <2>3, RanksAreDense
  <2>6. at(k) = i
    BY <2>3, <2>4, <2>5
  <2> QED
    BY <2>2, <2>6
<1>6. Pick(s, I) = [k \in 1..n |-> s[at(k)]]
  BY DEF Pick
<1> HIDE DEF at, n
<1>7. Pick(s, I) \in [1..n -> T]
  BY <1>1, <1>4, <1>6
<1>8. Pick(s, I) \in Seq(T)
  BY <1>3, <1>7 DEF n
<1>9. DOMAIN Pick(s, I) = 1..n /\ \A k \in 1..n : Pick(s, I)[k] = s[at(k)]
  BY <1>6
<1>10. ToSet(Pick(s, I)) = {s[i] : i \in I}
  BY <1>4, <1>5, <1>9 DEF ToSet
<1>11. Within(Pick(s, I), s)
  <2> DEFINE place == [k \in 1..n |-> at(k)]
  <2>1. place \in [1..n -> DOMAIN s] /\ \A k \in 1..n : place[k] = at(k)
    BY <1>4
  <2>2. ASSUME NEW k \in 1..n, NEW l \in 1..n, k < l PROVE at(k) < at(l)
    <3>1. /\ at(k) \in I /\ at(l) \in I /\ at(k) \in Nat /\ at(l) \in Nat
          /\ Rank(I, at(k)) = k - 1 /\ Rank(I, at(l)) = l - 1
      BY <1>2, <1>4
    <3>2. k \in Int /\ l \in Int /\ k - 1 < l - 1
      BY <2>2
    <3>3. at(l) < at(k) => Rank(I, at(l)) < Rank(I, at(k))
      BY <1>2, <3>1, RanksAreDense
    <3>4. at(k) # at(l) /\ ~ at(l) < at(k)
      BY <3>1, <3>2, <3>3
    <3> QED
      BY <3>1, <3>4
  <2> HIDE DEF place
  <2>3. place \in [DOMAIN Pick(s, I) -> DOMAIN s]
    BY <1>9, <2>1
  <2>4. \A k \in DOMAIN Pick(s, I) : Pick(s, I)[k] = s[place[k]]
    BY <1>9, <2>1
  <2>5. \A k, l \in DOMAIN Pick(s, I) : k < l => place[k] < place[l]
    BY <1>9, <2>1, <2>2
  <2> QED
    BY <2>3, <2>4, <2>5 DEF Within
<1> QED
  BY <1>8, <1>10, <1>11

(* What is kept of a sequence. *)
LEMMA KeptProperties ==
  ASSUME NEW T, NEW s \in Seq(T), NEW S
  PROVE  /\ Kept(s, S) \in Seq(T)
         /\ ToSet(Kept(s, S)) = ToSet(s) \cap S
         /\ Within(Kept(s, S), s)
<1>1. {i \in DOMAIN s : s[i] \in S} \in SUBSET (DOMAIN s)
  OBVIOUS
<1>2. /\ Kept(s, S) \in Seq(T)
      /\ ToSet(Kept(s, S)) = {s[i] : i \in {j \in DOMAIN s : s[j] \in S}}
      /\ Within(Kept(s, S), s)
  BY <1>1, PickProperties DEF Kept
<1> QED
  BY <1>2 DEF ToSet

(* A dictionary's keys are the names it was built from. *)
LEMMA DistinctProperties ==
  ASSUME NEW T, NEW names \in Seq(T)
  PROVE  /\ Distinct(names) \in Seq(T) /\ ToSet(Distinct(names)) = ToSet(names)
         /\ Within(Distinct(names), names)
<1> DEFINE first == {i \in DOMAIN names : \A j \in 1..(i - 1) : names[j] # names[i]}
<1>1. /\ Distinct(names) \in Seq(T) /\ ToSet(Distinct(names)) = {names[i] : i \in first}
      /\ Within(Distinct(names), names)
  <2>1. first \in SUBSET (DOMAIN names)
    OBVIOUS
  <2> QED
    BY <2>1, PickProperties DEF Distinct
<1>2. ASSUME NEW k \in DOMAIN names PROVE \E i \in first : names[i] = names[k]
  <2> DEFINE I == {i \in 1..Len(names) : names[i] = names[k]}
  <2>1. Len(names) \in Nat /\ DOMAIN names = 1..Len(names)
    OBVIOUS
  <2>2. PICK i \in I : \A j \in I : i <= j
    <3>1. I \in SUBSET (1..Len(names)) /\ k \in I
      BY <2>1
    <3> QED
      BY <2>1, <3>1, FirstAndLast
  <2>3. ASSUME NEW j \in 1..(i - 1) PROVE names[j] # names[i]
    <3>1. i \in 1..Len(names) /\ j \in 1..Len(names) /\ j < i
      BY <2>1, <2>2
    <3> QED
      BY <2>2, <3>1
  <2> QED
    BY <2>1, <2>2, <2>3
<1>3. ToSet(Distinct(names)) = ToSet(names)
  <2>1. \A i \in first : i \in DOMAIN names
    OBVIOUS
  <2> HIDE DEF first
  <2> QED
    BY <1>1, <1>2, <2>1 DEF ToSet
<1> QED
  BY <1>1, <1>3

-----------------------------------------------------------------------------
(***************************************************************************)
(* Configurations.                                                         *)
(***************************************************************************)

CandidateType == [name : CandidateNames, local : BOOLEAN, valid : BOOLEAN]
ChainType == [task : STRING, names : Seq(CandidateNames), explicit : BOOLEAN,
              hosted : BOOLEAN, valid : BOOLEAN]

(* Only what is valid is loaded. *)
LEMMA ValidProperties ==
  ASSUME NEW T, NEW entries \in Seq(T)
  PROVE  /\ Valid(entries) \in Seq(T)
         /\ \A i \in DOMAIN Valid(entries) : Valid(entries)[i].valid
<1>1. /\ Valid(entries) \in Seq(T)
      /\ ToSet(Valid(entries)) = ToSet(entries) \cap {e \in ToSet(entries) : e.valid}
  BY KeptProperties DEF Valid
<1> QED
  BY <1>1 DEF ToSet

LEMMA ConfigsAreValid ==
  /\ EmptyConfig \in Configs
  /\ Off \notin Configs
  /\ \A config \in Configs : /\ config \in Toml
                             /\ \A i \in DOMAIN config.candidates : config.candidates[i].valid
<1>1. EmptyConfig = Load(Missing) /\ Missing \in Documents \ {Invalid}
  BY DocumentsAssumption DEF Load
<1>2. ASSUME NEW config \in Configs
      PROVE  /\ config \in Toml
             /\ \A i \in DOMAIN config.candidates : config.candidates[i].valid
  <2>1. PICK d \in Documents \ {Invalid} : config = Load(d)
    BY DEF Configs
  <2>2. CASE d = Missing
    BY <2>1, <2>2 DEF Load, EmptyConfig, Toml
  <2>3. CASE d # Missing
    <3>1. d \in Toml
      BY <2>3, DocumentsAssumption
    <3>2. /\ d.candidates \in Seq(CandidateType) /\ d.chains \in Seq(ChainType)
          /\ d.remote \in BOOLEAN
          /\ d = [candidates |-> d.candidates, chains |-> d.chains, remote |-> d.remote]
      BY <3>1 DEF Toml, CandidateType, ChainType
    <3>3. config = [candidates |-> Valid(d.candidates), chains |-> Valid(d.chains),
                    remote |-> d.remote]
      BY <2>1, <2>3, <3>2 DEF Load
    <3>4. /\ Valid(d.candidates) \in Seq(CandidateType)
          /\ \A i \in DOMAIN Valid(d.candidates) : Valid(d.candidates)[i].valid
          /\ Valid(d.chains) \in Seq(ChainType)
      BY <3>2, ValidProperties
    <3> QED
      BY <3>2, <3>3, <3>4 DEF Toml, CandidateType, ChainType
  <2> QED
    BY <2>2, <2>3
<1> QED
  BY <1>1, <1>2, OffAssumption DEF Configs

(* The registry says of a name what its last entry says. *)
LEMMA RegistryIsLast ==
  ASSUME NEW config \in Configs
  PROVE  /\ DOMAIN Registry(config) = Names(config)
         /\ \A n : n \in LocalIn(Registry(config)) <=> IsLocal(config, n)
<1> DEFINE cs == config.candidates
           I(n) == {i \in 1..Len(cs) : cs[i].name = n}
<1>1. /\ cs \in Seq(CandidateType) /\ Len(cs) \in Nat /\ DOMAIN cs = 1..Len(cs)
      /\ \A i \in 1..Len(cs) : cs[i] \in CandidateType /\ cs[i].valid
  <2>1. cs \in Seq(CandidateType) /\ \A i \in DOMAIN cs : cs[i].valid
    BY ConfigsAreValid DEF Toml, CandidateType
  <2> QED
    BY <2>1
<1>2. \A n : n \in Names(config) <=> I(n) # {}
  BY <1>1 DEF Names, ToSet
<1>3. ASSUME NEW n \in Names(config)
      PROVE  \E i \in I(n) : /\ \A j \in I(n) : j <= i
                             /\ Registry(config)[n] = cs[i].local
  <2>1. PICK i \in I(n) : \A j \in I(n) : i >= j
    <3>1. I(n) \in SUBSET (1..Len(cs)) /\ I(n) # {}
      BY <1>2
    <3> QED
      BY <1>1, <3>1, FirstAndLast
  <2>2. SelectLastInSeq(cs, LAMBDA entry : entry.name = n) = Max(I(n))
    BY <1>2 DEF SelectLastInSeq
  <2>3. Max(I(n)) \in I(n) /\ \A j \in I(n) : Max(I(n)) >= j
    BY <2>1 DEF Max
  <2>4. Registry(config)[n] = cs[Max(I(n))].local
    BY <2>2 DEF Registry
  <2> QED
    BY <1>1, <2>3, <2>4
<1>4. ASSUME NEW n
      PROVE  n \in LocalIn(Registry(config)) <=> IsLocal(config, n)
  <2>1. CASE n \in Names(config)
    <3>1. PICK i \in I(n) : (\A j \in I(n) : j <= i) /\ Registry(config)[n] = cs[i].local
      BY <1>3, <2>1
    <3>2. n \in LocalIn(Registry(config)) <=> cs[i].local
      BY <2>1, <3>1 DEF LocalIn, Registry
    <3>3. cs[i].local => IsLocal(config, n)
      <4>1. cs[i].local => cs[i] = [name |-> n, local |-> TRUE, valid |-> TRUE]
        BY <1>1, <3>1 DEF CandidateType
      <4> QED
        BY <1>1, <3>1, <4>1 DEF IsLocal
    <3>4. IsLocal(config, n) => cs[i].local
      <4> SUFFICES ASSUME NEW k \in DOMAIN cs,
                          cs[k] = [name |-> n, local |-> TRUE, valid |-> TRUE],
                          \A j \in DOMAIN cs : cs[j].name = n => j <= k
                   PROVE  cs[i].local
        BY DEF IsLocal
      <4>1. i <= k /\ k <= i /\ i \in Nat /\ k \in Nat
        BY <1>1, <3>1
      <4> QED
        BY <4>1
    <3> QED
      BY <3>2, <3>3, <3>4
  <2>2. CASE n \notin Names(config)
    <3>1. ~ IsLocal(config, n)
      BY <1>1, <2>2 DEF IsLocal, Names, ToSet
    <3> QED
      BY <2>2, <3>1 DEF LocalIn, Registry
  <2> QED
    BY <2>1, <2>2
<1> QED
  BY <1>4 DEF Registry

(* The names in a configuration's chains are names of candidates. *)
LEMMA ChainNames ==
  ASSUME NEW config \in Configs, NEW i \in DOMAIN config.chains
  PROVE  config.chains[i] \in ChainType
<1>1. config.chains \in Seq(ChainType)
  BY ConfigsAreValid DEF Toml, ChainType
<1> QED
  BY <1>1

(* Of the chains for a task the first is the one that counts. *)
LEMMA ChainIsFirst ==
  ASSUME NEW config \in Configs, NEW task, HasChain(config, task)
  PROVE  LET c == Chain(config, task)
         IN  /\ c \in DOMAIN config.chains
             /\ config.chains[c].task = task
             /\ \A j \in 1..(c - 1) : config.chains[j].task # task
<1> DEFINE cs == config.chains
           I == {i \in 1..Len(cs) : cs[i].task = task}
<1>1. Len(cs) \in Nat /\ DOMAIN cs = 1..Len(cs)
  <2>1. cs \in Seq(ChainType)
    BY ConfigsAreValid DEF Toml, ChainType
  <2> QED
    BY <2>1
<1>2. Chain(config, task) = IF I # {} THEN Min(I) ELSE 0
  BY DEF Chain, SelectInSeq
<1>3. I # {}
  BY <1>2 DEF HasChain
<1>4. Min(I) \in I /\ \A j \in I : Min(I) =< j
  <2>1. I \in SUBSET (1..Len(cs))
    OBVIOUS
  <2>2. \E i \in I : \A j \in I : i <= j
    BY <1>1, <1>3, <2>1, FirstAndLast
  <2> QED
    BY <2>2 DEF Min
<1>5. Chain(config, task) = Min(I)
  BY <1>2, <1>3
<1> HIDE DEF I
<1>6. ASSUME NEW j \in 1..(Min(I) - 1) PROVE cs[j].task # task
  <2>1. Min(I) \in 1..Len(cs) /\ j \in 1..Len(cs) /\ ~ (Min(I) =< j)
    BY <1>1, <1>4 DEF I
  <2> QED
    BY <1>4, <2>1 DEF I
<1> QED
  BY <1>1, <1>4, <1>5, <1>6 DEF I

-----------------------------------------------------------------------------
(***************************************************************************)
(* The candidates of a chain.                                              *)
(***************************************************************************)

(* The names that the registry knows, those that it knows as local, and the *)
(* others.                                                                  *)
LEMMA NamesByKind ==
  ASSUME NEW config \in Configs, NEW names \in Seq(CandidateNames)
  PROVE  LET registry == Registry(config)
         IN  /\ Lookup(names, registry) \in Seq(CandidateNames)
             /\ ToSet(Lookup(names, registry)) = ToSet(names) \cap Names(config)
             /\ OnlyLocal(names, registry) \in Seq(CandidateNames)
             /\ ToSet(OnlyLocal(names, registry)) = {n \in ToSet(names) : IsLocal(config, n)}
             /\ OnlyRemote(names, registry) \in Seq(CandidateNames)
             /\ ToSet(OnlyRemote(names, registry)) = {n \in ToSet(names) : ~ IsLocal(config, n)}
             /\ Within(OnlyLocal(names, registry), names)
             /\ Within(OnlyRemote(names, registry), names)
<1> DEFINE registry == Registry(config)
<1>1. /\ DOMAIN registry = Names(config)
      /\ \A n : n \in LocalIn(registry) <=> IsLocal(config, n)
  BY RegistryIsLast
<1> HIDE DEF registry
<1>2. /\ Lookup(names, registry) \in Seq(CandidateNames)
      /\ ToSet(Lookup(names, registry)) = ToSet(names) \cap DOMAIN registry
  BY KeptProperties DEF Lookup
<1>3. /\ OnlyLocal(names, registry) \in Seq(CandidateNames)
      /\ ToSet(OnlyLocal(names, registry)) = ToSet(names) \cap LocalIn(registry)
      /\ Within(OnlyLocal(names, registry), names)
  BY KeptProperties DEF OnlyLocal
<1>4. /\ OnlyRemote(names, registry) \in Seq(CandidateNames)
      /\ ToSet(OnlyRemote(names, registry)) = ToSet(names) \cap (ToSet(names) \ LocalIn(registry))
      /\ Within(OnlyRemote(names, registry), names)
  BY KeptProperties DEF OnlyRemote
<1>5. /\ ToSet(OnlyLocal(names, registry)) = {n \in ToSet(names) : IsLocal(config, n)}
      /\ ToSet(OnlyRemote(names, registry)) = {n \in ToSet(names) : ~ IsLocal(config, n)}
  BY <1>1, <1>3, <1>4
<1> QED
  BY <1>1, <1>2, <1>3, <1>4, <1>5 DEF registry

(* What is local has a name in the registry. *)
LEMMA LocalIsKnown ==
  ASSUME NEW config \in Configs, NEW n, IsLocal(config, n)
  PROVE  n \in Names(config)
BY RegistryIsLast DEF LocalIn

(* The entries of two sequences, one behind the other. *)
LEMMA ConcatMembers ==
  ASSUME NEW T, NEW a \in Seq(T), NEW b \in Seq(T)
  PROVE  /\ a \o b \in Seq(T)
         /\ ToSet(a \o b) = ToSet(a) \cup ToSet(b)
<1>1. /\ a \o b \in Seq(T) /\ Len(a) \in Nat /\ Len(b) \in Nat
      /\ Len(a \o b) = Len(a) + Len(b) /\ DOMAIN (a \o b) = 1..(Len(a) + Len(b))
      /\ DOMAIN a = 1..Len(a) /\ DOMAIN b = 1..Len(b)
      /\ \A i \in 1..(Len(a) + Len(b)) :
           (a \o b)[i] = IF i <= Len(a) THEN a[i] ELSE b[i - Len(a)]
  OBVIOUS
<1>2. ASSUME NEW x \in ToSet(a \o b) PROVE x \in ToSet(a) \cup ToSet(b)
  <2>1. PICK i \in 1..(Len(a) + Len(b)) : (a \o b)[i] = x
    BY <1>1 DEF ToSet
  <2>2. CASE i <= Len(a)
    BY <1>1, <2>1, <2>2 DEF ToSet
  <2>3. CASE ~ i <= Len(a)
    <3>1. i - Len(a) \in 1..Len(b) /\ x = b[i - Len(a)]
      BY <1>1, <2>1, <2>3
    <3> QED
      BY <1>1, <3>1 DEF ToSet
  <2> QED
    BY <2>2, <2>3
<1>3. ASSUME NEW x \in ToSet(a) PROVE x \in ToSet(a \o b)
  <2>1. PICK i \in 1..Len(a) : a[i] = x
    BY <1>1 DEF ToSet
  <2>2. i \in 1..(Len(a) + Len(b)) /\ (a \o b)[i] = x
    BY <1>1, <2>1
  <2> QED
    BY <1>1, <2>2 DEF ToSet
<1>4. ASSUME NEW x \in ToSet(b) PROVE x \in ToSet(a \o b)
  <2>1. PICK i \in 1..Len(b) : b[i] = x
    BY <1>1 DEF ToSet
  <2>2. i + Len(a) \in 1..(Len(a) + Len(b)) /\ (a \o b)[i + Len(a)] = x
    BY <1>1, <2>1
  <2> QED
    BY <1>1, <2>2 DEF ToSet
<1> QED
  BY <1>1, <1>2, <1>3, <1>4

(* The default order loses nobody, and puts every local candidate in front *)
(* of the others.                                                          *)
LEMMA LocalsComeFirst ==
  ASSUME NEW config \in Configs, NEW names \in Seq(CandidateNames)
  PROVE  LET ordered == DefaultOrder(names, Registry(config))
         IN  /\ ordered \in Seq(CandidateNames)
             /\ ToSet(ordered) = ToSet(names)
             /\ \A k \in DOMAIN ordered : ~ IsLocal(config, ordered[k]) =>
                  \A n \in ToSet(names) : IsLocal(config, n) => n \in {ordered[i] : i \in 1..k}
<1> DEFINE front == OnlyLocal(names, Registry(config))
           back == OnlyRemote(names, Registry(config))
           ordered == front \o back
<1>1. /\ front \in Seq(CandidateNames) /\ ToSet(front) = {n \in ToSet(names) : IsLocal(config, n)}
      /\ back \in Seq(CandidateNames) /\ ToSet(back) = {n \in ToSet(names) : ~ IsLocal(config, n)}
  BY NamesByKind
<1> HIDE DEF front, back
<1>2. ordered \in Seq(CandidateNames) /\ ToSet(ordered) = ToSet(names)
  <2>1. front \in Seq(CandidateNames) /\ back \in Seq(CandidateNames)
    BY <1>1
  <2>2. ordered \in Seq(CandidateNames) /\ ToSet(ordered) = ToSet(front) \cup ToSet(back)
    BY <2>1, ConcatMembers DEF ordered
  <2> QED
    BY <1>1, <2>2
<1>3. ASSUME NEW k \in DOMAIN ordered, ~ IsLocal(config, ordered[k]),
             NEW n \in ToSet(names), IsLocal(config, n)
      PROVE  n \in {ordered[i] : i \in 1..k}
  <2>1. /\ Len(front) \in Nat /\ DOMAIN front = 1..Len(front) /\ Len(back) \in Nat
        /\ DOMAIN ordered = 1..(Len(front) + Len(back))
        /\ \A i \in 1..Len(front) : ordered[i] = front[i]
    BY <1>1
  <2>2. \A i \in 1..Len(front) : IsLocal(config, front[i])
    BY <1>1, <2>1 DEF ToSet
  <2>3. PICK i \in 1..Len(front) : front[i] = n
    <3>1. n \in ToSet(front)
      BY <1>1, <1>3
    <3> QED
      BY <2>1, <3>1 DEF ToSet
  <2>4. k \notin 1..Len(front)
    BY <1>3, <2>1, <2>2
  <2>5. i \in 1..k
    BY <1>3, <2>1, <2>4
  <2> QED
    BY <2>1, <2>3, <2>5
<1> QED
  BY <1>2, <1>3 DEF DefaultOrder, front, back

(* One sequence has entries of another one, and those of a kind, local or   *)
(* not, in the order in which they stand there.                            *)
Stable(config, t, s) ==
  \E place \in [DOMAIN t -> DOMAIN s] :
    /\ \A k \in DOMAIN t : t[k] = s[place[k]]
    /\ \A k, l \in DOMAIN t :
         k < l /\ (IsLocal(config, t[k]) <=> IsLocal(config, t[l])) => place[k] < place[l]

(* Leaving entries out keeps a stable order, before and after. *)
LEMMA StableThenWithin ==
  ASSUME NEW config, NEW s, NEW t, NEW u, Stable(config, t, s), Within(u, t)
  PROVE  Stable(config, u, s)
<1>1. PICK f \in [DOMAIN t -> DOMAIN s] :
        /\ \A k \in DOMAIN t : t[k] = s[f[k]]
        /\ \A k, l \in DOMAIN t :
             k < l /\ (IsLocal(config, t[k]) <=> IsLocal(config, t[l])) => f[k] < f[l]
  BY DEF Stable
<1>2. PICK g \in [DOMAIN u -> DOMAIN t] :
        /\ \A k \in DOMAIN u : u[k] = t[g[k]]
        /\ \A k, l \in DOMAIN u : k < l => g[k] < g[l]
  BY DEF Within
<1> DEFINE h == [k \in DOMAIN u |-> f[g[k]]]
<1>3. h \in [DOMAIN u -> DOMAIN s] /\ \A k \in DOMAIN u : h[k] = f[g[k]] /\ g[k] \in DOMAIN t
  OBVIOUS
<1> HIDE DEF h
<1>4. \A k \in DOMAIN u : u[k] = s[h[k]]
  BY <1>1, <1>2, <1>3
<1>5. ASSUME NEW k \in DOMAIN u, NEW l \in DOMAIN u, k < l,
             IsLocal(config, u[k]) <=> IsLocal(config, u[l])
      PROVE  h[k] < h[l]
  <2>1. IsLocal(config, t[g[k]]) <=> IsLocal(config, t[g[l]])
    BY <1>2, <1>5
  <2> QED
    BY <1>1, <1>2, <1>3, <1>5, <2>1
<1> QED
  BY <1>3, <1>4, <1>5 DEF Stable

LEMMA WithinThenStable ==
  ASSUME NEW config, NEW s, NEW t, NEW u, Within(t, s), Stable(config, u, t)
  PROVE  Stable(config, u, s)
<1>1. PICK f \in [DOMAIN t -> DOMAIN s] :
        /\ \A k \in DOMAIN t : t[k] = s[f[k]]
        /\ \A k, l \in DOMAIN t : k < l => f[k] < f[l]
  BY DEF Within
<1>2. PICK g \in [DOMAIN u -> DOMAIN t] :
        /\ \A k \in DOMAIN u : u[k] = t[g[k]]
        /\ \A k, l \in DOMAIN u :
             k < l /\ (IsLocal(config, u[k]) <=> IsLocal(config, u[l])) => g[k] < g[l]
  BY DEF Stable
<1> DEFINE h == [k \in DOMAIN u |-> f[g[k]]]
<1>3. h \in [DOMAIN u -> DOMAIN s] /\ \A k \in DOMAIN u : h[k] = f[g[k]] /\ g[k] \in DOMAIN t
  OBVIOUS
<1> HIDE DEF h
<1>4. \A k \in DOMAIN u : u[k] = s[h[k]]
  BY <1>1, <1>2, <1>3
<1>5. \A k, l \in DOMAIN u :
        k < l /\ (IsLocal(config, u[k]) <=> IsLocal(config, u[l])) => h[k] < h[l]
  BY <1>1, <1>2, <1>3
<1> QED
  BY <1>3, <1>4, <1>5 DEF Stable

(* The default order is a stable sort (config/chains.py:173-178). *)
LEMMA DefaultIsStable ==
  ASSUME NEW config \in Configs, NEW names \in Seq(CandidateNames)
  PROVE  Stable(config, DefaultOrder(names, Registry(config)), names)
<1> DEFINE front == OnlyLocal(names, Registry(config))
           back == OnlyRemote(names, Registry(config))
           ordered == front \o back
<1>1. /\ front \in Seq(CandidateNames) /\ ToSet(front) = {n \in ToSet(names) : IsLocal(config, n)}
      /\ back \in Seq(CandidateNames) /\ ToSet(back) = {n \in ToSet(names) : ~ IsLocal(config, n)}
      /\ Within(front, names) /\ Within(back, names)
  BY NamesByKind
<1> HIDE DEF front, back
<1> DEFINE m == Len(front)
           n == Len(back)
<1>2. /\ m \in Nat /\ n \in Nat /\ DOMAIN front = 1..m /\ DOMAIN back = 1..n
      /\ DOMAIN ordered = 1..(m + n)
      /\ \A k \in 1..(m + n) : ordered[k] = IF k <= m THEN front[k] ELSE back[k - m]
  BY <1>1
<1>3. \A k \in 1..m : IsLocal(config, front[k])
  BY <1>1, <1>2 DEF ToSet
<1>4. \A k \in 1..n : ~ IsLocal(config, back[k])
  BY <1>1, <1>2 DEF ToSet
<1> HIDE DEF ordered, m, n
<1>5. PICK f \in [1..m -> DOMAIN names] :
        /\ \A k \in 1..m : front[k] = names[f[k]]
        /\ \A k, l \in 1..m : k < l => f[k] < f[l]
  BY <1>1, <1>2 DEF Within
<1>6. PICK g \in [1..n -> DOMAIN names] :
        /\ \A k \in 1..n : back[k] = names[g[k]]
        /\ \A k, l \in 1..n : k < l => g[k] < g[l]
  BY <1>1, <1>2 DEF Within
<1> DEFINE place == [k \in 1..(m + n) |-> IF k <= m THEN f[k] ELSE g[k - m]]
<1>7. ASSUME NEW k \in 1..(m + n)
      PROVE  \/ /\ k \in 1..m /\ place[k] = f[k] /\ ordered[k] = front[k]
             \/ /\ k > m /\ k - m \in 1..n /\ place[k] = g[k - m] /\ ordered[k] = back[k - m]
  BY <1>2
<1>8. place \in [1..(m + n) -> DOMAIN names]
  BY <1>7
<1> HIDE DEF place
<1>9. \A k \in 1..(m + n) : ordered[k] = names[place[k]]
  BY <1>5, <1>6, <1>7
<1>10. ASSUME NEW k \in 1..(m + n), NEW l \in 1..(m + n), k < l,
              IsLocal(config, ordered[k]) <=> IsLocal(config, ordered[l])
       PROVE  place[k] < place[l]
  <2>1. CASE k \in 1..m /\ l \in 1..m
    BY <1>2, <1>5, <1>7, <1>10, <2>1
  <2>2. CASE k > m /\ l > m
    <3>1. k - m \in 1..n /\ l - m \in 1..n /\ k - m < l - m
      BY <1>2, <1>7, <1>10, <2>2
    <3>2. place[k] = g[k - m] /\ place[l] = g[l - m]
      BY <1>2, <1>7, <2>2
    <3> QED
      BY <1>6, <3>1, <3>2
  <2>3. CASE k \in 1..m /\ l > m
    <3>1. IsLocal(config, ordered[k])
      BY <1>2, <1>3, <1>7, <2>3
    <3>2. ~ IsLocal(config, ordered[l])
      BY <1>2, <1>4, <1>7, <2>3
    <3> QED
      BY <1>10, <3>1, <3>2
  <2> QED
    BY <1>2, <1>10, <2>1, <2>2, <2>3
<1>11. Stable(config, ordered, names)
  BY <1>2, <1>8, <1>9, <1>10 DEF Stable
<1> QED
  BY <1>11 DEF DefaultOrder, front, back, ordered

(* Among local ones only there is but one order. *)
LEMMA StableAmongLocals ==
  ASSUME NEW config, NEW s, NEW t, Stable(config, t, s), \A n \in ToSet(t) : IsLocal(config, n)
  PROVE  Within(t, s)
<1>1. PICK f \in [DOMAIN t -> DOMAIN s] :
        /\ \A k \in DOMAIN t : t[k] = s[f[k]]
        /\ \A k, l \in DOMAIN t :
             k < l /\ (IsLocal(config, t[k]) <=> IsLocal(config, t[l])) => f[k] < f[l]
  BY DEF Stable
<1>2. \A k \in DOMAIN t : IsLocal(config, t[k])
  BY DEF ToSet
<1>3. \A k, l \in DOMAIN t : k < l => f[k] < f[l]
  BY <1>1, <1>2
<1> QED
  BY <1>1, <1>3 DEF Within

(* Of nothing there is only nothing. *)
LEMMA WithinNothing ==
  ASSUME NEW t \in Seq(CandidateNames), Within(t, <<>>)
  PROVE  t = <<>>
<1>1. \A k \in DOMAIN t : \E i \in DOMAIN <<>> : TRUE
  BY DEF Within
<1> QED
  BY <1>1

(* The chain as the developer wrote it. *)
LEMMA ChainOfTyped ==
  ASSUME NEW config \in Configs, NEW task, HasChain(config, task)
  PROVE  ChainOf(config, task) \in ChainType
BY ChainIsFirst, ChainNames DEF ChainOf

(* What a task may reach: every candidate of its chain that is registered  *)
(* and permitted, nobody else, and the paid ones last unless the chain is  *)
(* written out (config/chains.py).                                         *)
LEMMA ResolveProperties ==
  ASSUME NEW config \in Configs, NEW task, ResolveChain(config, task) # <<>>
  PROVE  LET chain == ResolveChain(config, task)
             written == ChainOf(config, task)
         IN  /\ chain \in Seq(CandidateNames)
             /\ HasChain(config, task) /\ ~ written.hosted
             /\ ToSet(chain) = {n \in ToSet(written.names) \cap Names(config) :
                                  IsLocal(config, n) \/ config.remote}
             /\ written.explicit
                \/ \A k \in DOMAIN chain : ~ IsLocal(config, chain[k]) =>
                     \A n \in ToSet(written.names) :
                       IsLocal(config, n) => n \in {chain[i] : i \in 1..k}
<1> DEFINE registry == Registry(config)
           written == ChainOf(config, task)
           known == Lookup(written.names, registry)
           ordered == Ordered(written, known, registry)
           chain == Permitted(config, ordered, registry)
<1>1. /\ HasChain(config, task) /\ ~ written.hosted
      /\ ResolveChain(config, task) = chain
  BY DEF ResolveChain, StaysHosted
<1>2. written \in ChainType
  BY <1>1, ChainOfTyped
<1>3. /\ written.names \in Seq(CandidateNames)
      /\ config.remote \in BOOLEAN
  BY <1>2, ConfigsAreValid DEF ChainType, Toml
<1> HIDE DEF written
<1>4. known \in Seq(CandidateNames) /\ ToSet(known) = ToSet(written.names) \cap Names(config)
  BY <1>3, NamesByKind
<1> HIDE DEF known
<1>5. ordered = IF written.explicit THEN known ELSE DefaultOrder(known, registry)
  BY DEF Ordered
<1>6. /\ DefaultOrder(known, registry) \in Seq(CandidateNames)
      /\ ToSet(DefaultOrder(known, registry)) = ToSet(known)
      /\ \A k \in DOMAIN DefaultOrder(known, registry) :
           ~ IsLocal(config, DefaultOrder(known, registry)[k]) =>
             \A n \in ToSet(known) :
               IsLocal(config, n) => n \in {DefaultOrder(known, registry)[i] : i \in 1..k}
  BY <1>4, LocalsComeFirst
<1>7. ordered \in Seq(CandidateNames) /\ ToSet(ordered) = ToSet(known)
  BY <1>4, <1>5, <1>6
<1>8. /\ written.explicit
         \/ \A k \in DOMAIN ordered : ~ IsLocal(config, ordered[k]) =>
              \A n \in ToSet(known) : IsLocal(config, n) => n \in {ordered[i] : i \in 1..k}
  BY <1>5, <1>6
<1> HIDE DEF ordered
<1>9. CASE config.remote
  <2>1. chain = ordered
    BY <1>9 DEF Permitted
  <2>2. ToSet(chain) = {n \in ToSet(written.names) \cap Names(config) :
                          IsLocal(config, n) \/ config.remote}
    BY <1>4, <1>7, <1>9, <2>1
  <2>3. \A n \in ToSet(written.names) : IsLocal(config, n) => n \in ToSet(known)
    BY <1>4, LocalIsKnown
  <2> HIDE DEF chain
  <2> QED
    BY <1>1, <1>7, <1>8, <2>1, <2>2, <2>3 DEF written
<1>10. CASE ~ config.remote
  <2>1. chain = OnlyLocal(ordered, registry)
    BY <1>10 DEF Permitted
  <2>2. chain \in Seq(CandidateNames) /\ ToSet(chain) = {n \in ToSet(ordered) : IsLocal(config, n)}
    BY <1>7, <2>1, NamesByKind
  <2>3. ToSet(chain) = {n \in ToSet(written.names) \cap Names(config) :
                          IsLocal(config, n) \/ config.remote}
    BY <1>4, <1>7, <1>10, <2>2
  <2> HIDE DEF chain
  <2>4. \A k \in DOMAIN chain : IsLocal(config, chain[k])
    BY <2>2 DEF ToSet
  <2> QED
    BY <1>1, <2>2, <2>3, <2>4 DEF written
<1> QED
  BY <1>9, <1>10

(* A chain keeps the order in which the developer wrote it, whoever is left *)
(* out of it; without explicit_order, the local ones among themselves and  *)
(* the others among themselves.                                            *)
LEMMA WrittenOrderIsKept ==
  ASSUME NEW config \in Configs, NEW task, ResolveChain(config, task) # <<>>
  PROVE  LET chain == ResolveChain(config, task)
             written == ChainOf(config, task)
         IN  IF written.explicit THEN Within(chain, written.names)
             ELSE Stable(config, chain, written.names)
<1> DEFINE registry == Registry(config)
           written == ChainOf(config, task)
           known == Lookup(written.names, registry)
           ordered == Ordered(written, known, registry)
           chain == Permitted(config, ordered, registry)
<1>1. HasChain(config, task) /\ ResolveChain(config, task) = chain
  BY DEF ResolveChain, StaysHosted
<1>2. written.names \in Seq(CandidateNames)
  BY <1>1, ChainOfTyped DEF ChainType
<1> HIDE DEF written
<1>3. known \in Seq(CandidateNames) /\ Within(known, written.names)
  BY <1>2, KeptProperties DEF Lookup
<1> HIDE DEF known
<1>4. ordered = IF written.explicit THEN known ELSE DefaultOrder(known, registry)
  BY DEF Ordered
<1>5. DefaultOrder(known, registry) \in Seq(CandidateNames)
  BY <1>3, LocalsComeFirst
<1>6. Stable(config, DefaultOrder(known, registry), known)
  BY <1>3, DefaultIsStable
<1>7. ordered \in Seq(CandidateNames)
  BY <1>3, <1>4, <1>5
<1>8. /\ written.explicit => Within(ordered, written.names)
      /\ ~ written.explicit => Stable(config, ordered, written.names)
  BY <1>3, <1>4, <1>6, WithinThenStable
<1> HIDE DEF ordered
<1>9. chain = ordered \/ Within(chain, ordered)
  BY <1>7, NamesByKind DEF Permitted
<1> HIDE DEF chain
<1>10. /\ written.explicit => Within(chain, written.names)
       /\ ~ written.explicit => Stable(config, chain, written.names)
  BY <1>8, <1>9, WithinIsTransitive, StableThenWithin
<1> QED
  BY <1>1, <1>10 DEF written

(* The proactive chain of a configuration is local in it. *)
LEMMA LocalOnlyIsLocal ==
  ASSUME NEW config \in Configs
  PROVE  /\ LocalOnly(config) \in Seq(CandidateNames)
         /\ \A n \in ToSet(LocalOnly(config)) : IsLocal(config, n)
<1>1. /\ ResolveProactive(config) \in Seq(CandidateNames)
      /\ \A n \in ToSet(ResolveProactive(config)) : IsLocal(config, n)
  <2>1. CASE ~ HasChain(config, ProactiveCheck)
    BY <2>1 DEF ResolveProactive, ToSet
  <2>2. CASE HasChain(config, ProactiveCheck)
    <3> DEFINE registry == Registry(config)
               written == ChainOf(config, ProactiveCheck)
               local == OnlyLocal(written.names, registry)
    <3>1. written.names \in Seq(CandidateNames)
      BY <2>2, ChainOfTyped DEF ChainType
    <3>2. ResolveProactive(config) = Ordered(written, local, registry)
      BY <2>2 DEF ResolveProactive
    <3> HIDE DEF written
    <3>3. /\ local \in Seq(CandidateNames)
          /\ ToSet(local) = {n \in ToSet(written.names) : IsLocal(config, n)}
      BY <3>1, NamesByKind
    <3> HIDE DEF local
    <3>4. /\ DefaultOrder(local, registry) \in Seq(CandidateNames)
          /\ ToSet(DefaultOrder(local, registry)) = ToSet(local)
      BY <3>3, LocalsComeFirst
    <3>5. Ordered(written, local, registry) \in {local, DefaultOrder(local, registry)}
      BY DEF Ordered
    <3> HIDE DEF registry
    <3> QED
      BY <3>2, <3>3, <3>4, <3>5
  <2> QED
    BY <2>1, <2>2
<1>2. LocalOnly(config) \in Seq(CandidateNames)
      /\ ToSet(LocalOnly(config)) = ToSet(ResolveProactive(config))
  BY <1>1, DistinctProperties DEF LocalOnly
<1> QED
  BY <1>1, <1>2

(* And it has the order in which the developer wrote it. *)
LEMMA LocalOrderIsKept ==
  ASSUME NEW config \in Configs, LocalOnly(config) # <<>>
  PROVE  Within(LocalOnly(config), ChainOf(config, ProactiveCheck).names)
<1> DEFINE registry == Registry(config)
           written == ChainOf(config, ProactiveCheck)
           local == OnlyLocal(written.names, registry)
           resolved == ResolveProactive(config)
<1>1. /\ LocalOnly(config) = Distinct(resolved)
      /\ ~ HasChain(config, ProactiveCheck) => resolved = <<>>
      /\ HasChain(config, ProactiveCheck) => resolved = Ordered(written, local, registry)
  BY DEF LocalOnly, ResolveProactive
<1> HIDE DEF resolved
<1>2. CASE ~ HasChain(config, ProactiveCheck)
  <2>1. resolved \in Seq(CandidateNames)
    BY <1>1, <1>2
  <2>2. LocalOnly(config) \in Seq(CandidateNames) /\ Within(LocalOnly(config), resolved)
    BY <1>1, <2>1, DistinctProperties
  <2> QED
    BY <1>1, <1>2, <2>2, WithinNothing
<1>3. CASE HasChain(config, ProactiveCheck)
  <2>1. written.names \in Seq(CandidateNames)
    BY <1>3, ChainOfTyped DEF ChainType
  <2> HIDE DEF written
  <2>2. /\ local \in Seq(CandidateNames) /\ Within(local, written.names)
        /\ \A n \in ToSet(local) : IsLocal(config, n)
    BY <2>1, NamesByKind
  <2> HIDE DEF local
  <2>3. resolved \in {local, DefaultOrder(local, registry)}
    BY <1>1, <1>3 DEF Ordered
  <2>4. /\ DefaultOrder(local, registry) \in Seq(CandidateNames)
        /\ ToSet(DefaultOrder(local, registry)) = ToSet(local)
        /\ Stable(config, DefaultOrder(local, registry), local)
    BY <2>2, LocalsComeFirst, DefaultIsStable
  <2>5. Within(DefaultOrder(local, registry), local)
    BY <2>2, <2>4, StableAmongLocals
  <2>6. Within(DefaultOrder(local, registry), written.names)
    BY <2>2, <2>5, WithinIsTransitive
  <2>7. resolved \in Seq(CandidateNames) /\ Within(resolved, written.names)
    BY <2>2, <2>3, <2>4, <2>6
  <2>8. Within(LocalOnly(config), resolved)
    BY <1>1, <2>7, DistinctProperties
  <2>9. Within(LocalOnly(config), written.names)
    BY <2>7, <2>8, WithinIsTransitive
  <2> QED
    BY <2>9 DEF written
<1> QED
  BY <1>2, <1>3

(* What the daemon makes of posted names is local in its configuration, and *)
(* keeps every one of them that is.                                         *)
LEMMA TrustedIsLocal ==
  ASSUME NEW config \in Configs, NEW names \in Seq(CandidateNames)
  PROVE  /\ Trusted(names, config) \in Seq(CandidateNames)
         /\ ToSet(Trusted(names, config)) = {n \in ToSet(names) : IsLocal(config, n)}
         /\ Within(Trusted(names, config), names)
BY NamesByKind DEF Trusted

-----------------------------------------------------------------------------
(***************************************************************************)
(* The requests.  The inductive invariant: the chain a request carries is  *)
(* the one that the daemon's configuration makes of what was asked, and    *)
(* its position is where its state says; so what is true of the chain of a *)
(* configuration is true of the requests, as long as the daemon lives.     *)
(***************************************************************************)

Reachable(q, config) ==
  IF q.asked # Off THEN Trusted(LocalOnly(q.asked), config) ELSE ResolveChain(config, q.task)

Fits(q, config) ==
  /\ q.pos \in 0..Len(q.chain)
  /\ q.at # "free" => /\ config # Off
                      /\ q.chain # <<>>
                      /\ q.chain = Reachable(q, config)
  /\ q.at = "calling" => q.pos # 0
  /\ q.at = "exhausted" => q.pos = Len(q.chain)

DelegateTyped ==
  /\ disk \in Documents
  /\ loaded \in Configs \cup {Off}
  /\ committed \in Commits
  /\ request \in [Requests -> RequestType]

DelegateInv == DelegateTyped /\ \A r \in Requests : Fits(request[r], loaded)

ChecksTyped == check \in [Timers -> Configs]

(* A request that is not there fits any daemon, and there is always an     *)
(* empty configuration to give it.                                         *)
LEMMA FreeFits ==
  /\ Free \in RequestType
  /\ \A config : Fits(Free, config)
  /\ NoCommit \in Commits
<1>1. EmptyConfig \in Configs
  BY ConfigsAreValid
<1>2. Free \in RequestType
  BY <1>1 DEF Free, RequestType, AllTasks
<1>3. NoCommit \in Commits
  BY <1>1 DEF NoCommit, Commits
<1>4. \A config : Fits(Free, config)
  BY DEF Free, Fits
<1> QED
  BY <1>2, <1>3, <1>4

LEMMA InitDelegate == Init => DelegateInv /\ ChecksTyped
<1> SUFFICES ASSUME Init PROVE DelegateInv /\ ChecksTyped
  OBVIOUS
<1>1. EmptyConfig \in Configs
  BY ConfigsAreValid
<1>2. DelegateTyped /\ ChecksTyped
  BY <1>1, FreeFits DEF Init, DelegateTyped, ChecksTyped
<1>3. \A r \in Requests : Fits(request[r], loaded)
  BY FreeFits DEF Init
<1> QED
  BY <1>2, <1>3 DEF DelegateInv

(* A change of one request. *)
LEMMA RequestChanges ==
  ASSUME DelegateInv, NEW r \in Requests, NEW q \in RequestType, Fits(q, loaded),
         request' = [request EXCEPT ![r] = q], UNCHANGED <<disk, loaded>>, committed' \in Commits
  PROVE  DelegateInv'
<1>1. /\ request' \in [Requests -> RequestType] /\ request'[r] = q
      /\ \A s \in Requests : s # r => request'[s] = request[s]
  BY DEF DelegateInv, DelegateTyped
<1>2. \A s \in Requests : Fits(request'[s], loaded')
  BY <1>1 DEF DelegateInv
<1> QED
  BY <1>1, <1>2 DEF DelegateInv, DelegateTyped

(* The commit hook leaves the requests alone until it posts. *)
LEMMA CommitChanges ==
  ASSUME DelegateInv, UNCHANGED <<loaded, request>>, disk' \in Documents, committed' \in Commits
  PROVE  DelegateInv'
BY DEF DelegateInv, DelegateTyped

(* A request is accepted with the chain that it will be served by. *)
LEMMA AcceptKeeps ==
  ASSUME DelegateInv, Post \/ \E r \in Requests : Delegate(r)
  PROVE  DelegateInv'
<1>1. CASE Post
  <2> DEFINE names == LocalOnly(committed.asked)
             chain == IF loaded = Off THEN <<>> ELSE Trusted(names, loaded)
  <2>1. committed.asked \in Configs /\ committed.asked # Off
    BY ConfigsAreValid DEF DelegateInv, DelegateTyped, Commits
  <2>2. CASE committed' = NoCommit /\ UNCHANGED request
    BY <1>1, <2>2, FreeFits, CommitChanges DEF Post, DelegateInv, DelegateTyped
  <2>3. ASSUME chain # <<>>, NEW r \in Requests, Accept(r, chain)
        PROVE  DelegateInv'
    <3> DEFINE q == [at |-> "queued", task |-> ProactiveCheck, chain |-> chain, pos |-> 0,
                     asked |-> committed.asked]
    <3>1. loaded # Off /\ loaded \in Configs /\ chain = Trusted(names, loaded)
      BY <2>3 DEF DelegateInv, DelegateTyped
    <3>2. chain \in Seq(CandidateNames)
      BY <2>1, <3>1, LocalOnlyIsLocal, TrustedIsLocal
    <3>3. q \in RequestType
      BY <2>1, <3>2 DEF RequestType, AllTasks
    <3>4. Fits(q, loaded)
      BY <2>1, <2>3, <3>1, <3>2 DEF Fits, Reachable
    <3>5. committed' \in Commits
      BY <2>3 DEF Accept, DelegateInv, DelegateTyped, Commits
    <3>6. request' = [request EXCEPT ![r] = q] /\ UNCHANGED <<disk, loaded>>
      BY <1>1, <2>3 DEF Accept, Queue!Accept, Post
    <3> HIDE DEF q
    <3> QED
      BY <3>3, <3>4, <3>5, <3>6, RequestChanges
  <2> HIDE DEF chain
  <2>4. \/ committed' = NoCommit /\ UNCHANGED request
        \/ chain # <<>> /\ \E r \in Requests : Accept(r, chain)
    BY <1>1 DEF Post, chain
  <2> QED
    BY <2>2, <2>3, <2>4
<1>2. ASSUME NEW r \in Requests, Delegate(r)
      PROVE  DelegateInv'
  <2>1. PICK t \in AllTasks :
          /\ ResolveChain(loaded, t) # <<>>
          /\ request' = [request EXCEPT ![r] =
               [at |-> "queued", task |-> t, chain |-> ResolveChain(loaded, t), pos |-> 0,
                asked |-> Off]]
    BY <1>2 DEF Delegate, Queue!Accept
  <2> DEFINE q == [at |-> "queued", task |-> t, chain |-> ResolveChain(loaded, t), pos |-> 0,
                   asked |-> Off]
  <2>2. loaded # Off /\ loaded \in Configs /\ UNCHANGED <<disk, loaded, committed>>
    BY <1>2 DEF Delegate, DelegateInv, DelegateTyped
  <2>3. ResolveChain(loaded, t) \in Seq(CandidateNames)
    BY <2>1, <2>2, ResolveProperties
  <2>4. q \in RequestType
    BY <2>3 DEF RequestType
  <2>5. Fits(q, loaded)
    BY <2>1, <2>2, <2>3 DEF Fits, Reachable
  <2>6. request' = [request EXCEPT ![r] = q] /\ committed' \in Commits
    BY <2>1, <2>2 DEF DelegateInv, DelegateTyped
  <2> HIDE DEF q
  <2> QED
    BY <2>2, <2>4, <2>5, <2>6, RequestChanges
<1> QED
  BY <1>1, <1>2

(* The queue moves a request along its chain. *)
LEMMA MoveKeeps == ASSUME DelegateInv, Move PROVE DelegateInv'
<1> SUFFICES ASSUME NEW r \in Requests, Queue!Take(r) \/ Queue!Advance(r)
             PROVE  DelegateInv'
  BY DEF Move
<1>0. UNCHANGED <<disk, loaded, committed>>
  BY DEF Move
<1> DEFINE q == request[r]
<1>1. /\ q \in RequestType /\ Fits(q, loaded) /\ committed \in Commits
      /\ q = [at |-> q.at, task |-> q.task, chain |-> q.chain, pos |-> q.pos, asked |-> q.asked]
      /\ Len(q.chain) \in Nat /\ q.pos \in Nat /\ q.chain \in Seq(CandidateNames)
  BY DEF DelegateInv, DelegateTyped, RequestType
<1>2. CASE Queue!Take(r)
  <2> DEFINE new == [q EXCEPT !.at = "calling", !.pos = 1]
  <2>1. request' = [request EXCEPT ![r] = new] /\ UNCHANGED <<disk, loaded, committed>>
    BY <1>0, <1>2 DEF Queue!Take
  <2>2. new \in RequestType
    BY <1>1 DEF RequestType
  <2>3. Fits(new, loaded)
    <3>1. q.at # "free" /\ q.chain # <<>>
      BY <1>1, <1>2 DEF Queue!Take, Fits
    <3>2. 1 \in 0..Len(q.chain)
      BY <1>1, <3>1
    <3> QED
      BY <1>1, <3>1, <3>2 DEF Fits, Reachable, RequestType
  <2> HIDE DEF new
  <2> QED
    BY <1>1, <2>1, <2>2, <2>3, RequestChanges
<1>3. CASE Queue!Advance(r)
  <2>1. q.at = "calling" /\ UNCHANGED <<disk, loaded, committed>>
    BY <1>0, <1>3 DEF Queue!Advance
  <2>2. CASE q.pos < Len(q.chain)
    <3> DEFINE new == [q EXCEPT !.pos = q.pos + 1]
    <3>1. request' = [request EXCEPT ![r] = new]
      BY <1>1, <1>3, <2>2 DEF Queue!Advance
    <3>2. new \in RequestType
      BY <1>1 DEF RequestType
    <3>3. q.pos + 1 \in 0..Len(q.chain) /\ q.pos + 1 # 0
      BY <1>1, <2>2
    <3>4. Fits(new, loaded)
      BY <1>1, <2>1, <3>3 DEF Fits, Reachable, RequestType
    <3> HIDE DEF new
    <3> QED
      BY <1>1, <2>1, <3>1, <3>2, <3>4, RequestChanges
  <2>3. CASE ~ q.pos < Len(q.chain)
    <3> DEFINE new == [q EXCEPT !.at = "exhausted"]
    <3>1. request' = [request EXCEPT ![r] = new]
      BY <1>1, <1>3, <2>3 DEF Queue!Advance
    <3>2. new \in RequestType
      BY <1>1 DEF RequestType
    <3>3. q.pos = Len(q.chain)
      BY <1>1, <2>3 DEF Fits
    <3>4. Fits(new, loaded)
      BY <1>1, <2>1, <3>3 DEF Fits, Reachable, RequestType
    <3> HIDE DEF new
    <3> QED
      BY <1>1, <2>1, <3>1, <3>2, <3>4, RequestChanges
  <2> QED
    BY <2>2, <2>3
<1> QED
  BY <1>2, <1>3

(* An answer, or a client that leaves, frees the place of the request. *)
LEMMA EndKeeps ==
  ASSUME DelegateInv, \E r \in Requests : Cancel(r) \/ Reply(r)
  PROVE  DelegateInv'
<1> PICK r \in Requests : Cancel(r) \/ Reply(r)
  OBVIOUS
<1>1. request' = [request EXCEPT ![r] = Free] /\ UNCHANGED <<disk, loaded>>
  BY DEF Cancel, Reply, Queue!Withdraw, Queue!Reply, Queue!End
<1>2. committed' \in Commits
  BY FreeFits DEF Cancel, Reply, DelegateInv, DelegateTyped
<1> QED
  BY <1>1, <1>2, FreeFits, RequestChanges

(* The daemon starts without requests and takes its requests with it. *)
LEMMA LifeKeeps == ASSUME DelegateInv, StartDaemon \/ StopDaemon PROVE DelegateInv'
<1>1. CASE StartDaemon
  <2>1. loaded = Off /\ loaded' \in Configs /\ UNCHANGED <<disk, committed, request>>
    BY <1>1 DEF StartDaemon, Configs, DelegateInv, DelegateTyped
  <2>2. ASSUME NEW r \in Requests PROVE Fits(request'[r], loaded')
    <3>1. Fits(request[r], loaded) /\ request[r] \in RequestType
      BY DEF DelegateInv, DelegateTyped
    <3>2. request[r].at = "free"
      BY <2>1, <3>1 DEF Fits
    <3> QED
      BY <2>1, <3>1, <3>2 DEF Fits
  <2> QED
    BY <2>1, <2>2 DEF DelegateInv, DelegateTyped
<1>2. CASE StopDaemon
  <2>1. request' = [r \in Requests |-> Free] /\ loaded' = Off /\ disk' = disk
    BY <1>2 DEF StopDaemon, Queue!AllEnd
  <2>2. committed' \in Commits
    BY <1>2, FreeFits DEF StopDaemon, DelegateInv, DelegateTyped
  <2>3. request' \in [Requests -> RequestType]
    BY <2>1, FreeFits
  <2>4. \A r \in Requests : Fits(request'[r], loaded')
    BY <2>1, FreeFits
  <2> QED
    BY <2>1, <2>2, <2>3, <2>4 DEF DelegateInv, DelegateTyped
<1> QED
  BY <1>1, <1>2

(* Every step keeps the invariant. *)
LEMMA DelegateKeeps == DelegateInv /\ [Next]_vars => DelegateInv'
<1> SUFFICES ASSUME DelegateInv, [Next]_vars PROVE DelegateInv'
  OBVIOUS
<1>1. CASE Edit
  BY <1>1, CommitChanges DEF Edit, DelegateInv, DelegateTyped
<1>2. CASE Commit
  <2>1. Load(disk) \in Configs
    BY <1>2 DEF Commit, Configs, DelegateInv, DelegateTyped
  <2>2. committed' \in Commits
    BY <1>2, <2>1 DEF Commit, NoCommit, Commits
  <2> QED
    BY <1>2, <2>2, CommitChanges DEF Commit, DelegateInv, DelegateTyped
<1>3. CASE GiveUp
  BY <1>3, FreeFits, CommitChanges DEF GiveUp, DelegateInv, DelegateTyped
<1>4. CASE UNCHANGED delegateVars
  BY <1>4 DEF delegateVars, DelegateInv, DelegateTyped
<1> QED
  BY <1>1, <1>2, <1>3, <1>4, AcceptKeeps, MoveKeeps, EndKeeps, LifeKeeps DEF Next, DelegateStep, vars

(* A check runs with a configuration somebody loaded. *)
LEMMA ChecksKeep == ChecksTyped /\ [Next]_vars => ChecksTyped'
<1> SUFFICES ASSUME ChecksTyped, [Next]_vars PROVE ChecksTyped'
  OBVIOUS
<1>1. EmptyConfig \in Configs
  BY ConfigsAreValid
<1>2. CASE UNCHANGED check
  BY <1>2 DEF ChecksTyped
<1>3. ASSUME NEW t \in Timers, NEW config \in Configs, check' = [check EXCEPT ![t] = config]
      PROVE  ChecksTyped'
  BY <1>3 DEF ChecksTyped
<1>4. \/ UNCHANGED check
      \/ \E t \in Timers, config \in Configs : check' = [check EXCEPT ![t] = config]
  BY <1>1 DEF Next, SaveStep, CheckStarts, saveVars, vars
<1> QED
  BY <1>2, <1>3, <1>4

LEMMA DelegateHolds == Spec => [](DelegateInv /\ ChecksTyped)
  BY InitDelegate, DelegateKeeps, ChecksKeep, PTL DEF Spec

-----------------------------------------------------------------------------
(***************************************************************************)
(* What the requests promise.                                              *)
(***************************************************************************)

(* The chain of a task of which the properties speak is the one the code   *)
(* finds.                                                                  *)
LEMMA WrittenIsFirst ==
  ASSUME NEW r \in Requests, loaded \in Configs, HasChain(loaded, request[r].task)
  PROVE  Written(r) = ChainOf(loaded, request[r].task)
<1> DEFINE task == request[r].task
           c == Chain(loaded, task)
           First(i) == /\ loaded.chains[i].task = task
                       /\ \A j \in 1..(i - 1) : loaded.chains[j].task # task
<1>1. /\ c \in DOMAIN loaded.chains /\ First(c)
  BY ChainIsFirst
<1>2. DOMAIN loaded.chains \in SUBSET Nat /\ \A i \in DOMAIN loaded.chains : i >= 1
  <2>1. loaded.chains \in Seq(ChainType)
    BY ConfigsAreValid DEF Toml, ChainType
  <2> QED
    BY <2>1
<1>3. ASSUME NEW i \in DOMAIN loaded.chains, First(i) PROVE i = c
  <2>1. i \in Nat /\ c \in Nat /\ i >= 1 /\ c >= 1
    BY <1>1, <1>2
  <2> HIDE DEF c
  <2>2. ~ i < c
    <3>1. i < c => i \in 1..(c - 1)
      BY <2>1
    <3> QED
      BY <1>1, <1>3, <3>1
  <2>3. ~ c < i
    <3>1. c < i => c \in 1..(i - 1)
      BY <2>1
    <3> QED
      BY <1>1, <1>3, <3>1
  <2> QED
    BY <2>1, <2>2, <2>3
<1>4. Written(r) = loaded.chains[CHOOSE i \in DOMAIN loaded.chains : First(i)]
  BY DEF Written
<1> HIDE DEF First
<1>5. (CHOOSE i \in DOMAIN loaded.chains : First(i)) = c
  BY <1>1, <1>3
<1> QED
  BY <1>4, <1>5 DEF ChainOf

(* A request that waits or is served stands in the chain that the daemon's *)
(* configuration gives it.                                                 *)
LEMMA StandsInItsChain ==
  ASSUME DelegateInv, NEW r \in Requests, request[r].at # "free"
  PROVE  LET q == request[r]
         IN  /\ loaded \in Configs /\ q.chain \in Seq(CandidateNames) /\ q.chain # <<>>
             /\ q.chain = Reachable(q, loaded) /\ q.asked \in Configs \cup {Off}
             /\ q.at = "calling" =>
                  /\ q.pos \in DOMAIN q.chain
                  /\ Contacted(r) \in ToSet(q.chain)
             /\ q.at = "exhausted" => Tried(r) = ToSet(q.chain)
<1> DEFINE q == request[r]
<1>1. /\ q \in RequestType /\ Fits(q, loaded) /\ loaded \in Configs \cup {Off}
      /\ q.chain \in Seq(CandidateNames) /\ q.asked \in Configs \cup {Off}
      /\ DOMAIN q.chain = 1..Len(q.chain) /\ Len(q.chain) \in Nat
  BY DEF DelegateInv, DelegateTyped, RequestType
<1>2. q.at = "calling" => q.pos \in DOMAIN q.chain
  BY <1>1 DEF Fits
<1>3. q.at = "calling" => Contacted(r) \in ToSet(q.chain)
  BY <1>2 DEF Contacted, ToSet
<1>4. q.at = "exhausted" => Tried(r) = ToSet(q.chain)
  BY <1>1 DEF Tried, Fits, ToSet
<1> QED
  BY <1>1, <1>2, <1>3, <1>4 DEF Fits

(* A proactive check stays on this machine (config/chains.py:226-237),      *)
(* whatever the file says when the hook reads it and when the daemon does,  *)
(* and however long either of them lives.                                   *)
THEOREM ChecksStayLocal == Spec => []ProactiveStaysLocal
<1>1. ASSUME DelegateInv, ChecksTyped
      PROVE  ProactiveStaysLocal
  <2>1. ASSUME NEW r \in Requests, request[r].at = "calling", OfCommit(r)
        PROVE  IsLocal(request[r].asked, Contacted(r)) /\ IsLocal(loaded, Contacted(r))
    <3> DEFINE names == LocalOnly(request[r].asked)
    <3>1. /\ loaded \in Configs /\ request[r].asked \in Configs
          /\ Contacted(r) \in ToSet(Trusted(names, loaded))
      BY <1>1, <2>1, StandsInItsChain DEF OfCommit, Reachable
    <3>2. /\ names \in Seq(CandidateNames)
          /\ \A n \in ToSet(names) : IsLocal(request[r].asked, n)
      BY <3>1, LocalOnlyIsLocal
    <3> HIDE DEF names
    <3>3. ToSet(Trusted(names, loaded)) = {n \in ToSet(names) : IsLocal(loaded, n)}
      BY <3>1, <3>2, TrustedIsLocal
    <3> QED
      BY <3>1, <3>2, <3>3
  <2>2. ASSUME NEW t \in Timers, NEW n \in ToSet(LocalOnly(check[t]))
        PROVE  IsLocal(check[t], n)
    BY <1>1, LocalOnlyIsLocal DEF ChecksTyped
  <2> QED
    BY <2>1, <2>2 DEF ProactiveStaysLocal
<1> QED
  BY <1>1, DelegateHolds, PTL

(* A paid candidate is called only with the developer's leave, and last     *)
(* unless the developer says otherwise (config/chains.py:194-222).          *)
THEOREM PaidComesLast == Spec => []PaidOnlyAsAllowed
<1>1. ASSUME DelegateInv PROVE PaidOnlyAsAllowed
  <2> SUFFICES ASSUME NEW r \in Requests, request[r].at = "calling", ~ OfCommit(r),
                      ~ IsLocal(loaded, Contacted(r))
               PROVE  /\ loaded.remote
                      /\ ~ Written(r).hosted
                      /\ Written(r).explicit
                         \/ \A n \in ToSet(Written(r).names) : IsLocal(loaded, n) => n \in Tried(r)
    BY DEF PaidOnlyAsAllowed
  <2> DEFINE task == request[r].task
             chain == ResolveChain(loaded, task)
             written == ChainOf(loaded, task)
  <2>1. /\ loaded \in Configs /\ chain # <<>> /\ request[r].chain = chain
        /\ request[r].pos \in DOMAIN chain /\ Contacted(r) \in ToSet(chain)
    BY <1>1, StandsInItsChain DEF OfCommit, Reachable
  <2>2. /\ HasChain(loaded, task) /\ ~ written.hosted
        /\ ToSet(chain) = {n \in ToSet(written.names) \cap Names(loaded) :
                             IsLocal(loaded, n) \/ loaded.remote}
        /\ written.explicit
           \/ \A k \in DOMAIN chain : ~ IsLocal(loaded, chain[k]) =>
                \A n \in ToSet(written.names) :
                  IsLocal(loaded, n) => n \in {chain[i] : i \in 1..k}
    BY <2>1, ResolveProperties
  <2>3. Written(r) = written
    BY <2>1, <2>2, WrittenIsFirst
  <2> HIDE DEF chain, written
  <2>4. Contacted(r) = chain[request[r].pos] /\ Tried(r) = {chain[i] : i \in 1..request[r].pos}
    BY <2>1 DEF Contacted, Tried
  <2>5. loaded.remote
    BY <2>1, <2>2
  <2> QED
    BY <2>1, <2>2, <2>3, <2>4, <2>5
<1> QED
  BY <1>1, DelegateHolds, PTL

(* "Exhausted" is said only when nobody is left whom the request may reach  *)
(* (delegate/chain.py:32-37).                                               *)
THEOREM ExhaustedMeansAll == Spec => []NobodyForgotten
<1>1. ASSUME DelegateInv PROVE NobodyForgotten
  <2> SUFFICES ASSUME NEW r \in Requests, request[r].at = "exhausted"
               PROVE  IF OfCommit(r)
                      THEN \A n \in ToSet(LocalOnly(request[r].asked)) :
                             IsLocal(loaded, n) => n \in Tried(r)
                      ELSE \A n \in ToSet(Written(r).names) \cap Names(loaded) :
                             IsLocal(loaded, n) \/ loaded.remote => n \in Tried(r)
    BY DEF NobodyForgotten
  <2>1. /\ loaded \in Configs /\ request[r].chain = Reachable(request[r], loaded)
        /\ request[r].chain # <<>> /\ request[r].asked \in Configs \cup {Off}
        /\ Tried(r) = ToSet(Reachable(request[r], loaded))
    BY <1>1, StandsInItsChain
  <2>2. CASE OfCommit(r)
    <3> DEFINE names == LocalOnly(request[r].asked)
    <3>1. names \in Seq(CandidateNames) /\ Tried(r) = ToSet(Trusted(names, loaded))
      BY <2>1, <2>2, LocalOnlyIsLocal DEF OfCommit, Reachable
    <3> HIDE DEF names
    <3>2. Tried(r) = {n \in ToSet(names) : IsLocal(loaded, n)}
      BY <2>1, <3>1, TrustedIsLocal
    <3> QED
      BY <2>2, <3>2 DEF names
  <2>3. CASE ~ OfCommit(r)
    <3> DEFINE task == request[r].task
               written == ChainOf(loaded, task)
    <3>1. ResolveChain(loaded, task) # <<>> /\ Tried(r) = ToSet(ResolveChain(loaded, task))
      BY <2>1, <2>3 DEF OfCommit, Reachable
    <3>2. /\ HasChain(loaded, task)
          /\ Tried(r) = {n \in ToSet(written.names) \cap Names(loaded) :
                           IsLocal(loaded, n) \/ loaded.remote}
      BY <2>1, <3>1, ResolveProperties
    <3>3. Written(r) = written
      BY <2>1, <3>2, WrittenIsFirst
    <3> HIDE DEF written
    <3> QED
      BY <2>3, <3>2, <3>3
  <2> QED
    BY <2>2, <2>3
<1> QED
  BY <1>1, DelegateHolds, PTL

(* Candidates are tried in the order in which josu.toml has them            *)
(* (config/chains.py:173-178, 207-209), also when some of them are not     *)
(* registered or not permitted: a commit's check in the order of the file  *)
(* the hook read; another request in the order of the file the daemon      *)
(* loaded or, without explicit_order, local ones first, and either kind in *)
(* that order.                                                             *)
WrittenOrder ==
  \A r \in Requests : request[r].at # "free" =>
    LET chain == request[r].chain
    IN  IF OfCommit(r) THEN Within(chain, ChainOf(request[r].asked, ProactiveCheck).names)
        ELSE IF Written(r).explicit THEN Within(chain, Written(r).names)
        ELSE Stable(loaded, chain, Written(r).names)

THEOREM ServedAsWritten == Spec => []WrittenOrder
<1>1. ASSUME DelegateInv, NEW r \in Requests, request[r].at # "free", OfCommit(r)
      PROVE  Within(request[r].chain, ChainOf(request[r].asked, ProactiveCheck).names)
  <2> DEFINE asked == request[r].asked
             names == LocalOnly(asked)
  <2>1. /\ loaded \in Configs /\ asked \in Configs
        /\ request[r].chain # <<>> /\ request[r].chain = Trusted(names, loaded)
    BY <1>1, StandsInItsChain DEF OfCommit, Reachable
  <2>2. names \in Seq(CandidateNames)
    BY <2>1, LocalOnlyIsLocal
  <2> HIDE DEF names
  <2>3. request[r].chain \in Seq(CandidateNames) /\ Within(request[r].chain, names)
    BY <2>1, <2>2, TrustedIsLocal
  <2>4. names # <<>>
    BY <2>1, <2>3, WithinNothing
  <2>5. Within(names, ChainOf(asked, ProactiveCheck).names)
    BY <2>1, <2>4, LocalOrderIsKept DEF names
  <2> QED
    BY <2>3, <2>5, WithinIsTransitive
<1>2. ASSUME DelegateInv, NEW r \in Requests, request[r].at # "free", ~ OfCommit(r)
      PROVE  IF Written(r).explicit THEN Within(request[r].chain, Written(r).names)
             ELSE Stable(loaded, request[r].chain, Written(r).names)
  <2> DEFINE task == request[r].task
  <2>1. /\ loaded \in Configs /\ ResolveChain(loaded, task) # <<>>
        /\ request[r].chain = ResolveChain(loaded, task)
    BY <1>2, StandsInItsChain DEF OfCommit, Reachable
  <2>2. HasChain(loaded, task)
    BY <2>1, ResolveProperties
  <2>3. Written(r) = ChainOf(loaded, task)
    BY <2>1, <2>2, WrittenIsFirst
  <2> QED
    BY <2>1, <2>3, WrittenOrderIsKept
<1>3. DelegateInv => WrittenOrder
  BY <1>1, <1>2 DEF WrittenOrder
<1> QED
  BY <1>3, DelegateHolds, PTL

(* The requests of the daemon live as those of any chain of candidates do   *)
(* (queue.py:51-59, server.py:132-168): whoever asks, for whatever names,  *)
(* moves them only as ChainWalk allows.                                    *)
THEOREM ProactiveImplementsChainWalk == Spec => Queue!Spec
<1>1. Init => Queue!Init
  BY DEF Init, Queue!Init
<1>2. DelegateInv /\ [Next]_vars => [Queue!Next]_request
  <2> SUFFICES ASSUME DelegateInv, [Next]_vars PROVE [Queue!Next]_request
    OBVIOUS
  <2>1. CASE StopDaemon
    BY <2>1 DEF StopDaemon, Queue!Next
  <2>2. CASE Move
    BY <2>2 DEF Move, Queue!Next
  <2>3. CASE \E r \in Requests : Cancel(r) \/ Reply(r)
    BY <2>3 DEF Cancel, Reply, Queue!Next
  <2>4. CASE Post
    <3>1. ASSUME NEW r \in Requests, NEW chain, Accept(r, chain),
                 chain = Trusted(LocalOnly(committed.asked), loaded), loaded # Off
          PROVE  Queue!Next
      <4> DEFINE new == [at |-> "queued", task |-> ProactiveCheck, chain |-> chain, pos |-> 0,
                         asked |-> committed.asked]
      <4>1. committed.asked \in Configs /\ loaded \in Configs
        BY <3>1 DEF DelegateInv, DelegateTyped, Commits
      <4>2. chain \in Seq(CandidateNames)
        BY <3>1, <4>1, LocalOnlyIsLocal, TrustedIsLocal
      <4>3. new \in [at : {"queued"}, task : AllTasks, chain : Seq(CandidateNames), pos : {0},
                     asked : Configs \cup {Off}]
        BY <4>1, <4>2 DEF AllTasks
      <4>4. Queue!Accept(r, new)
        BY <3>1 DEF Accept
      <4> HIDE DEF new
      <4> QED
        BY <4>3, <4>4 DEF Queue!Next
    <3> QED
      BY <2>4, <3>1 DEF Post
  <2>5. ASSUME NEW r \in Requests, Delegate(r)
        PROVE  Queue!Next
    <3>1. PICK t \in AllTasks :
            Queue!Accept(r, [at |-> "queued", task |-> t, chain |-> ResolveChain(loaded, t),
                             pos |-> 0, asked |-> Off])
      BY <2>5 DEF Delegate
    <3>2. ResolveChain(loaded, t) \in Seq(CandidateNames)
      BY <2>5, <3>1, ResolveProperties DEF Delegate, DelegateInv, DelegateTyped, Queue!Accept
    <3> QED
      BY <3>1, <3>2 DEF Queue!Next
  <2>6. CASE UNCHANGED request
    BY <2>6
  <2> QED
    BY <2>1, <2>2, <2>3, <2>4, <2>5, <2>6
    DEF Next, DelegateStep, Edit, StartDaemon, Commit, GiveUp, vars, delegateVars
<1> QED
  BY <1>1, <1>2, DelegateHolds, PTL DEF Spec, Queue!Spec

-----------------------------------------------------------------------------
(***************************************************************************)
(* The parts of the composition: the installers and the watcher move as    *)
(* their own specifications say, so what is proved of them holds here.     *)
(***************************************************************************)

HookProofs == INSTANCE CommitHookProofs
SaveProofs == INSTANCE SaveWatcherProofs

(* An installer's step leaves the rest alone, and nobody else's is one. *)
LEMMA HookPart == [Next]_vars => [HookProofs!Next]_HookProofs!vars
<1>1. Hook!Next <=> HookProofs!Next
  BY DEF Hook!Next, HookProofs!Next, Hook!Step, HookProofs!Step, Hook!Begin, HookProofs!Begin,
         Hook!Read, HookProofs!Read, Hook!Open, HookProofs!Open, Hook!Write, HookProofs!Write,
         Hook!Chmod, HookProofs!Chmod, Hook!Kill, HookProofs!Kill, Hook!Go, HookProofs!Go,
         Hook!Stay, HookProofs!Stay, Hook!Chainable, HookProofs!Chainable, Hook!Nothing,
         HookProofs!Nothing
<1> QED
  BY <1>1 DEF Next, vars, hookVars, HookProofs!vars

(* A step of the watcher, whose check carries a configuration, is one of a *)
(* watcher alone.                                                          *)
LEMMA SavePart == [Next]_vars => [SaveProofs!Next]_SaveProofs!vars
<1>1. SaveStep => Saves!Next
  BY DEF SaveStep, CheckStarts, Saves!Next, Saves!Run
<1>2. Saves!Next <=> SaveProofs!Next
  BY DEF Saves!Next, SaveProofs!Next, Saves!OnSave, SaveProofs!OnSave, Saves!Run, SaveProofs!Run,
         Saves!Save, SaveProofs!Save, Saves!Store, SaveProofs!Store, Saves!Schedule,
         SaveProofs!Schedule, Saves!Elapse, SaveProofs!Elapse, Saves!Clear, SaveProofs!Clear,
         Saves!CheckEnds, SaveProofs!CheckEnds, Saves!Tick, SaveProofs!Tick, Saves!AfterCancel,
         SaveProofs!AfterCancel, Saves!Cancelled, SaveProofs!Cancelled, Saves!Free,
         SaveProofs!Free, Saves!Quiet, SaveProofs!Quiet, Saves!Outstanding,
         SaveProofs!Outstanding
<1> QED
  BY <1>1, <1>2 DEF Next, vars, saveVars, SaveProofs!vars

LEMMA PartsStart == Init => HookProofs!Init /\ SaveProofs!Init
  BY DEF Init, Hook!Init, HookProofs!Init, Hook!Scripts, HookProofs!Scripts, Hook!Nothing,
         HookProofs!Nothing, Hook!Idle, HookProofs!Idle, Saves!Init, SaveProofs!Init, Saves!Free,
         SaveProofs!Free

LEMMA HookInvHolds == Spec => []HookProofs!HookInv
<1>1. Init => HookProofs!HookInv
  BY PartsStart, HookProofs!InitHook
<1>2. HookProofs!HookInv /\ [Next]_vars => HookProofs!HookInv'
  BY HookPart, HookProofs!HookStep
<1> QED
  BY <1>1, <1>2, PTL DEF Spec

LEMMA WatcherInvHolds == Spec => []SaveProofs!WatcherInv
<1>1. Init => SaveProofs!WatcherInv
  BY PartsStart, SaveProofs!InitWatcher, TimersAssumption, DebounceAssumption
<1>2. SaveProofs!WatcherInv /\ [Next]_vars => SaveProofs!WatcherInv'
  BY SavePart, SaveProofs!WatcherStep, TimersAssumption, DebounceAssumption
<1> QED
  BY <1>1, <1>2, PTL DEF Spec

(* Every variable of the composition keeps its type. *)
THEOREM ProactiveTyped == Spec => []TypeOK
<1>1. HookProofs!HookInv => Hook!TypeOK
  BY DEF HookProofs!HookInv, HookProofs!TypeOK, Hook!TypeOK, Hook!Texts, HookProofs!Texts,
         Hook!Scripts, HookProofs!Scripts, Hook!Steps, HookProofs!Steps
<1>2. SaveProofs!WatcherInv => Saves!TypeOK
  BY DEF SaveProofs!WatcherInv, SaveProofs!TypeOK, Saves!TypeOK
<1>3. DelegateInv /\ ChecksTyped /\ Hook!TypeOK /\ Saves!TypeOK => TypeOK
  BY DEF DelegateInv, DelegateTyped, ChecksTyped, Fits, TypeOK
<1> QED
  BY <1>1, <1>2, <1>3, DelegateHolds, HookInvHolds, WatcherInvHolds, PTL

(* Beside a daemon and a watcher `josu init` still keeps its word: a hook   *)
(* reported as installed is run by every commit (watchers.py:474-493).      *)
THEOREM HookPromiseIsKept == Spec => []InstalledHookRuns
<1>1. HookProofs!HookInv => InstalledHookRuns
  BY DEF HookProofs!HookInv, HookProofs!WrittenInv, HookProofs!ExecInv, HookProofs!NobodyWrites,
         HookProofs!Writing, HookProofs!AtChmod, HookProofs!After, InstalledHookRuns,
         Hook!InstalledHookRuns, Hook!Settled, Hook!Busy, Hook!Runs
<1> QED
  BY <1>1, HookInvHolds, PTL

(* And the developer's own script is not lost (watchers.py:484-489). *)
THEOREM HookScriptIsKept == Spec => []ScriptIsKept
<1>1. HookProofs!HookInv => ScriptIsKept
  BY DEF HookProofs!HookInv, HookProofs!KeptInv, HookProofs!NobodyWrites, HookProofs!Writing,
         HookProofs!Before, HookProofs!After, ScriptIsKept, Hook!ScriptIsKept, Hook!Settled,
         Hook!Busy
<1> QED
  BY <1>1, HookInvHolds, PTL

(* A check for a save waits for quiet here as in a watcher of its own       *)
(* (watchers.py:379-383), whatever configuration it is given.               *)
THEOREM ChecksWaitForQuiet == Spec => FiresAfterQuiet
<1>1. SaveProofs!WatcherInv /\ [Next]_vars =>
        [\A t \in Timers : timer[t].at = "due" /\ timer'[t].at = "firing" /\ ~ raced
           => sinceSave >= Debounce]_Saves!vars
  BY SavePart, DebounceAssumption DEF SaveProofs!WatcherInv, SaveProofs!TypeOK,
     SaveProofs!DueIsOver, SaveProofs!WindowIsWaited, SaveProofs!Outstanding
<1> QED
  BY <1>1, WatcherInvHolds, PTL DEF Spec, FiresAfterQuiet, Saves!FiresAfterQuiet
=============================================================================
