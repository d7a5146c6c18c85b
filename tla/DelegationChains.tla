-------------------------- MODULE DelegationChains --------------------------
(***************************************************************************)
(* What a josu.toml says about delegation and what the code makes of it    *)
(* (config/__init__.py, config/delegate.py, config/chains.py): the         *)
(* registry of candidates, the fallback chain of a task type, and the      *)
(* local-only chain of the proactive checks.                               *)
(*                                                                         *)
(* The entries of a document (Toml) may be malformed (valid = FALSE).  A   *)
(* configuration is what load_config returns: the same record without the  *)
(* malformed ones.                                                         *)
(***************************************************************************)
EXTENDS Naturals, FiniteSets, Sequences, SequencesExt

CONSTANTS
  Missing,         \* there is no josu.toml
  ProactiveCheck,  \* PROACTIVE_CHECK_TASK_TYPE
  CandidateNames   \* names that candidates may have

Toml ==
  [candidates : Seq([name : CandidateNames, local : BOOLEAN, valid : BOOLEAN]),
   chains : Seq([task : STRING, names : Seq(CandidateNames), explicit : BOOLEAN,
                 hosted : BOOLEAN, valid : BOOLEAN]),
   remote : BOOLEAN]

(***************************************************************************)
(* What a comprehension over a sequence keeps: its entries at some         *)
(* positions, in their order.                                              *)
(***************************************************************************)
Rank(positions, i) == Cardinality({j \in positions : j < i})
Pick(s, positions) ==
  [k \in 1..Cardinality(positions) |->
     s[CHOOSE i \in positions : Rank(positions, i) = k - 1]]
Kept(s, S) == Pick(s, {i \in DOMAIN s : s[i] \in S})

EmptyConfig == [candidates |-> <<>>, chains |-> <<>>, remote |-> FALSE]

Valid(entries) == Kept(entries, {e \in ToSet(entries) : e.valid})

(* load_config: a malformed entry is dropped and the others are kept. *)
Load(document) ==
  IF document = Missing THEN EmptyConfig
  ELSE [document EXCEPT !.candidates = Valid(@), !.chains = Valid(@)]

(* The registry maps a name to whether it is local; the last entry wins. *)
Names(config) == {entry.name : entry \in ToSet(config.candidates)}
Registry(config) ==
  [n \in Names(config) |->
     LET i == SelectLastInSeq(config.candidates, LAMBDA entry : entry.name = n)
     IN  config.candidates[i].local]

LocalIn(registry) == {n \in DOMAIN registry : registry[n]}

Lookup(names, registry) == Kept(names, DOMAIN registry)
OnlyLocal(names, registry) == Kept(names, LocalIn(registry))
OnlyRemote(names, registry) == Kept(names, ToSet(names) \ LocalIn(registry))

(* Mutant: the order of the file is kept. *)
FileOrder(names, registry) == names

(* A stable sort on one bit. *)
DefaultOrder(names, registry) ==
  OnlyLocal(names, registry) \o OnlyRemote(names, registry)

(* Of two chains for a task type the first one counts. *)
Chain(config, task) == SelectInSeq(config.chains, LAMBDA c : c.task = task)
HasChain(config, task) == Chain(config, task) > 0
ChainOf(config, task) == config.chains[Chain(config, task)]

Ordered(chain, names, registry) ==
  IF chain.explicit THEN names ELSE DefaultOrder(names, registry)

StaysHosted(config, task) == ChainOf(config, task).hosted

(* Mutant: what is not local is left out whatever allow_remote says. *)
AlwaysOnlyLocal(config, names, registry) == OnlyLocal(names, registry)

Permitted(config, names, registry) ==
  IF config.remote THEN names ELSE OnlyLocal(names, registry)

(* resolve_chain *)
ResolveChain(config, task) ==
  IF ~ HasChain(config, task) \/ StaysHosted(config, task) THEN <<>>
  ELSE LET registry == Registry(config)
           chain == ChainOf(config, task)
       IN  Permitted(config, Ordered(chain, Lookup(chain.names, registry), registry),
                     registry)

(* resolve_proactive_check_chain asks neither for stays_hosted nor for     *)
(* allow_remote.                                                           *)
ResolveProactive(config) ==
  IF ~ HasChain(config, ProactiveCheck) THEN <<>>
  ELSE LET registry == Registry(config)
           chain == ChainOf(config, ProactiveCheck)
       IN  Ordered(chain, OnlyLocal(chain.names, registry), registry)

(* The keys of a dictionary built from a sequence, in insertion order. *)
Distinct(names) ==
  Pick(names, {i \in DOMAIN names : \A j \in 1..(i - 1) : names[j] # names[i]})

(* _local_only_execution_inputs, and the names the commit hook posts *)
LocalOnly(config) == Distinct(ResolveProactive(config))

(* Mutant: it takes the sender's word that they are local. *)
AnyKnown(names, config) == Lookup(names, Registry(config))

(* What the endpoint makes of posted names, with its own registry. *)
Trusted(names, config) == OnlyLocal(names, Registry(config))
=============================================================================
