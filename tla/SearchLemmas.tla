---------------------------- MODULE SearchLemmas ----------------------------
(***************************************************************************)
(* What the proofs about both walks rest on: facts about sequences, about  *)
(* the file system and about the paths a search is to print.               *)
(***************************************************************************)
EXTENDS SearchSpace, FilterLemmas, SequenceTheorems, FiniteSetTheorems, TLAPS

-----------------------------------------------------------------------------
(* Sequences. *)

(* A sequence is its first n elements and the rest. *)
LEMMA SplitAt ==
  ASSUME NEW T, NEW s \in Seq(T), NEW n \in 0..Len(s)
  PROVE  /\ SubSeq(s, 1, n) \in Seq(T) /\ Len(SubSeq(s, 1, n)) = n
         /\ SubSeq(s, n + 1, Len(s)) \in Seq(T)
         /\ Len(SubSeq(s, n + 1, Len(s))) = Len(s) - n
         /\ SubSeq(s, 1, n) \o SubSeq(s, n + 1, Len(s)) = s
  <1>1. Len(s) \in Nat /\ n \in Nat /\ n <= Len(s) /\ \A i \in 1..Len(s) : s[i] \in T
    BY LenProperties
  <1>2. SubSeq(s, 1, n) \in Seq(T) /\ Len(SubSeq(s, 1, n)) = n
    <2>1. \A i \in 1..n : s[i] \in T
      BY <1>1
    <2>2. Len(SubSeq(s, 1, n)) = (IF 1 <= n THEN n - 1 + 1 ELSE 0) /\ SubSeq(s, 1, n) \in Seq(T)
      BY <1>1, <2>1, SubSeqProperties
    <2> QED BY <1>1, <2>2
  <1>3. /\ SubSeq(s, n + 1, Len(s)) \in Seq(T)
        /\ Len(SubSeq(s, n + 1, Len(s))) = Len(s) - n
    <2>1. \A i \in (n + 1)..Len(s) : s[i] \in T
      BY <1>1
    <2>2. /\ SubSeq(s, n + 1, Len(s)) \in Seq(T)
          /\ Len(SubSeq(s, n + 1, Len(s)))
               = IF n + 1 <= Len(s) THEN Len(s) - (n + 1) + 1 ELSE 0
      BY <1>1, <2>1, SubSeqProperties
    <2> QED BY <1>1, <2>2
  <1>4. SubSeq(s, 1, n) \o SubSeq(s, n + 1, Len(s)) = SubSeq(s, 1, Len(s))
    <2>1. 1 \in 1..(Len(s) + 1) /\ n \in (1 - 1)..Len(s) /\ Len(s) \in n..Len(s)
      BY <1>1
    <2> QED BY <2>1, ConcatAdjacentSubSeq
  <1> QED BY <1>2, <1>3, <1>4, SubSeqFull

(* What is left of a concatenation after its first n elements. *)
LEMMA DropConcat ==
  ASSUME NEW T, NEW s \in Seq(T), NEW t \in Seq(T), NEW n \in 0..(Len(s) + Len(t))
  PROVE  LET u == s \o t
         IN /\ n <= Len(s) =>
                 SubSeq(u, n + 1, Len(u)) = SubSeq(s, n + 1, Len(s)) \o t
            /\ n >= Len(s) =>
                 SubSeq(u, n + 1, Len(u)) = SubSeq(t, n - Len(s) + 1, Len(t))
  <1> DEFINE u == s \o t
             a == SubSeq(s, 1, n)
             b == SubSeq(s, n + 1, Len(s))
             c == SubSeq(u, 1, n)
             d == SubSeq(u, n + 1, Len(u))
  <1>1. Len(s) \in Nat /\ Len(t) \in Nat /\ n \in Nat
    BY LenProperties
  <1>2. u \in Seq(T) /\ Len(u) = Len(s) + Len(t)
    BY ConcatProperties
  <1>3. /\ \A i \in 1..Len(s) : u[i] = s[i]
        /\ \A i \in 1..Len(t) : u[Len(s) + i] = t[i]
    <2>1. \A i \in 1..(Len(s) + Len(t)) : u[i] = IF i <= Len(s) THEN s[i] ELSE t[i - Len(s)]
      BY ConcatProperties
    <2>2. \A i \in 1..Len(t) :
            /\ Len(s) + i \in 1..(Len(s) + Len(t)) /\ ~(Len(s) + i <= Len(s))
            /\ (Len(s) + i) - Len(s) = i
      BY <1>1
    <2> HIDE DEF u
    <2>3. \A i \in 1..Len(t) : u[Len(s) + i] = t[i]
      BY <2>1, <2>2
    <2>4. \A i \in 1..Len(s) : u[i] = s[i]
      BY <1>1, <2>1
    <2> QED BY <2>3, <2>4
  <1>4. n \in 0..Len(u)
    BY <1>1, <1>2
  <1>5. d \in Seq(T) /\ Len(d) = Len(u) - n
    BY <1>2, <1>4, SplitAt
  <1>6. \A i \in 1..(Len(u) - n) : d[i] = u[n + i]
    <2>1. \A i \in (n + 1)..Len(u) : u[i] \in T
      BY <1>1, <1>2, LenProperties
    <2>2. \A i \in 1..(Len(u) - (n + 1) + 1) : d[i] = u[(n + 1) + i - 1]
      BY <1>1, <1>2, <2>1, SubSeqProperties
    <2> HIDE DEF d, u
    <2>3. \A i \in 1..(Len(u) - n) : i \in 1..(Len(u) - (n + 1) + 1) /\ (n + 1) + i - 1 = n + i
      BY <1>1, <1>2
    <2> QED BY <2>2, <2>3
  <1> HIDE DEF u, d
  <1>7. ASSUME n <= Len(s) PROVE d = b \o t
    <2>1. n \in 0..Len(s)
      BY <1>1, <1>7
    <2>2. b \in Seq(T) /\ Len(b) = Len(s) - n
      BY <2>1, SplitAt
    <2>3. \A i \in 1..(Len(s) - n) : b[i] = s[n + i]
      <3>1. \A i \in (n + 1)..Len(s) : s[i] \in T
        BY <1>1, LenProperties
      <3>2. \A i \in 1..(Len(s) - (n + 1) + 1) : b[i] = s[(n + 1) + i - 1]
        BY <1>1, <3>1, SubSeqProperties
      <3> HIDE DEF b
      <3>3. \A i \in 1..(Len(s) - n) : i \in 1..(Len(s) - (n + 1) + 1) /\ (n + 1) + i - 1 = n + i
        BY <1>1
      <3> QED BY <3>2, <3>3
    <2> HIDE DEF b
    <2>4. /\ b \o t \in Seq(T) /\ Len(b \o t) = Len(b) + Len(t)
          /\ \A i \in 1..(Len(b) + Len(t)) : (b \o t)[i] = IF i <= Len(b) THEN b[i] ELSE t[i - Len(b)]
      BY <2>2, ConcatProperties
    <2>5. Len(b \o t) = Len(d)
      BY <1>1, <1>2, <1>5, <2>2, <2>4
    <2>6. \A i \in 1..Len(d) : d[i] = (b \o t)[i]
      <3> SUFFICES ASSUME NEW i \in 1..Len(d) PROVE d[i] = (b \o t)[i]
        OBVIOUS
      <3>1. i \in 1..(Len(u) - n) /\ i \in 1..(Len(b) + Len(t))
        BY <1>5, <2>4, <2>5
      <3>2. CASE i <= Len(b)
        <4>1. i \in 1..(Len(s) - n) /\ n + i \in 1..Len(s)
          BY <1>1, <2>2, <3>1, <3>2
        <4> QED BY <1>3, <1>6, <2>3, <2>4, <3>1, <3>2, <4>1
      <3>3. CASE ~(i <= Len(b))
        <4>1. /\ i - Len(b) \in 1..Len(t)
              /\ Len(s) + (i - Len(b)) = n + i
          BY <1>1, <2>2, <3>1, <3>3
        <4>2. u[n + i] = t[i - Len(b)]
          BY <1>3, <4>1
        <4> QED BY <1>6, <2>4, <3>1, <3>3, <4>2
      <3> QED BY <3>2, <3>3
    <2> QED BY <1>5, <2>4, <2>5, <2>6, SeqEqual
  <1>8. ASSUME n >= Len(s) PROVE d = SubSeq(t, n - Len(s) + 1, Len(t))
    <2> DEFINE m == n - Len(s)
               e == SubSeq(t, m + 1, Len(t))
    <2>1. m \in 0..Len(t)
      BY <1>1, <1>8
    <2>2. e \in Seq(T) /\ Len(e) = Len(t) - m
      BY <2>1, SplitAt
    <2>3. \A i \in 1..(Len(t) - m) : e[i] = t[m + i]
      <3>1. \A i \in (m + 1)..Len(t) : t[i] \in T
        BY <1>1, <2>1, LenProperties
      <3>2. \A i \in 1..(Len(t) - (m + 1) + 1) : e[i] = t[(m + 1) + i - 1]
        BY <1>1, <2>1, <3>1, SubSeqProperties
      <3> HIDE DEF e, m
      <3>3. \A i \in 1..(Len(t) - m) : i \in 1..(Len(t) - (m + 1) + 1) /\ (m + 1) + i - 1 = m + i
        BY <1>1, <2>1
      <3> QED BY <3>2, <3>3
    <2> HIDE DEF e
    <2>4. Len(e) = Len(d)
      BY <1>1, <1>2, <1>5, <2>2
    <2>5. \A i \in 1..Len(d) : d[i] = e[i]
      <3> SUFFICES ASSUME NEW i \in 1..Len(d) PROVE d[i] = e[i]
        OBVIOUS
      <3>1. /\ i \in 1..(Len(u) - n) /\ i \in 1..(Len(t) - m)
            /\ m + i \in 1..Len(t) /\ Len(s) + (m + i) = n + i
        BY <1>1, <1>2, <1>5, <1>8, <2>1
      <3> HIDE DEF m
      <3> QED BY <1>3, <1>6, <2>3, <3>1
    <2> QED BY <1>5, <2>2, <2>4, <2>5, SeqEqual DEF e
  <1> QED BY <1>7, <1>8 DEF u, d

(* Operations on sequences under a name, to cite laws about them without   *)
(* expanding them.                                                         *)
Cat(s, t) == s \o t
Take(s, n) == SubSeq(s, 1, n)
Drop(s, n) == SubSeq(s, n + 1, Len(s))

(* Three sequences put together in two ways. *)
LEMMA ThreeConcat ==
  ASSUME NEW T, NEW s \in Seq(T), NEW t \in Seq(T), NEW u \in Seq(T)
  PROVE  Cat(Cat(s, t), u) = Cat(s, Cat(t, u))
  BY ConcatAssociative, SMTT(30) DEF Cat

(* Four sequences put together in two ways. *)
LEMMA FourConcat ==
  ASSUME NEW T, NEW s \in Seq(T), NEW t \in Seq(T), NEW u \in Seq(T), NEW v \in Seq(T)
  PROVE  Cat(Cat(s, t), Cat(u, v)) = Cat(s, Cat(Cat(t, u), v))
  <1>1. Cat(Cat(t, u), v) = Cat(t, Cat(u, v))
    BY ThreeConcat
  <1>2. Cat(u, v) \in Seq(T)
    BY ConcatProperties DEF Cat
  <1>3. Cat(Cat(s, t), Cat(u, v)) = Cat(s, Cat(t, Cat(u, v)))
    BY <1>2, ThreeConcat
  <1> QED BY <1>1, <1>3

(* The first n elements of a sequence. *)
LEMMA PrefixFacts ==
  ASSUME NEW T, NEW s \in Seq(T), NEW n \in Nat, n <= Len(s)
  PROVE  /\ SubSeq(s, 1, n) \in Seq(T)
         /\ Len(SubSeq(s, 1, n)) = n
         /\ \A k \in 1..n : SubSeq(s, 1, n)[k] = s[k]
  <1>1. \A k \in 1..n : s[k] \in T
    BY LenProperties
  <1> QED BY <1>1, SubSeqProperties

(* A path written at length n over a longer buffer. *)
LEMMA OverwriteFacts ==
  ASSUME NEW T, NEW s \in Seq(T), NEW n \in Nat, n <= Len(s), NEW e \in T
  PROVE  LET t == Append(SubSeq(s, 1, n), e)
         IN /\ t \in Seq(T)
            /\ Len(t) = n + 1
            /\ \A k \in 1..n : t[k] = s[k]
            /\ t[n + 1] = e
            /\ SubSeq(t, 1, n) = SubSeq(s, 1, n)
            /\ n = Len(s) => SubSeq(t, 1, n) = s
  <1> DEFINE r == SubSeq(s, 1, n)
             t == Append(r, e)
  <1>1. r \in Seq(T) /\ Len(r) = n /\ \A k \in 1..n : r[k] = s[k]
    BY PrefixFacts
  <1> HIDE DEF r
  <1>2. /\ t \in Seq(T) /\ Len(t) = n + 1 /\ t[n + 1] = e
        /\ \A k \in 1..n : t[k] = r[k]
    BY <1>1, AppendProperties
  <1> HIDE DEF t
  <1>3. /\ SubSeq(t, 1, n) \in Seq(T) /\ Len(SubSeq(t, 1, n)) = n
        /\ \A k \in 1..n : SubSeq(t, 1, n)[k] = t[k]
    BY <1>2, PrefixFacts
  <1>4. SubSeq(t, 1, n) = r
    BY <1>1, <1>2, <1>3, SeqEqual
  <1>5. n = Len(s) => r = s
    BY <1>1, SeqEqual
  <1> QED BY <1>1, <1>2, <1>4, <1>5 DEF r, t

(* A sequence that is not empty has one element or more. *)
LEMMA NonEmptyLength ==
  ASSUME NEW T, NEW s \in Seq(T), s # <<>>
  PROVE  Len(s) \in Nat /\ (Len(s) = 1 \/ Len(s) > 1)
  <1> DEFINE n == Len(s)
  <1>1. n \in Nat \ {0}
    OBVIOUS
  <1> HIDE DEF n
  <1>2. n \in Nat /\ (n = 1 \/ n > 1)
    BY <1>1
  <1> QED BY <1>2 DEF n

-----------------------------------------------------------------------------
(* The file system. *)

(* A stat answers for exactly the entries that lead to an inode.           *)
LEMMA StatFacts ==
  ASSUME NEW d \in Dirents, NEW follow \in BOOLEAN
  PROVE  /\ NodeOf(d, follow) \in Inodes \cup {NoInode}
         /\ StatOf(d, follow) # NoMeta =>
              /\ NodeOf(d, follow) \in Inodes
              /\ StatOf(d, follow) = Meta[NodeOf(d, follow)]
              /\ StatOf(d, follow) \in MetaRecords
         /\ NodeOf(d, follow) \in Inodes => StatOf(d, follow) # NoMeta
  BY FileTreeAssumption DEF NodeOf, StatOf

(* fstatat with the name of an entry and the directory that holds it finds *)
(* that entry: the walk opens a directory by the descriptor and the name   *)
(* it read from it.                                                        *)
LEMMA FstatatFindsEntry ==
  ASSUME NEW i \in Inodes, NEW d \in Dirents, HolderOf[d] = i, NEW follow \in BOOLEAN
  PROVE  fstatat(i, NameOf[d], follow) = StatOf(d, follow)
  <1> DEFINE hits == {e \in EntriesOf(i) : NameOf[e] = NameOf[d]}
  <1>1. d \in hits
    BY DEF EntriesOf
  <1>2. \A e \in hits : e = d
    BY FileTreeAssumption DEF EntriesOf
  <1>3. (CHOOSE e \in hits : TRUE) = d
    BY <1>1, <1>2
  <1>4. hits # {}
    BY <1>1
  <1> HIDE DEF hits
  <1>5. fstatat(i, NameOf[d], follow)
          = IF hits = {} THEN NoMeta ELSE StatOf(CHOOSE e \in hits : TRUE, follow)
    BY DEF fstatat, hits
  <1> QED BY <1>3, <1>4, <1>5

(* An entry that is not a link is what d_type says, if that says anything; *)
(* a link is one unless it is looked through.                              *)
LEMMA DTypeFacts ==
  ASSUME NEW d \in Dirents, HolderOf[d] # NoInode, NEW follow \in BOOLEAN, DType(d) # "any",
         StatOf(d, follow) # NoMeta
  PROVE  \/ StatOf(d, follow).type = DType(d)
         \/ DType(d) = "symlink" /\ follow
  BY FileTreeAssumption DEF DType, StatOf, NodeOf

-----------------------------------------------------------------------------
(* Searches. *)

(* What a search is known to be. *)
LEMMA SearchFacts ==
  ASSUME NEW cfg \in Configs
  PROVE  /\ BoundOptions(cfg.options)
         /\ cfg.options.max_depth \in Nat \cup {None}
         /\ None \notin Nat
         /\ cfg.follow_symlinks \in BOOLEAN
         /\ cfg.one_file_system \in BOOLEAN
         /\ Roots(cfg) \in Seq(Dirents)
         /\ Len(Roots(cfg)) > 0
  <1>1. /\ BoundOptions(cfg.options)
        /\ cfg.roots \in Seq(Dirents) /\ DefaultRoot \in Dirents
        /\ cfg.follow_symlinks \in BOOLEAN /\ cfg.one_file_system \in BOOLEAN
    BY SearchSpaceAssumption
  <1>2. Roots(cfg) \in Seq(Dirents) /\ Len(Roots(cfg)) > 0
    BY <1>1 DEF Roots
  <1> QED BY <1>1, <1>2, FilterAssumption DEF BoundOptions

(* An argument has a component, so its path is not empty. *)
LEMMA ArgLengthType == \A d \in Dirents : ArgLength[d] \in Nat \ {0}
  <1> SUFFICES ASSUME NEW d \in Dirents PROVE ArgLength[d] \in Nat \ {0}
    OBVIOUS
  <1>1. ArgNames[d] \in Seq(Names) /\ ArgNames[d] # <<>>
    BY SearchSpaceAssumption
  <1>2. Len(ArgNames[d]) \in Nat \ {0}
    BY <1>1
  <1> QED BY <1>2 DEF ArgLength

(* Whether the search was to look into the directory a path leads to after *)
(* k entries.                                                              *)
EnterableAt(cfg, path, k) ==
  /\ IsDirectory(cfg, path[k])
  /\ cfg.options.max_depth # None => k - 1 < cfg.options.max_depth
  /\ k > 1 =>
       /\ Visible(cfg, path[k])
       /\ cfg.options.respect_ignore_defaults => NameOf[path[k]] \notin IgnoredNames

(* Enterable looks at the last entry of a prefix and at its length. *)
LEMMA EnterablePrefix ==
  ASSUME NEW cfg, NEW path \in Seq(Dirents), NEW k \in 1..Len(path)
  PROVE  Enterable(cfg, SubSeq(path, 1, k)) <=> EnterableAt(cfg, path, k)
  <1>1. Len(path) \in Nat
    OBVIOUS
  <1>2. k \in Nat /\ k <= Len(path) /\ k \in 1..k
    BY <1>1
  <1>3. Len(SubSeq(path, 1, k)) = k /\ SubSeq(path, 1, k)[k] = path[k]
    BY <1>2, PrefixFacts
  <1> QED BY <1>3 DEF Enterable, EnterableAt

(* A chain, said entry by entry. *)
LEMMA ChainByEntries ==
  ASSUME NEW cfg, NEW path \in Seq(Dirents)
  PROVE  IsChain(cfg, path) <=>
           /\ path # <<>>
           /\ \E i \in DOMAIN Roots(cfg) : path[1] = Roots(cfg)[i]
           /\ \A k \in 2..Len(path) :
                /\ HolderOf[path[k]] = NodeOf(path[k - 1], cfg.follow_symlinks)
                /\ EnterableAt(cfg, path, k - 1)
  <1>1. Len(path) \in Nat
    OBVIOUS
  <1>2. \A k \in 2..Len(path) : k - 1 \in 1..Len(path)
    BY <1>1
  <1>3. \A k \in 2..Len(path) :
          Enterable(cfg, SubSeq(path, 1, k - 1)) <=> EnterableAt(cfg, path, k - 1)
    BY <1>2, EnterablePrefix
  <1> QED BY <1>3 DEF IsChain

(* The capacity bounds the length of what is wanted, so WantedOf leaves    *)
(* no wanted path out.                                                     *)
LEMMA WantedBySequences ==
  ASSUME NEW cfg \in Configs, NEW path
  PROVE  path \in WantedOf[cfg] <=> path \in Seq(Dirents) /\ IsWanted(cfg, path)
  <1>1. PathCapacity \in Nat
    BY SearchSpaceAssumption
  <1>2. path \in WantedOf[cfg] <=> path \in BoundedPaths /\ IsWanted(cfg, path)
    BY <1>1 DEF WantedOf
  <1>3. path \in BoundedPaths => path \in Seq(Dirents)
    BY <1>1 DEF BoundedPaths
  <1>4. ASSUME path \in Seq(Dirents), IsWanted(cfg, path)
        PROVE  path \in BoundedPaths
    <2>1. path # <<>> /\ PathLength(path) < PathCapacity
      BY <1>4 DEF IsWanted, IsChain
    <2>2. Len(path) \in Nat \ {0} /\ path[1] \in Dirents /\ path \in [1..Len(path) -> Dirents]
      BY <1>4, <2>1
    <2>3. ArgLength[path[1]] \in Nat \ {0}
      BY <2>2, ArgLengthType
    <2>4. Len(path) \in 1..(PathCapacity - 1)
      BY <1>1, <2>1, <2>2, <2>3 DEF PathLength
    <2> QED BY <2>2, <2>4 DEF BoundedPaths
  <1> QED BY <1>2, <1>3, <1>4

(* The verdict on a root is what the options ask for, unless the root is   *)
(* taken for something else.                                               *)
LEMMA RootVerdictMatches ==
  ASSUME NEW cfg \in Configs, RootsNotMistaken(cfg), NEW i \in DOMAIN Roots(cfg),
         NEW r, r = Roots(cfg)[i], NEW st, st = StatOf(r, cfg.follow_symlinks), st # NoMeta
  PROVE  RootVerdict(cfg, r, st) = ACCEPT <=> Matches(cfg, <<r>>)
  <1> DEFINE o == cfg.options
             p == predicate_from_options(o, Now)
             c == root_candidate(r, st)
             again == fstatat(Cwd, NameOf[r], FALSE)
             e == [path |-> <<r>>, basename |-> NameOf[r], depth |-> 0,
                   type |-> TypeOfPath(cfg, <<r>>)]
  <1>1. /\ r \in Dirents
        /\ st \in MetaRecords /\ st # NoMeta
    BY SearchFacts, StatFacts
  <1>2. BoundOptions(o)
    BY SearchFacts
  <1>3. /\ c.path = <<r>> /\ c.basename = NameOf[r] /\ c.depth = 0
        /\ c.entry_type = st.type /\ c.type_resolved = (st.type # "any")
        /\ c.stat_populated = TRUE /\ c.size_bytes = st.size
        /\ c.modification_time = st.mtime /\ c.permission_mask = st.perm
        /\ DOMAIN c = CandidateFields
    BY DEF root_candidate, CandidateFields
  <1>4. TypeOfPath(cfg, <<r>>) = st.type
    BY <1>1 DEF TypeOfPath
  <1>5. Matches(cfg, <<r>>) <=> Selected(o, Now, e, st)
    BY <1>1 DEF Matches
  <1>6. RootVerdict(cfg, r, st) = ACCEPT <=> filter_evaluate(p, c, again).decision = ACCEPT
    BY DEF RootVerdict, predicate
  <1>7. p.type_filter = o.type_filter /\ o.type_filter # "any"
    BY <1>2, PredicateFields, FilterAssumption DEF BoundOptions, EntryTypes
  <1> HIDE DEF c, p, again
  <1>8. ConsistentCandidate(c, st)
    <2>1. c.type_resolved \in BOOLEAN /\ (~c.type_resolved => c.entry_type = "any")
      BY <1>3
    <2>2. c.depth \in Nat
      BY <1>3
    <2>3. c.stat_populated \in BOOLEAN
      BY <1>3, Zenon
    <2> QED BY <2>1, <2>2, <2>3, <1>1, <1>3 DEF ConsistentCandidate
  <1>9. EntryOf(c, st) = e
    BY <1>3, <1>4 DEF EntryOf
  <1>10. filter_evaluate(p, c, st).decision = ACCEPT <=> Selected(o, Now, e, st)
    BY <1>2, <1>8, <1>9, EvaluateMeaning DEF p
  <1>11. CASE o.type_filter = None \/ c.type_resolved
    <2>1. filter_evaluate(p, c, again).decision = filter_evaluate(p, c, st).decision
      BY <1>3, <1>7, <1>11, AnswerUnused
    <2> QED BY <2>1, <1>5, <1>6, <1>10
  <1>12. CASE o.type_filter # None /\ ~c.type_resolved
    <2>1. st.type = "any"
      BY <1>3, <1>12
    <2>2. again = NoMeta \/ again.type = "any"
      BY <1>1, <1>12, <2>1 DEF RootsNotMistaken, again
    <2>3. RootVerdict(cfg, r, st) # ACCEPT
      BY <1>2, <1>3, <1>6, <1>12, <2>2, UnknownTypeRejected DEF p
    <2>4. ~Selected(o, Now, e, st)
      <3>1. e.type = "any" /\ o.type_filter # "any" /\ o.type_filter # None
        BY <2>1, <1>4, <1>7, <1>12
      <3> HIDE DEF e, o
      <3> QED BY <3>1, SelectedBounds
    <2> QED BY <2>3, <2>4, <1>5
  <1> QED BY <1>11, <1>12

-----------------------------------------------------------------------------
(* The line a path is printed as. *)

(* A path from an argument down, each entry in the directory the one       *)
(* before it leads to.                                                     *)
Linked(cfg, p) ==
  /\ p \in Seq(Dirents) /\ p # <<>>
  /\ \E i \in DOMAIN Roots(cfg) : p[1] = Roots(cfg)[i]
  /\ \A k \in 2..Len(p) :
       /\ HolderOf[p[k]] = NodeOf(p[k - 1], cfg.follow_symlinks)
       /\ HolderOf[p[k]] \in Inodes

(* The line is the argument's components and one name for each entry below *)
(* it.                                                                     *)
LEMMA PrintedText ==
  ASSUME NEW p \in Seq(Dirents), p # <<>>
  PROVE  LET a == ArgNames[p[1]]
         IN /\ a \in Seq(Names) /\ Len(a) \in Nat \ {0} /\ DOMAIN a = 1..Len(a)
            /\ Len(p) \in Nat \ {0}
            /\ Len(PrintedAs(p)) = Len(a) + Len(p) - 1
            /\ \A k \in 1..Len(a) : PrintedAs(p)[k] = a[k]
            /\ \A k \in 1..(Len(p) - 1) : PrintedAs(p)[Len(a) + k] = NameOf[p[k + 1]]
  <1> DEFINE a == ArgNames[p[1]]
             n == Len(p) - 1
             b == [k \in 1..n |-> NameOf[p[k + 1]]]
  <1>1. Len(p) \in Nat \ {0} /\ p[1] \in Dirents /\ n \in Nat
        /\ \A k \in 1..n : p[k + 1] \in Dirents
    OBVIOUS
  <1>2. a \in Seq(Names) /\ a # <<>>
    BY <1>1, SearchSpaceAssumption
  <1>3. Len(a) \in Nat \ {0} /\ DOMAIN a = 1..Len(a)
    BY <1>2
  <1>4. \A k \in 1..n : NameOf[p[k + 1]] \in Names
    BY <1>1, FileTreeAssumption
  <1>5. b \in Seq(Names) /\ Len(b) = n /\ \A k \in 1..n : b[k] = NameOf[p[k + 1]]
    <2>1. b \in [1..n -> Names]
      BY <1>4
    <2>2. \A k \in 1..n : b[k] = NameOf[p[k + 1]]
      OBVIOUS
    <2>3. n \in Nat
      BY <1>1
    <2> HIDE DEF b, n
    <2>4. b \in Seq(Names) /\ Len(b) = n
      BY <2>1, <2>3
    <2> QED BY <2>2, <2>4
  <1>6. PrintedAs(p) = a \o b
    BY DEF PrintedAs
  <1> HIDE DEF a, b, n
  <1>7. /\ Len(a \o b) = Len(a) + n
        /\ \A k \in 1..(Len(a) + n) :
             (a \o b)[k] = IF k <= Len(a) THEN a[k] ELSE b[k - Len(a)]
    BY <1>2, <1>5, ConcatProperties
  <1>8. \A k \in 1..Len(a) : (a \o b)[k] = a[k]
    BY <1>1, <1>3, <1>7
  <1>9. \A k \in 1..n : (a \o b)[Len(a) + k] = b[k]
    <2> TAKE k \in 1..n
    <2>1. Len(a) + k \in 1..(Len(a) + n) /\ ~(Len(a) + k <= Len(a)) /\ Len(a) + k - Len(a) = k
      BY <1>1, <1>3
    <2> QED BY <1>7, <2>1
  <1>10. Len(PrintedAs(p)) = Len(a) + Len(p) - 1
    BY <1>1, <1>3, <1>6, <1>7 DEF n
  <1>11. \A k \in 1..Len(a) : PrintedAs(p)[k] = a[k]
    BY <1>6, <1>8
  <1>12. \A k \in 1..n : PrintedAs(p)[Len(a) + k] = NameOf[p[k + 1]]
    BY <1>5, <1>6, <1>9
  <1> QED BY <1>1, <1>2, <1>3, <1>10, <1>11, <1>12 DEF a, n

(* Arguments that part are different entries. *)
LEMMA ApartIsDistinct ==
  ASSUME NEW cfg \in Configs, RootsApart(cfg),
         NEW i \in DOMAIN Roots(cfg), NEW j \in DOMAIN Roots(cfg), i # j
  PROVE  /\ Roots(cfg)[i] # Roots(cfg)[j]
         /\ LET a == ArgNames[Roots(cfg)[i]]
                b == ArgNames[Roots(cfg)[j]]
            IN \E k \in DOMAIN a \cap DOMAIN b : a[k] # b[k]
  <1>1. CASE cfg.roots = <<>>
    <2>1. Roots(cfg) = <<DefaultRoot>>
      BY <1>1 DEF Roots
    <2> QED BY <2>1
  <1>2. CASE cfg.roots # <<>>
    <2>1. Roots(cfg) = cfg.roots
      BY <1>2 DEF Roots
    <2> QED BY <2>1 DEF RootsApart
  <1> QED BY <1>1, <1>2

(* Where arguments are apart a line is one path only: the parting          *)
(* component tells the argument, and in a directory the name tells the     *)
(* entry.                                                                  *)
LEMMA PrintedApart ==
  ASSUME NEW cfg \in Configs, RootsApart(cfg), NEW p, NEW q,
         Linked(cfg, p), Linked(cfg, q), PrintedAs(p) = PrintedAs(q)
  PROVE  p = q
  <1> DEFINE a == ArgNames[p[1]]
             b == ArgNames[q[1]]
             n == Len(p)
             S == {k \in 0..(n - 1) : p[k + 1] = q[k + 1]}
  <1>1. p \in Seq(Dirents) /\ p # <<>> /\ q \in Seq(Dirents) /\ q # <<>>
    BY DEF Linked
  <1>2. /\ Len(a) \in Nat \ {0} /\ DOMAIN a = 1..Len(a) /\ Len(p) \in Nat \ {0}
        /\ Len(PrintedAs(p)) = Len(a) + Len(p) - 1
        /\ \A k \in 1..Len(a) : PrintedAs(p)[k] = a[k]
        /\ \A k \in 1..(Len(p) - 1) : PrintedAs(p)[Len(a) + k] = NameOf[p[k + 1]]
    BY <1>1, PrintedText
  <1>3. /\ Len(b) \in Nat \ {0} /\ DOMAIN b = 1..Len(b) /\ Len(q) \in Nat \ {0}
        /\ Len(PrintedAs(q)) = Len(b) + Len(q) - 1
        /\ \A k \in 1..Len(b) : PrintedAs(q)[k] = b[k]
        /\ \A k \in 1..(Len(q) - 1) : PrintedAs(q)[Len(b) + k] = NameOf[q[k + 1]]
    BY <1>1, PrintedText
  <1>4. p[1] = q[1]
    <2>1. PICK i \in DOMAIN Roots(cfg) : p[1] = Roots(cfg)[i]
      BY DEF Linked
    <2>2. PICK j \in DOMAIN Roots(cfg) : q[1] = Roots(cfg)[j]
      BY DEF Linked
    <2>3. ASSUME i # j PROVE FALSE
      <3>1. PICK k \in DOMAIN a \cap DOMAIN b : a[k] # b[k]
        BY <2>1, <2>2, <2>3, ApartIsDistinct
      <3>2. PrintedAs(p)[k] = a[k] /\ PrintedAs(q)[k] = b[k]
        BY <1>2, <1>3
      <3> QED BY <3>1, <3>2
    <2> QED BY <2>1, <2>2, <2>3
  <1>5. a = b
    BY <1>4
  <1>6. Len(q) = n
    BY <1>2, <1>3, <1>5
  <1>7. \A k \in 1..(n - 1) : NameOf[p[k + 1]] = NameOf[q[k + 1]]
    BY <1>2, <1>3, <1>5, <1>6
  <1>8. \A k \in 0..((n - 1) - 1) : k \in S => k + 1 \in S
    <2> SUFFICES ASSUME NEW k \in 0..((n - 1) - 1), p[k + 1] = q[k + 1]
                 PROVE  k + 1 \in 0..(n - 1) /\ p[(k + 1) + 1] = q[(k + 1) + 1]
      OBVIOUS
    <2>1. /\ k + 2 \in 2..n /\ k + 1 \in 1..(n - 1) /\ k + 1 \in 0..(n - 1)
          /\ (k + 1) + 1 = k + 2 /\ (k + 2) - 1 = k + 1 /\ k + 2 \in 1..n
      BY <1>2
    <2>2. /\ HolderOf[p[k + 2]] = NodeOf(p[k + 1], cfg.follow_symlinks)
          /\ HolderOf[p[k + 2]] \in Inodes
      BY <2>1 DEF Linked
    <2>3. HolderOf[q[k + 2]] = NodeOf(q[k + 1], cfg.follow_symlinks)
      BY <1>6, <2>1 DEF Linked
    <2>4. NameOf[p[k + 2]] = NameOf[q[k + 2]]
      BY <1>7, <2>1
    <2>5. p[k + 2] \in Dirents /\ q[k + 2] \in Dirents
      BY <1>1, <1>6, <2>1
    <2>6. p[k + 2] = q[k + 2]
      BY <2>2, <2>3, <2>4, <2>5, FileTreeAssumption
    <2> QED BY <2>1, <2>6
  <1>9. \A k \in 0..(n - 1) : k \in S
    <2>1. n - 1 \in Nat /\ 0 \in S
      BY <1>2, <1>4
    <2> HIDE DEF S
    <2> QED BY <1>8, <2>1, InductionUpTo
  <1>10. \A k \in 1..n : p[k] = q[k]
    <2> TAKE k \in 1..n
    <2>1. k - 1 \in 0..(n - 1) /\ (k - 1) + 1 = k
      BY <1>2
    <2>2. k - 1 \in S
      BY <1>9, <2>1
    <2> QED BY <2>1, <2>2
  <1> QED BY <1>1, <1>6, <1>10, SeqEqual

(* Then there are as many lines as paths. *)
LEMMA LinesCounted ==
  ASSUME NEW cfg \in Configs, RootsApart(cfg), NEW P, IsFiniteSet(P),
         \A p \in P : Linked(cfg, p)
  PROVE  Cardinality({PrintedAs(p) : p \in P}) = Cardinality(P)
  <1> DEFINE L == {PrintedAs(p) : p \in P}
             f == [p \in P |-> PrintedAs(p)]
  <1>1. f \in Injection(P, L)
    <2>1. \A p, q \in P : f[p] = f[q] => p = q
      BY PrintedApart
    <2> QED BY <2>1 DEF Injection, IsInjective
  <1>2. f \in Surjection(P, L)
    BY DEF Surjection
  <1>3. f \in Bijection(P, L)
    BY <1>1, <1>2 DEF Bijection
  <1>4. ExistsBijection(P, L)
    BY <1>3 DEF ExistsBijection
  <1> HIDE DEF L
  <1>5. Cardinality(L) = Cardinality(P)
    BY <1>4, FS_Bijection
  <1> QED BY <1>5 DEF L
=============================================================================
