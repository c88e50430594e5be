------------------------ MODULE WalkSequentialProofs ------------------------
(***************************************************************************)
(* Proofs about the sequential walk, for every tree, every set of          *)
(* searches, every path capacity and every set of faults.  The first two   *)
(* sections are about types, the path buffer and the stack; from there on  *)
(* the walk is shown to keep the promise of Search.                        *)
(***************************************************************************)
EXTENDS WalkSequential, SearchLemmas, FiniteSetTheorems

-----------------------------------------------------------------------------
(* The walk. *)

IInv == TypeOK /\ BufferFollowsStack

(* While the stack is not empty its top is a frame, and what is still to   *)
(* be read there are entries of that directory.                            *)
LEMMA TopFacts ==
  ASSUME IInv, stack # <<>>
  PROVE  /\ Len(stack) \in Nat \ {0}
         /\ Len(stack) \in DOMAIN stack
         /\ Top \in Frames
         /\ Top = stack[Len(stack)]
         /\ Top.dir \in Inodes
         /\ Top.path_length = Len(stack)
         /\ Top.depth = Len(stack) - 1
         /\ Top.todo \subseteq Dirents
         /\ \A d \in Top.todo : HolderOf[d] = Top.dir
         /\ Below \in Seq(Frames)
         /\ Len(Below) = Len(stack) - 1
         /\ \A k \in 1..(Len(stack) - 1) : Below[k] = stack[k]
         /\ Len(path_buffer) >= Len(stack)
         /\ path_buffer # <<>>
  <1>1. stack \in Seq(Frames) /\ path_buffer \in Seq(Dirents)
    BY DEF IInv, TypeOK
  <1>2. Len(stack) \in Nat \ {0} /\ Len(stack) \in DOMAIN stack
    BY <1>1
  <1>3. Top \in Frames /\ Top = stack[Len(stack)]
    BY <1>1, <1>2 DEF Top
  <1>4. Top.dir \in Inodes /\ Top.todo \subseteq Dirents
    BY <1>3 DEF Frames
  <1>5. /\ Top.path_length = Len(stack) /\ Top.depth = Len(stack) - 1
        /\ \A d \in Top.todo : HolderOf[d] = Top.dir
    BY <1>2, <1>3 DEF IInv, BufferFollowsStack
  <1>6. /\ Below \in Seq(Frames) /\ Len(Below) = Len(stack) - 1
        /\ \A k \in 1..(Len(stack) - 1) : Below[k] = stack[k]
    <2> DEFINE n == Len(stack) - 1
    <2>1. n \in Nat /\ n <= Len(stack)
      BY <1>2
    <2>2. Below = SubSeq(stack, 1, n)
      BY DEF Below
    <2> HIDE DEF n
    <2>3. /\ SubSeq(stack, 1, n) \in Seq(Frames) /\ Len(SubSeq(stack, 1, n)) = n
          /\ \A k \in 1..n : SubSeq(stack, 1, n)[k] = stack[k]
      BY <1>1, <2>1, PrefixFacts
    <2> QED BY <2>2, <2>3 DEF n
  <1>7. Len(path_buffer) >= Len(stack) /\ path_buffer # <<>>
    BY <1>1, <1>2 DEF IInv, BufferFollowsStack
  <1> QED BY <1>2, <1>3, <1>4, <1>5, <1>6, <1>7

(* A stat of an entry that is read answers for that entry, or fails. *)
LEMMA StatAnswersAre ==
  ASSUME IInv, stack # <<>>, NEW d \in Top.todo
  PROVE  /\ EntryStat(d) = StatOf(d, config.follow_symlinks)
         /\ EntryStat(d) \in StatAnswers(d)
         /\ \A st \in StatAnswers(d) : st \in {StatOf(d, config.follow_symlinks), NoMeta}
  <1>1. d \in Dirents /\ HolderOf[d] = Top.dir /\ Top.dir \in Inodes
    BY TopFacts
  <1>2. config.follow_symlinks \in BOOLEAN
    BY SearchSpaceAssumption DEF IInv, TypeOK
  <1>3. EntryStat(d) = StatOf(d, config.follow_symlinks)
    BY <1>1, <1>2, FstatatFindsEntry DEF EntryStat
  <1> QED BY <1>3 DEF StatAnswers

(* What is_directory takes for a directory is one, seen through a link if  *)
(* links are followed, whichever stat fails: lines 209-214 together with   *)
(* populate_stat.                                                          *)
LEMMA IsDirectorySound ==
  ASSUME IInv, stack # <<>>, NEW d \in Top.todo,
         NEW first \in StatAnswers(d), NEW again \in StatAnswers(d),
         is_directory(d, first, again)
  PROVE  IsDirectory(config, d) /\ NodeOf(d, config.follow_symlinks) \in Inodes
  <1> DEFINE st == StatOf(d, config.follow_symlinks)
             c0 == entry_candidate(d)
             c == Evaluation(d, first).candidate
             follow == config.follow_symlinks
  <1>1. d \in Dirents /\ HolderOf[d] = Top.dir /\ Top.dir \in Inodes
    BY TopFacts
  <1>2. follow \in BOOLEAN
    BY SearchSpaceAssumption DEF IInv, TypeOK
  <1>3. first \in {st, NoMeta} /\ again \in {st, NoMeta}
    BY StatAnswersAre
  <1>4. /\ c0.entry_type = DType(d) /\ c0.type_resolved = (DType(d) # "any")
        /\ c0.follow_symlinks_enabled = follow
        /\ c0.stat_populated = FALSE
        /\ "stat_populated" \in DOMAIN c0 /\ "entry_type" \in DOMAIN c0
        /\ "type_resolved" \in DOMAIN c0
    BY DEF entry_candidate
  <1>5. c \in {c0, filter_populate_stat(c0, st)}
    <2>1. c = filter_evaluate(predicate(config), c0, first).candidate
      BY DEF Evaluation
    <2>2. filter_populate_stat(c0, NoMeta) = c0
      BY DEF filter_populate_stat
    <2> HIDE DEF c0, st, c
    <2>3. c \in {c0, filter_populate_stat(c0, first)}
      BY <2>1, <1>4, EvaluateCandidate, Zenon
    <2> QED BY <2>2, <2>3, <1>3
  <1>6. st # NoMeta =>
          LET f == filter_populate_stat(c0, st)
          IN /\ f.type_resolved
             /\ f.entry_type = IF DType(d) = "any" \/ follow THEN st.type ELSE DType(d)
             /\ f.follow_symlinks_enabled = follow
             /\ "entry_type" \in DOMAIN f
    BY <1>4 DEF filter_populate_stat, entry_candidate
  <1>7. DType(d) = "directory" => st # NoMeta /\ st.type = "directory"
    BY <1>1, <1>2, FileTreeAssumption DEF DType, StatOf, NodeOf
  <1>8. st # NoMeta /\ st.type = "directory"
    <2>1. CASE c = c0
      <3>1. \/ DType(d) = "directory"
            \/ /\ DType(d) = "any" \/ follow
               /\ st # NoMeta /\ filter_populate_stat(c0, st).entry_type = "directory"
        BY <2>1, <1>3, <1>4 DEF is_directory
      <3> QED BY <3>1, <1>6, <1>7
    <2>2. CASE c = filter_populate_stat(c0, st) /\ st # NoMeta
      <3>1. CASE follow /\ c.entry_type = "symlink"
        <4>1. filter_populate_stat(c, st).entry_type = st.type
          BY <2>2, <3>1, <1>6 DEF filter_populate_stat
        <4> QED BY <4>1, <3>1, <2>2, <1>3 DEF is_directory
      <3>2. CASE ~(follow /\ c.entry_type = "symlink")
        <4>1. c.entry_type = "directory"
          BY <3>2, <2>2, <1>6 DEF is_directory
        <4> QED BY <4>1, <2>2, <1>6, <1>7
      <3> QED BY <3>1, <3>2
    <2>3. CASE c = filter_populate_stat(c0, st) /\ st = NoMeta
      BY <2>1, <2>3 DEF filter_populate_stat
    <2> QED BY <1>5, <2>1, <2>2, <2>3
  <1> QED BY <1>1, <1>2, <1>8, StatFacts DEF IsDirectory

(* The root to visit is an entry, and a stat that answers leads to an      *)
(* inode.                                                                  *)
LEMMA RootFacts ==
  ASSUME IInv, RootsLeft
  PROVE  /\ Root \in Dirents
         /\ NodeOf(Root, config.follow_symlinks) \in Inodes \cup {NoInode}
         /\ RootStat # NoMeta =>
              /\ NodeOf(Root, config.follow_symlinks) \in Inodes
              /\ RootStat \in MetaRecords
         /\ RootStat = NoMeta => NodeOf(Root, config.follow_symlinks) = NoInode
         /\ root_index \in DOMAIN Roots(config)
         /\ stack = <<>>
  <1>1. Roots(config) \in Seq(Dirents)
    BY SearchSpaceAssumption DEF IInv, TypeOK, Roots
  <1>2. root_index \in 1..Len(Roots(config))
    BY <1>1 DEF IInv, TypeOK, RootsLeft
  <1>3. Root \in Dirents /\ root_index \in DOMAIN Roots(config)
    BY <1>1, <1>2 DEF Root
  <1>4. config.follow_symlinks \in BOOLEAN
    BY SearchSpaceAssumption DEF IInv, TypeOK
  <1>5. stack = <<>>
    BY DEF IInv, TypeOK, RootsLeft
  <1> QED BY <1>3, <1>4, <1>5, StatFacts DEF RootStat

(* In the loop the buffer is as long as the stack: the path of an entry is *)
(* the buffer with the entry at its end, and cutting it gives the buffer.  *)
LEMMA PathFacts ==
  ASSUME IInv, pc = "walk", NEW d \in Top.todo
  PROVE  /\ stack # <<>>
         /\ d \in Dirents
         /\ PathOf(d) \in Seq(Dirents)
         /\ Len(PathOf(d)) = Len(stack) + 1
         /\ \A k \in 1..Len(stack) : PathOf(d)[k] = path_buffer[k]
         /\ PathOf(d)[Len(stack) + 1] = d
         /\ truncate(PathOf(d), Top.path_length) = path_buffer
         /\ truncate(path_buffer, Top.path_length) = path_buffer
  <1>1. stack # <<>>
    BY DEF IInv, TypeOK
  <1>2. /\ path_buffer \in Seq(Dirents)
        /\ Len(path_buffer) = Len(stack)
        /\ Len(stack) \in Nat
    BY DEF IInv, TypeOK, BufferFollowsStack
  <1>3. Top.path_length = Len(stack) /\ d \in Dirents
    BY <1>1, TopFacts
  <1> DEFINE n == Len(stack)
             t == Append(SubSeq(path_buffer, 1, n), d)
  <1>4. PathOf(d) = t
    BY <1>3 DEF PathOf, append_path
  <1>5. /\ t \in Seq(Dirents) /\ Len(t) = n + 1
        /\ \A k \in 1..n : t[k] = path_buffer[k]
        /\ t[n + 1] = d
        /\ SubSeq(t, 1, n) = SubSeq(path_buffer, 1, n)
        /\ SubSeq(t, 1, n) = path_buffer
    BY <1>2, <1>3, OverwriteFacts
  <1> QED BY <1>1, <1>3, <1>4, <1>5 DEF truncate

(* What a return to the caller cuts off is what deeper calls left behind.  *)
LEMMA CutFacts ==
  ASSUME IInv, stack # <<>>
  PROVE  LET b == truncate(path_buffer, Top.path_length)
         IN /\ b \in Seq(Dirents)
            /\ Len(b) = Len(stack)
            /\ \A k \in 1..Len(stack) : b[k] = path_buffer[k]
  <1>1. path_buffer \in Seq(Dirents) /\ stack \in Seq(Frames)
    BY DEF IInv, TypeOK
  <1>2. Top.path_length = Len(stack) /\ Len(stack) <= Len(path_buffer) /\ Len(stack) \in Nat
    BY <1>1, TopFacts
  <1> DEFINE n == Len(stack)
  <1>3. /\ SubSeq(path_buffer, 1, n) \in Seq(Dirents)
        /\ Len(SubSeq(path_buffer, 1, n)) = n
        /\ \A k \in 1..n : SubSeq(path_buffer, 1, n)[k] = path_buffer[k]
    BY <1>1, <1>2, PrefixFacts
  <1> QED BY <1>2, <1>3 DEF truncate

(* The part of the invariant that stack, buffer and pc decide. *)
Shape ==
  /\ pc \in {"roots", "walk", "resume", "done"}
  /\ in_turn \in BOOLEAN
  /\ root_index \in Nat \ {0}
  /\ stack \in Seq(Frames)
  /\ path_buffer \in Seq(Dirents)
  /\ returned \in BOOLEAN
  /\ any_ok \in BOOLEAN
  /\ pc \in {"walk", "resume"} <=> stack # <<>>
  /\ BufferFollowsStack

(* An entry has been dealt with: the frame forgets it and nothing else     *)
(* moves.                                                                  *)
LEMMA ContinueKeepsShape ==
  ASSUME IInv, pc = "walk", NEW d \in Top.todo, Continue(d), path_buffer' = path_buffer
  PROVE  Shape' /\ Len(stack') = Len(stack)
  <1>1. stack # <<>>
    BY DEF IInv, TypeOK
  <1> DEFINE n == Len(stack)
             f == Consume(d)
  <1>2. /\ n \in Nat \ {0} /\ Top \in Frames /\ Top = stack[n]
        /\ Below \in Seq(Frames) /\ Len(Below) = n - 1
        /\ \A k \in 1..(n - 1) : Below[k] = stack[k]
    BY <1>1, TopFacts
  <1>3. /\ f \in Frames /\ f.path_length = Top.path_length /\ f.depth = Top.depth
        /\ f.dir = Top.dir /\ f.todo \subseteq Top.todo
    BY <1>2 DEF Consume, Frames
  <1> HIDE DEF f
  <1>4. stack' = Append(Below, f)
    BY DEF Continue, f
  <1>5. /\ stack' \in Seq(Frames) /\ Len(stack') = n
        /\ stack'[n] = f
        /\ \A k \in 1..(n - 1) : stack'[k] = stack[k]
    BY <1>2, <1>3, <1>4, AppendProperties
  <1>6. \A k \in 1..n :
          /\ stack'[k].path_length = stack[k].path_length
          /\ stack'[k].depth = stack[k].depth
          /\ stack'[k].dir = stack[k].dir
          /\ stack'[k].todo \subseteq stack[k].todo
    BY <1>2, <1>3, <1>5
  <1>7. stack \in Seq(Frames) /\ stack' # <<>>
    BY <1>2, <1>5 DEF IInv, TypeOK
  <1>8. DOMAIN stack = 1..n /\ DOMAIN stack' = 1..n
    BY <1>5, <1>7
  <1>9. UNCHANGED <<config, pc, root_index, returned, any_ok, path_buffer>> /\ in_turn' = FALSE
    BY DEF Continue
  <1>10. BufferFollowsStack'
    <2>1. BufferFollowsStack
      BY DEF IInv
    <2>2. \A k \in DOMAIN stack' :
            /\ stack'[k].path_length = k
            /\ stack'[k].depth = k - 1
            /\ stack'[k].dir = NodeOf(path_buffer[k], config.follow_symlinks)
            /\ \A e \in stack'[k].todo : HolderOf[e] = stack'[k].dir
      BY <2>1, <1>6, <1>8 DEF BufferFollowsStack
    <2>3. \A k \in 2..n : k - 1 \in 1..n
      BY <1>2
    <2>4. \A k \in 2..Len(stack') : HolderOf[path_buffer[k]] = stack'[k - 1].dir
      BY <2>1, <2>3, <1>5, <1>6 DEF BufferFollowsStack
    <2> QED BY <2>1, <2>2, <2>4, <1>1, <1>5, <1>9 DEF BufferFollowsStack
  <1> QED BY <1>1, <1>5, <1>7, <1>9, <1>10 DEF Shape, IInv, TypeOK

(* A call returns: its frame goes, and the buffer may keep a tail that the *)
(* caller has still to cut.                                                *)
LEMMA ReturnKeepsShape ==
  ASSUME IInv, stack # <<>>, NEW ok \in BOOLEAN, Return(ok), config' = config,
         path_buffer' \in Seq(Dirents), Len(path_buffer') >= Len(stack),
         \A k \in 1..Len(stack) : path_buffer'[k] = path_buffer[k]
  PROVE  Shape' /\ Len(stack') = Len(stack) - 1
  <1> DEFINE n == Len(stack)
  <1>1. /\ n \in Nat \ {0}
        /\ Below \in Seq(Frames) /\ Len(Below) = n - 1
        /\ \A k \in 1..(n - 1) : Below[k] = stack[k]
    BY TopFacts
  <1>2. stack' = Below /\ returned' = ok /\ in_turn' = FALSE
    BY DEF Return
  <1>3. /\ stack' \in Seq(Frames) /\ Len(stack') = n - 1
        /\ DOMAIN stack' = 1..(n - 1)
        /\ \A k \in 1..(n - 1) : stack'[k] = stack[k]
    BY <1>1, <1>2
  <1>4. /\ any_ok \in BOOLEAN /\ root_index \in Nat \ {0}
        /\ stack \in Seq(Frames)
        /\ BufferFollowsStack
    BY DEF IInv, TypeOK
  <1>5. DOMAIN stack = 1..n
    BY <1>4
  <1>6. CASE n > 1
    <2>1. pc' = "resume" /\ root_index' = root_index /\ any_ok' = any_ok
      BY <1>6 DEF Return
    <2>2. stack' # <<>>
      BY <1>1, <1>3, <1>6
    <2>3. \A k \in 1..(n - 1) :
            /\ stack'[k].path_length = k
            /\ stack'[k].depth = k - 1
            /\ stack'[k].dir = NodeOf(path_buffer'[k], config.follow_symlinks)
            /\ \A e \in stack'[k].todo : HolderOf[e] = stack'[k].dir
      <3>1. TAKE k \in 1..(n - 1)
      <3>2. k \in DOMAIN stack /\ k \in 1..n
        BY <1>1, <1>5
      <3>3. stack'[k] = stack[k] /\ path_buffer'[k] = path_buffer[k]
        BY <3>2, <1>3
      <3> QED BY <3>2, <3>3, <1>4 DEF BufferFollowsStack
    <2>4. \A k \in 2..(n - 1) : k - 1 \in 1..(n - 1) /\ k \in 2..n /\ k \in 1..n
      BY <1>1
    <2>5. \A k \in 2..(n - 1) : HolderOf[path_buffer'[k]] = stack'[k - 1].dir
      BY <2>4, <1>3, <1>4 DEF BufferFollowsStack
    <2>6. path_buffer'[1] = Roots(config)[root_index]
      BY <1>1, <1>4 DEF BufferFollowsStack
    <2>7. BufferFollowsStack'
      <3>1. Len(stack') <= Len(path_buffer')
        BY <1>1, <1>3
      <3> QED BY <3>1, <2>1, <2>3, <2>5, <2>6, <1>3 DEF BufferFollowsStack
    <2> QED BY <2>1, <2>2, <2>7, <1>2, <1>3, <1>4 DEF Shape
  <1>7. CASE n = 1
    <2>1. pc' = "roots" /\ root_index' = root_index + 1 /\ any_ok' = (any_ok /\ ok)
      BY <1>7 DEF Return
    <2>2. stack' = <<>> /\ Len(stack') = 0 /\ DOMAIN stack' = {}
      BY <1>3, <1>7
    <2>3. BufferFollowsStack'
      BY <2>1, <2>2 DEF BufferFollowsStack
    <2>4. any_ok' \in BOOLEAN /\ root_index' \in Nat \ {0}
      BY <2>1, <1>4
    <2> QED BY <2>1, <2>2, <2>3, <2>4, <1>2, <1>3 DEF Shape
  <1> QED BY <1>1, <1>3, <1>6, <1>7

(* A call of process_directory: one more frame, for the directory that the *)
(* longer buffer names.                                                    *)
LEMMA DescendKeepsShape ==
  ASSUME IInv, pc = "walk", NEW d \in Top.todo, NEW st \in StatAnswers(d),
         NEW again \in StatAnswers(d), Descend(d, st, again)
  PROVE  Shape' /\ Len(stack') = Len(stack) + 1
  <1>1. d \in Dirents /\ is_directory(d, st, again)
    BY PathFacts DEF Descend, Descends
  <1> DEFINE n == Len(stack)
             dir == NodeOf(d, config.follow_symlinks)
             f == Consume(d)
             g == [dir |-> dir, path_length |-> Top.path_length + 1,
                   depth |-> Top.depth + 1, todo |-> EntriesOf(dir)]
             r == Append(Below, f)
  <1>2. stack # <<>>
    BY <1>1 DEF IInv, TypeOK
  <1>3. /\ n \in Nat \ {0} /\ Top \in Frames /\ Top = stack[n]
        /\ Top.path_length = n /\ Top.depth = n - 1
        /\ Below \in Seq(Frames) /\ Len(Below) = n - 1
        /\ \A k \in 1..(n - 1) : Below[k] = stack[k]
        /\ HolderOf[d] = Top.dir
    BY <1>1, <1>2, TopFacts
  <1>4. dir \in Inodes
    BY <1>1, <1>2, IsDirectorySound
  <1>5. /\ f \in Frames /\ f.path_length = Top.path_length /\ f.depth = Top.depth
        /\ f.dir = Top.dir /\ f.todo \subseteq Top.todo
    BY <1>3 DEF Consume, Frames
  <1>6. /\ g \in Frames /\ g.path_length = n + 1 /\ g.depth = n /\ g.dir = dir
        /\ \A e \in g.todo : HolderOf[e] = g.dir
    BY <1>3, <1>4 DEF Frames, EntriesOf
  <1>7. stack' = Append(r, g) /\ path_buffer' = PathOf(d)
    BY DEF Descend
  <1> HIDE DEF f, g
  <1>8. /\ r \in Seq(Frames) /\ Len(r) = n /\ r[n] = f
        /\ \A k \in 1..(n - 1) : r[k] = stack[k]
    BY <1>3, <1>5, AppendProperties
  <1> HIDE DEF r
  <1>9. /\ stack' \in Seq(Frames) /\ Len(stack') = n + 1 /\ stack'[n + 1] = g
        /\ stack'[n] = f
        /\ \A k \in 1..(n - 1) : stack'[k] = stack[k]
    BY <1>3, <1>6, <1>7, <1>8, AppendProperties
  <1>10. \A k \in 1..n :
          /\ stack'[k].path_length = stack[k].path_length
          /\ stack'[k].depth = stack[k].depth
          /\ stack'[k].dir = stack[k].dir
          /\ stack'[k].todo \subseteq stack[k].todo
    <2>1. \A k \in 1..n : k \in 1..(n - 1) \/ k = n
      BY <1>3
    <2> QED BY <2>1, <1>3, <1>5, <1>9
  <1>11. /\ path_buffer' \in Seq(Dirents) /\ Len(path_buffer') = n + 1
         /\ \A k \in 1..n : path_buffer'[k] = path_buffer[k]
         /\ path_buffer'[n + 1] = d
    BY <1>1, <1>7, PathFacts
  <1>12. /\ stack' # <<>> /\ DOMAIN stack' = 1..(n + 1) /\ DOMAIN stack = 1..n
    BY <1>3, <1>9 DEF IInv, TypeOK
  <1>13. UNCHANGED <<config, pc, root_index, returned, any_ok>> /\ in_turn' = FALSE
    BY DEF Descend
  <1>14. BufferFollowsStack'
    <2>1. BufferFollowsStack
      BY DEF IInv
    <2>2. \A k \in 1..n :
            /\ stack'[k].path_length = k
            /\ stack'[k].depth = k - 1
            /\ stack'[k].dir = NodeOf(path_buffer'[k], config.follow_symlinks)
            /\ \A e \in stack'[k].todo : HolderOf[e] = stack'[k].dir
      BY <2>1, <1>10, <1>11, <1>12 DEF BufferFollowsStack
    <2>3. \A k \in 1..(n + 1) : k \in 1..n \/ k = n + 1
      BY <1>3
    <2>4. \A k \in DOMAIN stack' :
            /\ stack'[k].path_length = k
            /\ stack'[k].depth = k - 1
            /\ stack'[k].dir = NodeOf(path_buffer'[k], config'.follow_symlinks)
            /\ \A e \in stack'[k].todo : HolderOf[e] = stack'[k].dir
      BY <2>2, <2>3, <1>3, <1>6, <1>9, <1>11, <1>12, <1>13
    <2>5. \A k \in 2..(n + 1) : k - 1 \in 1..n /\ (k \in 2..n \/ k = n + 1)
      BY <1>3
    <2>6. HolderOf[path_buffer'[n + 1]] = stack'[n].dir
      BY <1>3, <1>5, <1>9, <1>11
    <2>7. \A k \in 2..n : HolderOf[path_buffer'[k]] = stack'[k - 1].dir
      <3>1. \A k \in 2..n : k - 1 \in 1..n /\ k \in 1..n
        BY <1>3
      <3> QED BY <3>1, <2>1, <1>10, <1>11 DEF BufferFollowsStack
    <2>8. \A k \in 2..Len(stack') : HolderOf[path_buffer'[k]] = stack'[k - 1].dir
      BY <2>5, <2>6, <2>7, <1>3, <1>9
    <2>9. path_buffer'[1] = Roots(config')[root_index']
      BY <2>1, <1>2, <1>3, <1>11, <1>13 DEF BufferFollowsStack
    <2> QED BY <2>4, <2>8, <2>9, <1>3, <1>9, <1>11 DEF BufferFollowsStack
  <1> QED BY <1>1, <1>9, <1>11, <1>12, <1>13, <1>14 DEF Shape, IInv, TypeOK

(* The walk of a root starts with one frame and a buffer of one entry.     *)
LEMMA RootDescendKeepsShape ==
  ASSUME IInv, RootDescend
  PROVE  Shape' /\ Len(stack') = 1
  <1> DEFINE dir == NodeOf(Root, config.follow_symlinks)
             g == [dir |-> dir, path_length |-> 1, depth |-> 0, todo |-> EntriesOf(dir)]
  <1>1. RootsLeft /\ RootStat # NoMeta
    BY DEF RootDescend, RootFits, RootStated, AtRoot
  <1>2. Root \in Dirents /\ dir \in Inodes
    BY <1>1, RootFacts
  <1>3. /\ g \in Frames /\ g.path_length = 1 /\ g.depth = 0 /\ g.dir = dir
        /\ \A e \in g.todo : HolderOf[e] = g.dir
    BY <1>2 DEF Frames, EntriesOf
  <1>4. stack' = <<g>> /\ path_buffer' = <<Root>> /\ pc' = "walk"
    BY DEF RootDescend
  <1> HIDE DEF g
  <1>5. /\ stack' \in Seq(Frames) /\ Len(stack') = 1 /\ DOMAIN stack' = {1}
        /\ stack'[1] = g /\ stack' # <<>>
    BY <1>3, <1>4
  <1>6. path_buffer' \in Seq(Dirents) /\ Len(path_buffer') = 1 /\ path_buffer'[1] = Root
    BY <1>2, <1>4
  <1>7. UNCHANGED <<config, root_index, returned, any_ok>> /\ in_turn' = FALSE
    BY DEF RootDescend
  <1>8. BufferFollowsStack'
    BY <1>3, <1>4, <1>5, <1>6, <1>7 DEF BufferFollowsStack, Root
  <1> QED BY <1>4, <1>5, <1>6, <1>7, <1>8 DEF Shape, IInv, TypeOK

(* The part of the invariant that says what the program has recorded.      *)
Records ==
  /\ config \in Configs
  /\ root_device \in Devices \cup {None}
  /\ stop_requested \in BOOLEAN
  /\ signalled \in BOOLEAN
  /\ before_signal \in Nat
  /\ output \subseteq Seq(Dirents)
  /\ emitted_count \in Nat
  /\ errors \subseteq [path : Seq(Dirents), dir : Inodes \cup {NoInode}]

(* The invariant is these two parts together, in this state and the next. *)
LEMMA IInvParts == IInv <=> Shape /\ Records
  BY DEF IInv, TypeOK, Shape, Records

(* The same for the state after a step. *)
LEMMA IInvPartsNext == Shape' /\ Records' => IInv'
  BY DEF IInv, TypeOK, Shape, Records

(* emit_if_match adds a path to the output and one to its count, or nothing. *)
LEMMA EmitKeepsTypes ==
  ASSUME IInv, NEW path \in Seq(Dirents), NEW accepted, Emit(path, accepted)
  PROVE  output' \subseteq Seq(Dirents) /\ emitted_count' \in Nat
  BY DEF IInv, TypeOK, Emit

(* The error collector takes a path and the inode that was at fault.       *)
LEMMA AppendErrorKeepsTypes ==
  ASSUME IInv, NEW path \in Seq(Dirents), NEW dir \in Inodes \cup {NoInode},
         collector_append(path, dir)
  PROVE  errors' \subseteq [path : Seq(Dirents), dir : Inodes \cup {NoInode}]
  BY DEF IInv, TypeOK, collector_append

(* The steps of visit_root that start no walk leave stack and buffer alone. *)
LEMMA RootStepKeepsInv ==
  ASSUME IInv, RootStep
  PROVE  IInv'
  <1>0. Shape /\ Records
    BY IInvParts
  <1>1. ASSUME NEW ok \in BOOLEAN, RootsLeft, RootAnswers(ok)
        PROVE  Shape'
    <2>1. UNCHANGED <<config, pc, stack, path_buffer, returned>> /\ in_turn' = FALSE
      BY <1>1 DEF RootAnswers
    <2>2. stack = <<>> /\ pc = "roots"
      BY <1>1, RootFacts DEF RootsLeft
    <2>3. Len(stack) = 0 /\ DOMAIN stack = {} /\ Len(path_buffer) \in Nat
      BY <2>2, <1>0 DEF Shape
    <2>4. BufferFollowsStack'
      BY <2>1, <2>2, <2>3 DEF BufferFollowsStack
    <2>5. root_index' \in Nat \ {0} /\ any_ok' \in BOOLEAN
      BY <1>0, <1>1 DEF Shape, RootAnswers
    <2> QED BY <2>1, <2>4, <2>5, <1>0 DEF Shape
  <1>2. ASSUME RootStated
        PROVE  root_device' \in Devices \cup {None}
    <2>1. RootStat \in MetaRecords
      BY <1>2, RootFacts DEF RootStated, AtRoot
    <2> QED BY <2>1, <1>0, <1>2 DEF RootStated, Records, MetaRecords
  <1>3. ASSUME RootsLeft PROVE <<Root>> \in Seq(Dirents)
    <2>1. Root \in Dirents
      BY <1>3, RootFacts
    <2> QED BY <2>1
  <1>4. CASE RootStop \/ RootsExhausted
    <2>1. UNCHANGED <<config, in_turn, root_index, stack, path_buffer, returned,
                      root_device, signalled, before_signal, output, emitted_count,
                      errors, any_ok>>
          /\ pc = "roots" /\ pc' = "done" /\ stop_requested' \in BOOLEAN
      BY <1>0, <1>4 DEF RootStop, RootsExhausted, RootsLeft, Records
    <2>2. Shape'
      BY <2>1, <1>0 DEF Shape, BufferFollowsStack
    <2>3. Records'
      BY <2>1, <1>0 DEF Records
    <2> QED BY <2>2, <2>3, IInvPartsNext
  <1>5. CASE RootStatFails
    <2>1. Shape'
      BY <1>1, <1>5 DEF RootStatFails, AtRoot
    <2>2. errors' \subseteq [path : Seq(Dirents), dir : Inodes \cup {NoInode}]
      <3>1. RootsLeft /\ NodeOf(Root, config.follow_symlinks) \in Inodes \cup {NoInode}
        BY <1>5, RootFacts DEF RootStatFails, AtRoot
      <3> QED BY <3>1, <1>3, <1>5, AppendErrorKeepsTypes DEF RootStatFails
    <2>3. Records'
      BY <2>2, <1>0, <1>5 DEF RootStatFails, RootAnswers, NoEmit, Records
    <2> QED BY <2>1, <2>3, IInvPartsNext
  <1>6. CASE RootTooLong
    <2>1. RootsLeft
      BY <1>6 DEF RootTooLong, RootStated, AtRoot
    <2>2. Shape'
      BY <1>1, <1>6, <2>1 DEF RootTooLong
    <2>3. errors' \subseteq [path : Seq(Dirents), dir : Inodes \cup {NoInode}]
      <3>1. NodeOf(Root, config.follow_symlinks) \in Inodes \cup {NoInode}
        BY <2>1, RootFacts
      <3> QED BY <3>1, <1>3, <1>6, <2>1, AppendErrorKeepsTypes DEF RootTooLong
    <2>4. root_device' \in Devices \cup {None}
      BY <1>2, <1>6 DEF RootTooLong
    <2>5. Records'
      BY <2>3, <2>4, <1>0, <1>6 DEF RootTooLong, RootAnswers, NoEmit, Records
    <2> QED BY <2>2, <2>5, IInvPartsNext
  <1>7. CASE RootEmitFails
    <2>1. RootsLeft /\ RootStated
      BY <1>7 DEF RootEmitFails, RootFits, RootStated, AtRoot
    <2>2. Shape'
      BY <1>1, <1>7, <2>1 DEF RootEmitFails
    <2>3. Records'
      BY <1>0, <1>2, <1>7, <2>1 DEF RootEmitFails, RootAnswers, NoEmit, Records
    <2> QED BY <2>2, <2>3, IInvPartsNext
  <1>8. CASE RootLeaf
    <2>1. RootsLeft /\ RootStated
      BY <1>8 DEF RootLeaf, RootFits, RootStated, AtRoot
    <2>2. Shape'
      BY <1>1, <1>8, <2>1 DEF RootLeaf
    <2>3. output' \subseteq Seq(Dirents) /\ emitted_count' \in Nat
      BY <1>3, <1>8, <2>1, EmitKeepsTypes DEF RootLeaf
    <2>4. Records'
      BY <1>0, <1>2, <1>8, <2>1, <2>3 DEF RootLeaf, RootAnswers, Records
    <2> QED BY <2>2, <2>4, IInvPartsNext
  <1>9. CASE RootOpenFails
    <2>1. RootsLeft /\ RootStated
      BY <1>9 DEF RootOpenFails, RootFits, RootStated, AtRoot
    <2>2. Shape'
      BY <1>1, <1>9, <2>1 DEF RootOpenFails
    <2>3. output' \subseteq Seq(Dirents) /\ emitted_count' \in Nat
      BY <1>3, <1>9, <2>1, EmitKeepsTypes DEF RootOpenFails
    <2>4. errors' \subseteq [path : Seq(Dirents), dir : Inodes \cup {NoInode}]
      <3>1. NodeOf(Root, config.follow_symlinks) \in Inodes \cup {NoInode}
        BY <2>1, RootFacts
      <3> QED BY <3>1, <1>3, <1>9, <2>1, AppendErrorKeepsTypes DEF RootOpenFails
    <2>5. Records'
      BY <1>0, <1>2, <1>9, <2>1, <2>3, <2>4 DEF RootOpenFails, RootAnswers, Records
    <2> QED BY <2>2, <2>5, IInvPartsNext
  <1>10. CASE RootDescend
    <2>1. RootsLeft /\ RootStated
      BY <1>10 DEF RootDescend, RootFits, RootStated, AtRoot
    <2>2. Shape'
      BY <1>10, RootDescendKeepsShape
    <2>3. output' \subseteq Seq(Dirents) /\ emitted_count' \in Nat
      BY <1>3, <1>10, <2>1, EmitKeepsTypes DEF RootDescend
    <2>4. Records'
      BY <1>0, <1>2, <1>10, <2>1, <2>3 DEF RootDescend, Records
    <2> QED BY <2>2, <2>4, IInvPartsNext
  <1> QED BY <1>4, <1>5, <1>6, <1>7, <1>8, <1>9, <1>10 DEF RootStep

(* What iterate_entries does with entry d, with whichever stats answer. *)
Handles(d) ==
  \/ SkipEntry(d)
  \/ \E st, again \in StatAnswers(d) :
       \/ EmitFails(d, st) \/ VisitLeaf(d, st, again)
       \/ DescendFails(d, st, again) \/ Descend(d, st, again)

(* An entry step handles an entry that is still to be read. *)
LEMMA EntryStepHandles ==
  EntryStep => in_turn /\ \E d \in Top.todo : d \in Dirents /\ pc = "walk" /\ Handles(d)
  BY DEF EntryStep, Reading, Handles

(* Every way iterate_entries deals with one entry keeps the invariant.     *)
LEMMA EntryStepKeepsInv ==
  ASSUME IInv, EntryStep
  PROVE  IInv'
  <1>0. Shape /\ Records
    BY IInvParts
  <1>1. PICK d \in Top.todo : pc = "walk" /\ Handles(d)
    BY EntryStepHandles
  <1>2. pc = "walk" /\ d \in Top.todo
    BY <1>1
  <1>3. /\ stack # <<>>
        /\ PathOf(d) \in Seq(Dirents)
        /\ Len(PathOf(d)) = Len(stack) + 1
        /\ \A k \in 1..Len(stack) : PathOf(d)[k] = path_buffer[k]
        /\ truncate(PathOf(d), Top.path_length) = path_buffer
        /\ truncate(path_buffer, Top.path_length) = path_buffer
    BY <1>2, PathFacts
  <1>4. CASE SkipEntry(d)
    <2>1. Continue(d) /\ path_buffer' = path_buffer
      BY <1>3, <1>4 DEF SkipEntry
    <2>2. Shape'
      BY <1>2, <2>1, ContinueKeepsShape
    <2>3. Records'
      BY <1>0, <1>4 DEF SkipEntry, Continue, NoEmit, Records
    <2> QED BY <2>2, <2>3, IInvPartsNext
  <1>5. ASSUME NEW st \in StatAnswers(d), EmitFails(d, st) PROVE IInv'
    <2>1. Return(FALSE) /\ config' = config /\ path_buffer' = PathOf(d)
      BY <1>5 DEF EmitFails
    <2>2. Len(stack) \in Nat
      BY <1>0 DEF Shape
    <2>3. Len(path_buffer') >= Len(stack)
      BY <1>3, <2>1, <2>2
    <2>4. Shape'
      BY <1>3, <2>1, <2>3, ReturnKeepsShape
    <2>5. Records'
      BY <1>0, <1>5 DEF EmitFails, NoEmit, Records
    <2> QED BY <2>4, <2>5, IInvPartsNext
  <1>6. ASSUME NEW st \in StatAnswers(d), NEW again \in StatAnswers(d), VisitLeaf(d, st, again)
        PROVE  IInv'
    <2>1. Continue(d) /\ path_buffer' = path_buffer
      BY <1>3, <1>6 DEF VisitLeaf
    <2>2. Shape'
      BY <1>2, <2>1, ContinueKeepsShape
    <2>3. output' \subseteq Seq(Dirents) /\ emitted_count' \in Nat
      BY <1>3, <1>6, EmitKeepsTypes DEF VisitLeaf
    <2>4. Records'
      BY <1>0, <1>6, <2>3 DEF VisitLeaf, Continue, Records
    <2> QED BY <2>2, <2>4, IInvPartsNext
  <1>7. ASSUME NEW st \in StatAnswers(d), NEW again \in StatAnswers(d), DescendFails(d, st, again)
        PROVE  IInv'
    <2>1. Continue(d) /\ path_buffer' = path_buffer
      BY <1>3, <1>7 DEF DescendFails
    <2>2. Shape'
      BY <1>2, <2>1, ContinueKeepsShape
    <2>3. output' \subseteq Seq(Dirents) /\ emitted_count' \in Nat
      BY <1>3, <1>7, EmitKeepsTypes DEF DescendFails
    <2>4. NodeOf(d, config.follow_symlinks) \in Inodes
      BY <1>2, <1>3, <1>7, IsDirectorySound DEF DescendFails, Descends
    <2>5. errors' \subseteq [path : Seq(Dirents), dir : Inodes \cup {NoInode}]
      BY <1>3, <1>7, <2>4, AppendErrorKeepsTypes DEF DescendFails
    <2>6. Records'
      BY <1>0, <1>7, <2>3, <2>5 DEF DescendFails, Continue, Records
    <2> QED BY <2>2, <2>6, IInvPartsNext
  <1>8. ASSUME NEW st \in StatAnswers(d), NEW again \in StatAnswers(d), Descend(d, st, again)
        PROVE  IInv'
    <2>1. Shape'
      BY <1>2, <1>8, DescendKeepsShape
    <2>2. output' \subseteq Seq(Dirents) /\ emitted_count' \in Nat
      BY <1>3, <1>8, EmitKeepsTypes DEF Descend
    <2>3. Records'
      BY <1>0, <1>8, <2>2 DEF Descend, Records
    <2> QED BY <2>1, <2>3, IInvPartsNext
  <1> QED BY <1>1, <1>4, <1>5, <1>6, <1>7, <1>8 DEF Handles

(* The ends of a loop and the return into the caller's. *)
LEMMA LoopStepKeepsInv ==
  ASSUME IInv, StopDirectory \/ EndOfDirectory \/ ReadFails \/ Resume
  PROVE  IInv'
  <1>0. Shape /\ Records
    BY IInvParts
  <1>1. pc \in {"walk", "resume"} /\ stack # <<>>
    BY <1>0 DEF StopDirectory, EndOfDirectory, ReadFails, Resume, Reading, Shape
  <1>2. /\ path_buffer \in Seq(Dirents) /\ Len(path_buffer) >= Len(stack)
        /\ Top.dir \in Inodes
    BY <1>0, <1>1, TopFacts DEF Shape
  <1>3. ASSUME NEW ok \in BOOLEAN, LoopEnds(ok)
        PROVE  Shape'
    <2>1. Return(ok) /\ config' = config /\ path_buffer' = path_buffer
      BY <1>3 DEF LoopEnds
    <2> QED BY <1>1, <1>2, <2>1, ReturnKeepsShape
  <1>4. CASE StopDirectory
    <2>1. Shape'
      BY <1>3, <1>4 DEF StopDirectory
    <2>2. Records'
      BY <1>0, <1>4 DEF StopDirectory, LoopEnds, NoEmit, Records
    <2> QED BY <2>1, <2>2, IInvPartsNext
  <1>5. CASE EndOfDirectory
    <2>1. Shape'
      BY <1>3, <1>5 DEF EndOfDirectory
    <2>2. Records'
      BY <1>0, <1>5 DEF EndOfDirectory, LoopEnds, NoEmit, Records
    <2> QED BY <2>1, <2>2, IInvPartsNext
  <1>6. CASE ReadFails
    <2>1. Shape'
      BY <1>3, <1>6 DEF ReadFails
    <2>2. errors' \subseteq [path : Seq(Dirents), dir : Inodes \cup {NoInode}]
      BY <1>2, <1>6, AppendErrorKeepsTypes DEF ReadFails
    <2>3. Records'
      BY <1>0, <1>6, <2>2 DEF ReadFails, LoopEnds, NoEmit, Records
    <2> QED BY <2>1, <2>3, IInvPartsNext
  <1>7. CASE Resume
    <2> DEFINE b == truncate(path_buffer, Top.path_length)
    <2>1. /\ b \in Seq(Dirents) /\ Len(b) = Len(stack)
          /\ \A k \in 1..Len(stack) : b[k] = path_buffer[k]
      BY <1>1, CutFacts
    <2>2. path_buffer' = b /\ config' = config
      BY <1>7 DEF Resume
    <2> HIDE DEF b
    <2>3. CASE ~returned /\ should_stop
      <3>1. Return(FALSE) /\ stop_requested' = TRUE
        BY <1>7, <2>3 DEF Resume
      <3>2. Len(path_buffer') >= Len(stack)
        BY <1>0, <2>1, <2>2 DEF Shape
      <3>3. Shape'
        BY <1>1, <2>1, <2>2, <3>1, <3>2, ReturnKeepsShape
      <3>4. Records'
        BY <1>0, <1>7, <3>1 DEF Resume, NoEmit, Records
      <3> QED BY <3>3, <3>4, IInvPartsNext
    <2>4. CASE ~(~returned /\ should_stop)
      <3>1. /\ pc' = "walk"
            /\ UNCHANGED <<in_turn, stack, returned, root_index, any_ok, stop_requested>>
        BY <1>7, <2>4 DEF Resume
      <3>2. BufferFollowsStack'
        <4>1. BufferFollowsStack /\ stack \in Seq(Frames)
          BY <1>0 DEF Shape
        <4>2. DOMAIN stack = 1..Len(stack) /\ Len(stack) \in Nat \ {0}
          BY <4>1, <1>1
        <4>3. \A k \in DOMAIN stack : stack[k].dir = NodeOf(b[k], config.follow_symlinks)
          BY <2>1, <4>1, <4>2 DEF BufferFollowsStack
        <4>4. \A k \in 2..Len(stack) : HolderOf[b[k]] = stack[k - 1].dir
          <5>1. \A k \in 2..Len(stack) : k \in 1..Len(stack)
            BY <4>2
          <5> QED BY <5>1, <2>1, <4>1 DEF BufferFollowsStack
        <4>5. b[1] = Roots(config)[root_index]
          BY <2>1, <4>1, <4>2, <1>1 DEF BufferFollowsStack
        <4> QED BY <2>1, <2>2, <3>1, <4>1, <4>2, <4>3, <4>4, <4>5 DEF BufferFollowsStack
      <3>3. Shape'
        BY <1>0, <1>1, <2>1, <2>2, <3>1, <3>2 DEF Shape
      <3>4. Records'
        BY <1>0, <1>7, <3>1 DEF Resume, NoEmit, Records
      <3> QED BY <3>3, <3>4, IInvPartsNext
    <2> QED BY <2>3, <2>4
  <1> QED BY <1>4, <1>5, <1>6, <1>7

(* The walk starts with no call open and nothing in the buffer.            *)
LEMMA InitGivesInv == Init => IInv
  <1> SUFFICES ASSUME Init PROVE IInv
    OBVIOUS
  <1>1. stack = <<>> /\ Len(stack) = 0 /\ DOMAIN stack = {} /\ Len(path_buffer) = 0
    BY DEF Init
  <1>2. BufferFollowsStack
    BY <1>1 DEF Init, BufferFollowsStack
  <1>3. /\ stack \in Seq(Frames) /\ path_buffer \in Seq(Dirents)
        /\ root_index \in Nat \ {0} /\ emitted_count \in Nat /\ before_signal \in Nat
    BY DEF Init
  <1>4. TypeOK
    <2>1. output \subseteq Seq(Dirents)
      BY DEF Init
    <2>2. errors \subseteq [path : Seq(Dirents), dir : Inodes \cup {NoInode}]
      BY DEF Init
    <2>3. /\ returned \in BOOLEAN /\ any_ok \in BOOLEAN
          /\ stop_requested \in BOOLEAN /\ signalled \in BOOLEAN /\ in_turn \in BOOLEAN
      BY DEF Init
    <2>4. /\ config \in Configs /\ root_device \in Devices \cup {None}
          /\ pc = "roots" /\ stack = <<>>
      BY DEF Init
    <2> QED BY <1>3, <2>1, <2>2, <2>3, <2>4 DEF TypeOK
  <1> QED BY <1>2, <1>4 DEF IInv

(* Every step of the walk, and the signal, keep the invariant.             *)
LEMMA StepKeepsInv == IInv /\ [Next]_vars => IInv'
  <1> SUFFICES ASSUME IInv, [Next]_vars PROVE IInv'
    OBVIOUS
  <1>1. CASE RootStep
    BY <1>1, RootStepKeepsInv
  <1>2. CASE EntryStep
    BY <1>2, EntryStepKeepsInv
  <1>3. CASE StopDirectory \/ EndOfDirectory \/ ReadFails \/ Resume
    BY <1>3, LoopStepKeepsInv
  <1>4. CASE Signal
    BY <1>4 DEF Signal, IInv, TypeOK, BufferFollowsStack
  <1>5. CASE Finished \/ UNCHANGED vars
    BY <1>5 DEF Finished, vars, IInv, TypeOK, BufferFollowsStack
  <1>6. CASE Look
    BY <1>6 DEF Look, IInv, TypeOK, BufferFollowsStack
  <1> QED BY <1>1, <1>2, <1>3, <1>4, <1>5, <1>6 DEF Next, WalkStep

(* The types and the agreement of buffer and stack hold together: neither  *)
(* is inductive alone, since a step reads the frame through the buffer.    *)
THEOREM Inductive == Spec => []IInv
  BY InitGivesInv, StepKeepsInv, PTL DEF Spec

-----------------------------------------------------------------------------
(* Results. *)

(* The variables of the walk keep their types, and the loop of             *)
(* iterate_entries never reads a frame that is not there.                  *)
THEOREM TypeCorrect == Spec => []TypeOK
  BY Inductive, PTL DEF IInv

(* Through every descent, return, failure and interruption the shared path *)
(* buffer names the directories that are open: append_path and truncate    *)
(* restore it on all of the ways out of a call.                            *)
THEOREM BufferInvariant == Spec => []BufferFollowsStack
  BY Inductive, PTL DEF IInv

(* What SignalStopsOutput rests on: while should_stop's caller is at the   *)
(* entry or root it asked for, nothing has been printed since the signal;  *)
(* and nothing has been printed before the first root.                     *)
SignalInv ==
  /\ SignalStopsOutput
  /\ signalled /\ in_turn => emitted_count = before_signal
  /\ pc = "roots" /\ root_index = 1 =>
       emitted_count = 0 /\ (signalled => before_signal = 0)

(* A step that prints ends the turn the look has opened; no other prints.  *)
PrintsInTurn ==
  /\ UNCHANGED <<signalled, before_signal>>
  /\ pc' = "roots" /\ root_index' = 1 => pc = "roots" /\ root_index = 1 /\ NoEmit
  /\ \/ NoEmit /\ (in_turn' => in_turn)
     \/ in_turn /\ ~in_turn' /\ emitted_count' \in {emitted_count, emitted_count + 1}

(* Every step but the look and the signal is of that kind. *)
LEMMA StepPrintsInTurn ==
  ASSUME IInv, [Next]_vars, ~Look, ~Signal
  PROVE  PrintsInTurn
  <1>0. root_index \in Nat \ {0}
    BY DEF IInv, TypeOK
  <1>1. root_index + 1 # 1
    BY <1>0
  <1>2. ASSUME NEW path, NEW accepted, Emit(path, accepted)
        PROVE  emitted_count' \in {emitted_count, emitted_count + 1}
    BY <1>2 DEF Emit
  <1>3. ASSUME NEW ok, Return(ok), pc \in {"walk", "resume"}
        PROVE  ~in_turn' /\ ~(pc' = "roots" /\ root_index' = 1)
    BY <1>1, <1>3 DEF Return
  <1>4. CASE RootStop \/ RootsExhausted
    BY <1>4 DEF RootStop, RootsExhausted, PrintsInTurn, NoEmit
  <1>5. CASE RootStatFails \/ RootTooLong \/ RootEmitFails
    BY <1>1, <1>5 DEF RootStatFails, RootTooLong, RootEmitFails, RootAnswers, PrintsInTurn
  <1>6. CASE RootLeaf \/ RootOpenFails \/ RootDescend
    <2>1. in_turn
      BY <1>6 DEF RootLeaf, RootOpenFails, RootDescend, RootFits, RootStated, AtRoot
    <2>2. emitted_count' \in {emitted_count, emitted_count + 1}
      BY <1>2, <1>6 DEF RootLeaf, RootOpenFails, RootDescend
    <2>3. /\ ~in_turn' /\ UNCHANGED <<signalled, before_signal>>
          /\ ~(pc' = "roots" /\ root_index' = 1)
      BY <1>1, <1>6 DEF RootLeaf, RootOpenFails, RootDescend, RootAnswers
    <2> QED BY <2>1, <2>2, <2>3 DEF PrintsInTurn
  <1>7. CASE EntryStep
    <2>1. PICK d \in Top.todo : pc = "walk" /\ Handles(d)
      BY <1>7, EntryStepHandles
    <2>2. in_turn
      BY <1>7, EntryStepHandles
    <2>3. emitted_count' \in {emitted_count, emitted_count + 1}
      BY <1>2, <2>1 DEF Handles, SkipEntry, EmitFails, VisitLeaf, DescendFails, Descend, NoEmit
    <2>4. ~in_turn' /\ UNCHANGED <<signalled, before_signal>>
      BY <1>3, <2>1 DEF Handles, SkipEntry, EmitFails, VisitLeaf, DescendFails, Descend,
         Continue
    <2>5. ~(pc' = "roots" /\ root_index' = 1)
      BY <1>3, <2>1 DEF Handles, SkipEntry, EmitFails, VisitLeaf, DescendFails, Descend,
         Continue
    <2> QED BY <2>2, <2>3, <2>4, <2>5 DEF PrintsInTurn
  <1>8. CASE StopDirectory \/ EndOfDirectory \/ ReadFails
    BY <1>3, <1>8 DEF StopDirectory, EndOfDirectory, ReadFails, LoopEnds, Reading, PrintsInTurn
  <1>9. CASE Resume
    BY <1>3, <1>9 DEF Resume, PrintsInTurn
  <1>10. CASE Finished \/ UNCHANGED vars
    BY <1>10 DEF Finished, vars, PrintsInTurn, NoEmit
  <1> QED BY <1>4, <1>5, <1>6, <1>7, <1>8, <1>9, <1>10 DEF Next, WalkStep, RootStep

(* Once the signal flag is up at most one more path is printed, over all   *)
(* roots and levels of the recursion: the one should_stop was asked for    *)
(* before the signal came, or the default root, for which it is not asked. *)
THEOREM SignalIsFinal == Spec => []SignalStopsOutput
  <1>1. Init => SignalInv
    BY DEF Init, SignalInv, SignalStopsOutput
  <1>2. IInv /\ SignalInv /\ [Next]_vars => SignalInv'
    <2> SUFFICES ASSUME IInv, SignalInv, [Next]_vars PROVE SignalInv'
      OBVIOUS
    <2>0. /\ emitted_count \in Nat /\ before_signal \in Nat /\ root_index \in Nat \ {0}
          /\ config \in Configs
      BY DEF IInv, TypeOK
    <2>1. CASE Look
      <3>1. /\ UNCHANGED <<pc, root_index, signalled, before_signal, emitted_count>>
        BY <2>1 DEF Look
      <3>2. ASSUME signalled PROVE emitted_count = before_signal
        <4>1. RootsLeft /\ config.roots = <<>>
          BY <2>1, <3>2 DEF Look, StopBeforeRoot, should_stop
        <4>2. Len(Roots(config)) = 1
          BY <4>1 DEF Roots
        <4>3. pc = "roots" /\ root_index = 1
          BY <2>0, <4>1, <4>2 DEF RootsLeft
        <4> QED BY <3>2, <4>3 DEF SignalInv
      <3> QED BY <3>1, <3>2 DEF SignalInv, SignalStopsOutput
    <2>2. CASE Signal
      BY <2>0, <2>2 DEF Signal, SignalInv, SignalStopsOutput
    <2>3. CASE ~Look /\ ~Signal
      <3>1. PrintsInTurn
        BY <2>3, StepPrintsInTurn
      <3>2. (signalled => emitted_count <= before_signal + 1)'
        BY <2>0, <3>1 DEF PrintsInTurn, NoEmit, SignalInv, SignalStopsOutput
      <3>3. (signalled /\ in_turn => emitted_count = before_signal)'
        BY <3>1 DEF PrintsInTurn, NoEmit, SignalInv
      <3>4. (pc = "roots" /\ root_index = 1 =>
               emitted_count = 0 /\ (signalled => before_signal = 0))'
        BY <3>1 DEF PrintsInTurn, NoEmit, SignalInv
      <3> QED BY <3>2, <3>3, <3>4 DEF SignalInv, SignalStopsOutput
    <2> QED BY <2>1, <2>2, <2>3
  <1>3. SignalInv => SignalStopsOutput
    BY DEF SignalInv
  <1> QED BY <1>1, <1>2, <1>3, Inductive, PTL DEF Spec

(* However deep links make the tree, the recursion holds less than         *)
(* PathCapacity directories open: an entry whose path would not fit the    *)
(* buffer is passed over before it is opened.                              *)
THEOREM DescriptorBound == Spec => []OpenDirectoriesBounded
  <1>1. Init => OpenDirectoriesBounded
    <2> SUFFICES ASSUME Init PROVE OpenDirectoriesBounded
      OBVIOUS
    <2>1. Len(stack) = 0
      BY DEF Init
    <2> QED BY <2>1, SearchSpaceAssumption DEF OpenDirectoriesBounded
  <1>2. IInv /\ OpenDirectoriesBounded /\ [Next]_vars => OpenDirectoriesBounded'
    <2> SUFFICES ASSUME IInv, OpenDirectoriesBounded, [Next]_vars
                 PROVE  Len(stack') < PathCapacity
      BY DEF OpenDirectoriesBounded
    <2>0. /\ Len(stack) \in Nat /\ Len(stack) < PathCapacity /\ PathCapacity \in Nat
      BY SearchSpaceAssumption DEF IInv, TypeOK, OpenDirectoriesBounded
    <2>1. ASSUME UNCHANGED stack PROVE Len(stack') < PathCapacity
      BY <2>0, <2>1
    <2>2. ASSUME stack # <<>>, NEW ok, Return(ok) PROVE Len(stack') < PathCapacity
      <3>1. stack' = Below /\ Len(Below) = Len(stack) - 1
        BY <2>2, TopFacts DEF Return
      <3> QED BY <3>1, <2>0
    <2>3. CASE RootDescend
      <3>1. Len(stack') = 1
        BY <2>3, RootDescendKeepsShape
      <3>2. ArgLength[Root] < PathCapacity /\ RootsLeft
        BY <2>3 DEF RootDescend, RootFits, RootStated, AtRoot
      <3>3. Root \in Dirents
        BY <3>2, RootFacts
      <3>4. ArgLength[Root] \in Nat \ {0}
        BY <3>3, ArgLengthType
      <3> QED BY <3>1, <3>2, <3>4, <2>0
    <2>4. CASE RootStep /\ ~RootDescend
      BY <2>1, <2>4 DEF RootStep, RootStop, RootStatFails, RootTooLong, RootEmitFails,
         RootLeaf, RootOpenFails, RootsExhausted, RootAnswers
    <2>5. CASE EntryStep
      <3>1. PICK d \in Top.todo : pc = "walk" /\ Handles(d)
        BY <2>5, EntryStepHandles
      <3>2. pc = "walk" /\ d \in Top.todo
        BY <3>1
      <3>3. stack # <<>> /\ Top.path_length = Len(stack) /\ path_buffer # <<>>
        BY <3>2, TopFacts DEF IInv, TypeOK
      <3>4. ASSUME SkipEntry(d) \/ \E st, again \in StatAnswers(d) :
                                     VisitLeaf(d, st, again) \/ DescendFails(d, st, again)
            PROVE  Len(stack') < PathCapacity
        <4>1. Continue(d) /\ path_buffer' = path_buffer
          BY <3>2, <3>4, PathFacts DEF SkipEntry, VisitLeaf, DescendFails
        <4>2. Len(stack') = Len(stack)
          BY <3>2, <4>1, ContinueKeepsShape
        <4> QED BY <4>2, <2>0
      <3>5. ASSUME NEW st \in StatAnswers(d), EmitFails(d, st) PROVE Len(stack') < PathCapacity
        BY <2>2, <3>3, <3>5 DEF EmitFails
      <3>6. ASSUME NEW st \in StatAnswers(d), NEW again \in StatAnswers(d),
                   Descend(d, st, again)
            PROVE  Len(stack') < PathCapacity
        <4>1. Len(stack') = Len(stack) + 1
          BY <3>2, <3>6, DescendKeepsShape
        <4>2. ArgLength[path_buffer[1]] + Len(stack) < PathCapacity
          BY <3>3, <3>6 DEF Descend, Passed
        <4>3. path_buffer[1] \in Dirents
          BY <3>3 DEF IInv, TypeOK
        <4>4. ArgLength[path_buffer[1]] \in Nat \ {0}
          BY <4>3, ArgLengthType
        <4> QED BY <4>1, <4>2, <4>4, <2>0
      <3> QED BY <3>1, <3>4, <3>5, <3>6 DEF Handles
    <2>6. CASE StopDirectory \/ EndOfDirectory \/ ReadFails \/ Resume
      <3>1. stack # <<>>
        BY <2>6 DEF StopDirectory, EndOfDirectory, ReadFails, Resume, Reading, IInv, TypeOK
      <3>2. (\E ok \in BOOLEAN : Return(ok)) \/ UNCHANGED stack
        BY <2>6 DEF StopDirectory, EndOfDirectory, ReadFails, Resume, LoopEnds
      <3> QED BY <2>1, <2>2, <3>1, <3>2
    <2>7. CASE Look \/ Signal \/ Finished \/ UNCHANGED vars
      BY <2>1, <2>7 DEF Look, Signal, Finished, vars
    <2> QED BY <2>3, <2>4, <2>5, <2>6, <2>7 DEF Next, WalkStep
  <1> QED BY <1>1, <1>2, Inductive, PTL DEF Spec

-----------------------------------------------------------------------------
(* The invariants. *)

(* Every open directory is one the search was to look into; the last one   *)
(* may be at the depth limit itself (should_descend_directory refuses from *)
(* the level after it on), in which case nothing in it can match.          *)
Descent ==
  /\ stack # <<>> => root_index \in DOMAIN Roots(config)
  /\ \A k \in 1..Len(stack) :
       /\ IsDirectory(config, path_buffer[k])
       /\ config.options.max_depth # None => k - 1 <= config.options.max_depth
       /\ k > 1 =>
            /\ Visible(config, path_buffer[k])
            /\ config.options.respect_ignore_defaults =>
                 NameOf[path_buffer[k]] \notin IgnoredNames

(* With --one-file-system the device is resolved before a root is walked,  *)
(* it is the device of a root, and no directory below a root was entered   *)
(* on another one.                                                         *)
DeviceOfRoots ==
  config.one_file_system =>
    /\ stack # <<>> => root_device # None
    /\ \A k \in 2..Len(stack) :
         StatOf(path_buffer[k], config.follow_symlinks).dev = root_device
    /\ root_device # None =>
         \E i \in DOMAIN Roots(config) :
           /\ StatOf(Roots(config)[i], config.follow_symlinks) # NoMeta
           /\ root_device = StatOf(Roots(config)[i], config.follow_symlinks).dev

(* The walk stops for no other reason than the signal. *)
StopIsSignal == stop_requested => signalled

(* The path goes on below the k-th directory of the buffer. *)
Through(path, buffer, k) == Len(path) > k /\ \A j \in 1..k : path[j] = buffer[j]

(* What has been printed lies behind the walk: under a root that has been  *)
(* visited, and through no entry that is still to be read.                 *)
OutputIsBehind ==
  /\ \A path \in output :
       \E i \in DOMAIN Roots(config) :
         /\ path[1] = Roots(config)[i]
         /\ i < root_index \/ (i = root_index /\ stack # <<>>)
  /\ \A path \in output : \A k \in 1..Len(stack) :
       Through(path, path_buffer, k) => path[k + 1] \notin stack[k].todo
  /\ \A k \in 1..(Len(stack) - 1) : path_buffer[k + 1] \notin stack[k].todo

(* What lies ahead: under a root not yet visited, or through an entry that *)
(* an open directory has still to read.                                    *)
Ahead(path) ==
  \/ \E i \in DOMAIN Roots(config) :
       /\ path[1] = Roots(config)[i]
       /\ i > root_index \/ (i = root_index /\ stack = <<>>)
  \/ \E k \in 1..Len(stack) : Through(path, path_buffer, k) /\ path[k + 1] \in stack[k].todo

(* As long as nothing has failed and no signal came, what is wanted has    *)
(* been printed or lies ahead.                                             *)
NothingMissed ==
  errors = {} /\ ~signalled =>
    \A path \in WantedOf[config] : path \in output \/ Ahead(path)

-----------------------------------------------------------------------------
(* The steps as moves of the stack, the buffer and the roots. *)

(* No frame and no root is done with; the path of the open directories     *)
(* stays in the buffer.                                                    *)
Stays ==
  /\ UNCHANGED <<config, root_index, stack, root_device, output, emitted_count>>
  /\ \A k \in 1..Len(stack) : path_buffer'[k] = path_buffer[k]

(* A root is done with and was not walked. *)
PassesRoot ==
  /\ RootsLeft
  /\ config' = config /\ stack' = <<>> /\ root_index' = root_index + 1
  /\ root_device' = root_device \/ RootStated
  /\ \/ NoEmit /\ (errors' # {} \/ "write" \in Faults)
     \/ RootFits /\ Emit(<<Root>>, RootAccepted) /\ (RootIsWalked => errors' # {})

(* An entry of the innermost open directory is done with. *)
PassesEntry(d) ==
  /\ pc = "walk" /\ d \in Top.todo
  /\ UNCHANGED <<config, root_index, path_buffer, root_device>>
  /\ stack' \in Seq(Frames) /\ Len(stack') = Len(stack)
  /\ \A k \in 1..(Len(stack) - 1) : stack'[k] = stack[k]
  /\ stack'[Len(stack)].todo = Top.todo \ {d}
  /\ \/ ~Passed(d) /\ NoEmit
     \/ /\ Passed(d)
        /\ \E st, again \in StatAnswers(d) :
             Emit(PathOf(d), Accepted(d, st)) /\ (Descends(d, st, again) => errors' # {})

(* An entry of the innermost open directory is opened. *)
EntersEntry(d) ==
  /\ pc = "walk" /\ d \in Top.todo
  /\ \E st, again \in StatAnswers(d) : Descend(d, st, again)
  /\ stack' \in Seq(Frames) /\ Len(stack') = Len(stack) + 1
  /\ \A k \in 1..(Len(stack) - 1) : stack'[k] = stack[k]
  /\ stack'[Len(stack)].todo = Top.todo \ {d}
  /\ stack'[Len(stack) + 1].todo = EntriesOf(NodeOf(d, config.follow_symlinks))

(* The innermost open directory is closed, and its root is done with if it *)
(* was the outermost too.                                                  *)
Leaves ==
  /\ stack # <<>>
  /\ UNCHANGED <<config, root_device, output, emitted_count>>
  /\ stack' \in Seq(Frames) /\ Len(stack') = Len(stack) - 1
  /\ \A k \in 1..(Len(stack) - 1) : stack'[k] = stack[k] /\ path_buffer'[k] = path_buffer[k]
  /\ root_index' = IF Len(stack) > 1 THEN root_index ELSE root_index + 1
  /\ Top.todo = {} \/ errors' # {} \/ should_stop \/ "write" \in Faults

(* The frames after an entry has been dealt with. *)
LEMMA ConsumeFrames ==
  ASSUME IInv, pc = "walk", NEW d \in Top.todo, NEW s, s = Append(Below, Consume(d))
  PROVE  /\ s \in Seq(Frames) /\ Len(s) = Len(stack)
         /\ \A k \in 1..(Len(stack) - 1) : s[k] = stack[k]
         /\ s[Len(stack)].todo = Top.todo \ {d}
  <1>1. stack # <<>>
    BY DEF IInv, TypeOK
  <1>2. /\ Len(stack) \in Nat \ {0} /\ Top \in Frames
        /\ Below \in Seq(Frames) /\ Len(Below) = Len(stack) - 1
        /\ \A k \in 1..(Len(stack) - 1) : Below[k] = stack[k]
    BY <1>1, TopFacts
  <1> DEFINE f == Consume(d)
  <1>3. f \in Frames /\ f.todo = Top.todo \ {d}
    BY <1>2 DEF Consume, Frames
  <1> HIDE DEF f
  <1> QED BY <1>2, <1>3, AppendProperties DEF f

(* The steps of visit_root, as moves. *)
LEMMA RootMoves ==
  ASSUME IInv, RootStep
  PROVE  Stays \/ PassesRoot \/ RootDescend
  <1>1. CASE RootStop \/ RootsExhausted
    BY <1>1 DEF RootStop, RootsExhausted, Stays
  <1>2. ASSUME NEW ok, RootsLeft, RootAnswers(ok)
        PROVE  config' = config /\ stack' = <<>> /\ root_index' = root_index + 1
    BY <1>2, RootFacts DEF RootAnswers
  <1>3. ASSUME NEW path, NEW dir, collector_append(path, dir) PROVE errors' # {}
    BY <1>3 DEF collector_append
  <1>4. CASE RootStatFails
    BY <1>2, <1>3, <1>4 DEF RootStatFails, AtRoot, PassesRoot
  <1>5. CASE RootTooLong
    <2>1. RootsLeft /\ RootStated
      BY <1>5 DEF RootTooLong, RootStated, AtRoot
    <2> QED BY <2>1, <1>2, <1>3, <1>5 DEF RootTooLong, PassesRoot
  <1>6. CASE RootEmitFails \/ RootLeaf \/ RootOpenFails
    <2>1. RootsLeft /\ RootStated /\ RootFits
      BY <1>6 DEF RootEmitFails, RootLeaf, RootOpenFails, RootFits, RootStated, AtRoot
    <2> QED BY <2>1, <1>2, <1>3, <1>6 DEF RootEmitFails, RootLeaf, RootOpenFails, PassesRoot
  <1> QED BY <1>1, <1>4, <1>5, <1>6 DEF RootStep

(* The ways out of a call of iterate_entries all take its frame away. *)
LEMMA ReturnMoves ==
  ASSUME IInv, stack # <<>>, NEW ok, Return(ok), config' = config, NoEmit,
         root_device' = root_device,
         \A k \in 1..Len(stack) : path_buffer'[k] = path_buffer[k],
         Top.todo = {} \/ errors' # {} \/ should_stop \/ "write" \in Faults
  PROVE  Leaves
  <1>1. /\ Len(stack) \in Nat \ {0}
        /\ Below \in Seq(Frames) /\ Len(Below) = Len(stack) - 1
        /\ \A k \in 1..(Len(stack) - 1) : Below[k] = stack[k]
    BY TopFacts
  <1>2. stack' = Below /\ root_index' = IF Len(stack) > 1 THEN root_index ELSE root_index + 1
    BY DEF Return
  <1>3. \A k \in 1..(Len(stack) - 1) : k \in 1..Len(stack)
    BY <1>1
  <1> QED BY <1>1, <1>2, <1>3 DEF Leaves, NoEmit

(* The steps of the loop of iterate_entries, as moves. *)
LEMMA EntryMoves ==
  ASSUME IInv, EntryStep
  PROVE  Leaves \/ \E d \in Dirents : PassesEntry(d) \/ EntersEntry(d)
  <1>1. PICK d \in Top.todo : d \in Dirents /\ pc = "walk" /\ Handles(d)
    BY EntryStepHandles
  <1>2. pc = "walk" /\ d \in Top.todo
    BY <1>1
  <1>3. /\ stack # <<>> /\ Len(stack) \in Nat
        /\ PathOf(d) \in Seq(Dirents)
        /\ \A k \in 1..Len(stack) : PathOf(d)[k] = path_buffer[k]
        /\ truncate(PathOf(d), Top.path_length) = path_buffer
        /\ truncate(path_buffer, Top.path_length) = path_buffer
    BY <1>2, PathFacts DEF IInv, TypeOK
  <1>4. ASSUME SkipEntry(d) \/ \E st, again \in StatAnswers(d) :
                                 VisitLeaf(d, st, again) \/ DescendFails(d, st, again)
        PROVE  PassesEntry(d)
    <2>1. /\ stack' = Append(Below, Consume(d)) /\ path_buffer' = path_buffer
          /\ UNCHANGED <<config, root_index, root_device>>
      BY <1>3, <1>4 DEF SkipEntry, VisitLeaf, DescendFails, Continue
    <2>2. /\ stack' \in Seq(Frames) /\ Len(stack') = Len(stack)
          /\ \A k \in 1..(Len(stack) - 1) : stack'[k] = stack[k]
          /\ stack'[Len(stack)].todo = Top.todo \ {d}
      BY <1>2, <2>1, ConsumeFrames
    <2>3. \/ ~Passed(d) /\ NoEmit
          \/ /\ Passed(d)
             /\ \E st, again \in StatAnswers(d) :
                  Emit(PathOf(d), Accepted(d, st)) /\ (Descends(d, st, again) => errors' # {})
      BY <1>4 DEF SkipEntry, VisitLeaf, DescendFails, collector_append
    <2> QED BY <1>2, <2>1, <2>2, <2>3 DEF PassesEntry
  <1>5. ASSUME NEW st \in StatAnswers(d), EmitFails(d, st) PROVE Leaves
    <2>1. /\ Return(FALSE) /\ config' = config /\ NoEmit /\ root_device' = root_device
          /\ path_buffer' = PathOf(d) /\ "write" \in Faults
      BY <1>5 DEF EmitFails
    <2> QED BY <1>3, <2>1, ReturnMoves
  <1>6. ASSUME NEW st \in StatAnswers(d), NEW again \in StatAnswers(d), Descend(d, st, again)
        PROVE  EntersEntry(d)
    <2> DEFINE dir == NodeOf(d, config.follow_symlinks)
               r == Append(Below, Consume(d))
               g == [dir |-> dir, path_length |-> Top.path_length + 1,
                     depth |-> Top.depth + 1, todo |-> EntriesOf(dir)]
    <2>1. stack' = Append(r, g)
      BY <1>6 DEF Descend
    <2>2. /\ r \in Seq(Frames) /\ Len(r) = Len(stack)
          /\ \A k \in 1..(Len(stack) - 1) : r[k] = stack[k]
          /\ r[Len(stack)].todo = Top.todo \ {d}
      BY <1>2, ConsumeFrames
    <2>3. g \in Frames /\ g.todo = EntriesOf(dir)
      <3>1. dir \in Inodes
        BY <1>2, <1>3, <1>6, IsDirectorySound DEF Descend, Descends
      <3>2. Top \in Frames
        BY <1>3, TopFacts
      <3> QED BY <3>1, <3>2 DEF Frames, EntriesOf
    <2> HIDE DEF r, g, dir
    <2>4. /\ stack' \in Seq(Frames) /\ Len(stack') = Len(stack) + 1
          /\ \A k \in 1..Len(stack) : stack'[k] = r[k]
          /\ stack'[Len(stack) + 1] = g
      BY <1>3, <2>1, <2>2, <2>3, AppendProperties
    <2>5. Len(stack) \in Nat \ {0}
      BY <1>3, TopFacts
    <2>6. /\ \A k \in 1..(Len(stack) - 1) : stack'[k] = stack[k]
          /\ stack'[Len(stack)].todo = Top.todo \ {d}
      BY <2>2, <2>4, <2>5
    <2> QED BY <1>2, <1>6, <2>3, <2>4, <2>6 DEF EntersEntry, dir
  <1> QED BY <1>1, <1>4, <1>5, <1>6 DEF Handles

(* Every step is one of these moves. *)
LEMMA Moves ==
  ASSUME IInv, [Next]_vars
  PROVE  \/ Stays \/ PassesRoot \/ RootDescend \/ Leaves
         \/ \E d \in Dirents : PassesEntry(d) \/ EntersEntry(d)
  <1>1. CASE RootStep
    BY <1>1, RootMoves
  <1>2. CASE EntryStep
    BY <1>2, EntryMoves
  <1>3. CASE StopDirectory \/ EndOfDirectory \/ ReadFails
    <2>1. stack # <<>>
      BY <1>3 DEF StopDirectory, EndOfDirectory, ReadFails, Reading, IInv, TypeOK
    <2>2. /\ \E ok \in BOOLEAN : Return(ok)
          /\ NoEmit /\ UNCHANGED <<config, path_buffer, root_device>>
          /\ Top.todo = {} \/ errors' # {} \/ should_stop
      BY <1>3 DEF StopDirectory, EndOfDirectory, ReadFails, LoopEnds, collector_append
    <2> QED BY <2>1, <2>2, ReturnMoves
  <1>4. CASE Resume
    <2>1. stack # <<>>
      BY <1>4 DEF Resume, IInv, TypeOK
    <2>2. \A k \in 1..Len(stack) : path_buffer'[k] = path_buffer[k]
      BY <2>1, <1>4, CutFacts DEF Resume
    <2>3. CASE ~returned /\ should_stop
      BY <1>4, <2>1, <2>2, <2>3, ReturnMoves DEF Resume
    <2>4. CASE ~(~returned /\ should_stop)
      BY <1>4, <2>2, <2>4 DEF Resume, NoEmit, Stays
    <2> QED BY <2>3, <2>4
  <1>5. CASE Look \/ Signal \/ Finished \/ UNCHANGED vars
    BY <1>5 DEF Look, Signal, Finished, vars, Stays
  <1> QED BY <1>1, <1>2, <1>3, <1>4, <1>5 DEF Next, WalkStep

-----------------------------------------------------------------------------
(* Paths. *)

(* What the configuration of a walk is known to be. *)
LEMMA ConfigFacts ==
  ASSUME IInv
  PROVE  /\ config \in Configs
         /\ BoundOptions(config.options)
         /\ config.options.max_depth \in Nat \cup {None}
         /\ None \notin Nat
         /\ config.follow_symlinks \in BOOLEAN
         /\ config.one_file_system \in BOOLEAN
         /\ Roots(config) \in Seq(Dirents)
         /\ Len(Roots(config)) > 0
  <1>1. config \in Configs
    BY DEF IInv, TypeOK
  <1> QED BY <1>1, SearchFacts

(* A root alone is a chain. *)
LEMMA RootIsChain ==
  ASSUME IInv, RootsLeft
  PROVE  /\ <<Root>> \in Seq(Dirents) /\ Len(<<Root>>) = 1 /\ <<Root>>[1] = Root
         /\ Root = Roots(config)[root_index] /\ root_index \in DOMAIN Roots(config)
         /\ IsChain(config, <<Root>>)
  <1>1. Root \in Dirents /\ root_index \in DOMAIN Roots(config)
    BY RootFacts
  <1>2. Root = Roots(config)[root_index]
    BY DEF Root
  <1>3. /\ <<Root>> \in Seq(Dirents) /\ Len(<<Root>>) = 1 /\ <<Root>>[1] = Root /\ <<Root>> # <<>>
    BY <1>1
  <1>4. 2..Len(<<Root>>) = {}
    BY <1>3
  <1> QED BY <1>1, <1>2, <1>3, <1>4, ChainByEntries

(* The open directories but the last are below the depth limit. *)
LEMMA OpenIsEnterable ==
  ASSUME IInv, Descent, NEW k \in 1..Len(stack),
         k = Len(stack) /\ config.options.max_depth # None =>
           Len(stack) <= config.options.max_depth
  PROVE  EnterableAt(config, path_buffer, k)
  <1>1. Len(stack) \in Nat /\ config.options.max_depth \in Nat \cup {None}
    <2>1. stack \in Seq(Frames)
      BY DEF IInv, TypeOK
    <2>2. Len(stack) \in Nat
      BY <2>1, LenProperties
    <2> QED BY <2>2, ConfigFacts
  <1>2. /\ IsDirectory(config, path_buffer[k])
        /\ k > 1 =>
             /\ Visible(config, path_buffer[k])
             /\ config.options.respect_ignore_defaults => NameOf[path_buffer[k]] \notin IgnoredNames
    BY <1>1 DEF Descent
  <1> DEFINE n == Len(stack)
             limit == config.options.max_depth
  <1>3. /\ n \in Nat /\ k \in 1..n /\ limit \in Nat \cup {None}
        /\ k = n /\ limit # None => n <= limit
    BY <1>1, Zenon
  <1>4. \A j \in 1..n : limit # None => j - 1 <= limit
    BY Zenon DEF Descent
  <1> HIDE DEF n, limit
  <1>5. limit # None => k - 1 < limit
    <2> SUFFICES ASSUME limit # None PROVE k - 1 < limit
      OBVIOUS
    <2>1. CASE k = n
      BY <1>3, <2>1
    <2>2. CASE k < n
      <3>1. k \in Nat /\ k + 1 \in 1..n /\ (k + 1) - 1 = k
        BY <1>3, <2>2
      <3>2. k <= limit
        BY <1>4, <3>1
      <3> QED BY <1>3, <3>1, <3>2
    <2> QED BY <1>3, <2>1, <2>2
  <1>6. config.options.max_depth # None => k - 1 < config.options.max_depth
    BY <1>5 DEF limit
  <1> QED BY <1>2, <1>6 DEF EnterableAt

(* The path in the buffer is a chain while the loop reads. *)
LEMMA BufferIsChain ==
  ASSUME IInv, Descent, pc = "walk"
  PROVE  /\ IsChain(config, path_buffer)
         /\ Len(path_buffer) = Len(stack)
         /\ Top.dir = NodeOf(path_buffer[Len(path_buffer)], config.follow_symlinks)
  <1>1. /\ path_buffer \in Seq(Dirents) /\ stack # <<>> /\ stack \in Seq(Frames)
        /\ Len(path_buffer) = Len(stack) /\ Len(stack) \in Nat \ {0}
        /\ DOMAIN stack = 1..Len(stack)
    BY DEF IInv, TypeOK, BufferFollowsStack
  <1>2. \E i \in DOMAIN Roots(config) : path_buffer[1] = Roots(config)[i]
    BY <1>1 DEF IInv, BufferFollowsStack, Descent
  <1>3. \A k \in 2..Len(path_buffer) :
          /\ HolderOf[path_buffer[k]] = NodeOf(path_buffer[k - 1], config.follow_symlinks)
          /\ EnterableAt(config, path_buffer, k - 1)
    <2> SUFFICES ASSUME NEW k \in 2..Len(path_buffer)
                 PROVE  /\ HolderOf[path_buffer[k]]
                             = NodeOf(path_buffer[k - 1], config.follow_symlinks)
                        /\ EnterableAt(config, path_buffer, k - 1)
      OBVIOUS
    <2>1. k \in 2..Len(stack) /\ k - 1 \in DOMAIN stack /\ k - 1 \in 1..Len(stack) /\ k - 1 # Len(stack)
      BY <1>1
    <2>2. HolderOf[path_buffer[k]] = stack[k - 1].dir
      BY <2>1 DEF IInv, BufferFollowsStack
    <2>3. stack[k - 1].dir = NodeOf(path_buffer[k - 1], config.follow_symlinks)
      BY <2>1 DEF IInv, BufferFollowsStack
    <2> QED BY <2>1, <2>2, <2>3, OpenIsEnterable
  <1>4. Top.dir = NodeOf(path_buffer[Len(path_buffer)], config.follow_symlinks)
    BY <1>1 DEF Top, IInv, BufferFollowsStack
  <1> QED BY <1>1, <1>2, <1>3, <1>4, ChainByEntries

(* What is known of the path of an entry: it is a chain if the entry is    *)
(* within the depth limit, and fits the buffer if it is not passed over.   *)
LEMMA EntryPath ==
  ASSUME IInv, Descent, pc = "walk", NEW d \in Top.todo
  PROVE  /\ PathOf(d) \in Seq(Dirents) /\ Len(PathOf(d)) = Len(stack) + 1
         /\ \A k \in 1..Len(stack) : PathOf(d)[k] = path_buffer[k]
         /\ PathOf(d)[Len(stack) + 1] = d
         /\ PathOf(d)[1] = path_buffer[1]
         /\ HolderOf[d] = NodeOf(path_buffer[Len(stack)], config.follow_symlinks)
         /\ PathLength(PathOf(d)) = ArgLength[path_buffer[1]] + Len(stack)
         /\ (config.options.max_depth # None => Len(stack) <= config.options.max_depth)
              => IsChain(config, PathOf(d))
  <1> DEFINE n == Len(stack)
             path == PathOf(d)
  <1>1. /\ stack # <<>> /\ d \in Dirents
        /\ path \in Seq(Dirents) /\ Len(path) = n + 1
        /\ \A k \in 1..n : path[k] = path_buffer[k]
        /\ path[n + 1] = d
    BY PathFacts
  <1>2. /\ n \in Nat \ {0} /\ HolderOf[d] = Top.dir
    BY <1>1, TopFacts
  <1>3. path[1] = path_buffer[1] /\ path # <<>>
    BY <1>1, <1>2
  <1>4. /\ IsChain(config, path_buffer) /\ Len(path_buffer) = n
        /\ Top.dir = NodeOf(path_buffer[n], config.follow_symlinks)
        /\ path_buffer \in Seq(Dirents)
    BY BufferIsChain DEF IInv, TypeOK
  <1>5. PathLength(path) = ArgLength[path_buffer[1]] + n
    <2>1. path_buffer[1] \in Dirents
      BY <1>2, <1>4
    <2>2. ArgLength[path_buffer[1]] \in Nat
      BY <2>1, ArgLengthType
    <2> QED BY <2>2, <1>1, <1>2, <1>3 DEF PathLength
  <1>6. ASSUME config.options.max_depth # None => n <= config.options.max_depth
        PROVE  IsChain(config, path)
    <2>1. /\ \E i \in DOMAIN Roots(config) : path_buffer[1] = Roots(config)[i]
          /\ \A k \in 2..n :
               /\ HolderOf[path_buffer[k]] = NodeOf(path_buffer[k - 1], config.follow_symlinks)
      BY <1>4, ChainByEntries
    <2>2. \A k \in 1..n : EnterableAt(config, path_buffer, k)
      BY <1>6, OpenIsEnterable
    <2>3. \A k \in 1..n : EnterableAt(config, path, k)
      BY <1>1, <2>2 DEF EnterableAt
    <2>4. \A k \in 2..(n + 1) :
            HolderOf[path[k]] = NodeOf(path[k - 1], config.follow_symlinks)
      <3>1. \A k \in 2..(n + 1) : k - 1 \in 1..n /\ (k = n + 1 \/ (k \in 2..n /\ k \in 1..n))
        BY <1>2
      <3>2. \A k \in 2..n : HolderOf[path[k]] = NodeOf(path[k - 1], config.follow_symlinks)
        <4>1. \A k \in 2..n : k \in 1..n /\ k - 1 \in 1..n
          BY <1>2
        <4> QED BY <4>1, <1>1, <2>1
      <3>3. HolderOf[path[n + 1]] = NodeOf(path[n], config.follow_symlinks)
        BY <1>1, <1>2, <1>4
      <3>4. SUFFICES ASSUME NEW k \in 2..(n + 1)
                     PROVE  HolderOf[path[k]] = NodeOf(path[k - 1], config.follow_symlinks)
        OBVIOUS
      <3>5. CASE k = n + 1
        BY <3>3, <3>5, <1>2
      <3>6. CASE k \in 2..n
        BY <3>2, <3>6
      <3> QED BY <3>1, <3>5, <3>6
    <2>5. \A k \in 2..(n + 1) : EnterableAt(config, path, k - 1)
      BY <2>3, <1>2
    <2> QED BY <1>1, <1>3, <2>1, <2>4, <2>5, ChainByEntries
  <1> QED BY <1>1, <1>2, <1>3, <1>4, <1>5, <1>6

-----------------------------------------------------------------------------
(* The filter, as the walk uses it. *)

(* What is a directory, seen through a link if links are followed, is one  *)
(* for is_directory, whatever the evaluation has found out before.         *)
LEMMA IsDirectoryComplete ==
  ASSUME IInv, stack # <<>>, NEW d \in Top.todo, IsDirectory(config, d)
  PROVE  is_directory(d, EntryStat(d), EntryStat(d))
  <1> DEFINE st == StatOf(d, config.follow_symlinks)
             c0 == entry_candidate(d)
             c == Evaluation(d, EntryStat(d)).candidate
             follow == config.follow_symlinks
  <1>1. d \in Dirents /\ HolderOf[d] = Top.dir /\ Top.dir \in Inodes
    BY TopFacts
  <1>2. follow \in BOOLEAN
    BY ConfigFacts
  <1>3. EntryStat(d) = st
    BY <1>1, <1>2, FstatatFindsEntry DEF EntryStat
  <1>4. /\ c0.entry_type = DType(d) /\ c0.type_resolved = (DType(d) # "any")
        /\ c0.follow_symlinks_enabled = follow
        /\ "stat_populated" \in DOMAIN c0 /\ "entry_type" \in DOMAIN c0
        /\ "type_resolved" \in DOMAIN c0
    BY DEF entry_candidate
  <1>5. st # NoMeta /\ st.type = "directory"
    BY DEF IsDirectory
  <1>6. c \in {c0, filter_populate_stat(c0, st)}
    <2>1. c = filter_evaluate(predicate(config), c0, st).candidate
      BY <1>3 DEF Evaluation
    <2> HIDE DEF c0, st, c
    <2> QED BY <2>1, <1>4, EvaluateCandidate, Zenon
  <1>7. LET f == filter_populate_stat(c0, st)
        IN /\ f.type_resolved
           /\ f.entry_type = IF DType(d) = "any" \/ follow THEN st.type ELSE DType(d)
    BY <1>4, <1>5 DEF filter_populate_stat, entry_candidate
  <1>8. DType(d) # "any" => DType(d) = "directory" \/ (DType(d) = "symlink" /\ follow)
    <2>1. HolderOf[d] # NoInode
      BY <1>1, FileTreeAssumption
    <2> QED BY <2>1, <1>1, <1>2, <1>5, DTypeFacts
  <1>9. CASE c = c0
    <2>1. CASE DType(d) = "any" \/ (DType(d) = "symlink" /\ follow)
      <3>1. filter_populate_stat(c, EntryStat(d)).entry_type = "directory"
        BY <1>3, <1>5, <1>7, <1>9, <2>1
      <3>2. ~c.type_resolved \/ (follow /\ c.entry_type = "symlink")
        BY <1>4, <1>9, <2>1
      <3> HIDE DEF c, st
      <3> QED BY <3>1, <3>2, <1>3, <1>5 DEF is_directory, c
    <2>2. CASE DType(d) = "directory"
      <3>1. c.type_resolved /\ c.entry_type = "directory"
        BY <1>4, <1>9, <2>2
      <3> HIDE DEF c
      <3> QED BY <3>1 DEF is_directory, c
    <2> QED BY <2>1, <2>2, <1>8
  <1>10. CASE c = filter_populate_stat(c0, st)
    <2>1. c.type_resolved /\ c.entry_type = "directory"
      BY <1>5, <1>7, <1>8, <1>10
    <2> HIDE DEF c
    <2> QED BY <2>1 DEF is_directory, c
  <1> QED BY <1>6, <1>9, <1>10

(* The verdict on an entry that can be statted is whether the options      *)
(* select it.                                                              *)
LEMMA EntryVerdict ==
  ASSUME IInv, Descent, pc = "walk", NEW d \in Top.todo
  PROVE  Accepted(d, EntryStat(d)) <=> Matches(config, PathOf(d))
  <1> DEFINE n == Len(stack)
             path == PathOf(d)
             c == entry_candidate(d)
             st == StatOf(d, config.follow_symlinks)
  <1>1. /\ stack # <<>> /\ n \in Nat \ {0} /\ Top.depth = n - 1
        /\ d \in Dirents /\ HolderOf[d] = Top.dir /\ Top.dir \in Inodes
    <2>1. stack # <<>>
      BY DEF IInv, TypeOK
    <2> QED BY <2>1, TopFacts
  <1>2. Len(path) = n + 1 /\ path[n + 1] = d
    BY EntryPath
  <1>3. config.follow_symlinks \in BOOLEAN /\ BoundOptions(config.options)
    BY ConfigFacts
  <1>4. EntryStat(d) = st
    BY <1>1, <1>3, FstatatFindsEntry DEF EntryStat
  <1>5. st \in MetaRecords \cup {NoMeta}
    BY <1>1, <1>3, StatFacts
  <1>6. /\ c.path = path /\ c.basename = NameOf[d] /\ c.depth = n
        /\ c.entry_type = DType(d) /\ c.type_resolved = (DType(d) # "any")
        /\ c.stat_populated = FALSE /\ DOMAIN c = CandidateFields
    BY <1>1 DEF entry_candidate, CandidateFields
  <1> HIDE DEF c, st
  <1>7. ConsistentCandidate(c, st)
    BY <1>1, <1>5, <1>6 DEF ConsistentCandidate
  <1>8. Accepted(d, EntryStat(d)) <=> Selected(config.options, Now, EntryOf(c, st), st)
    <2>1. Evaluation(d, EntryStat(d))
            = filter_evaluate(predicate_from_options(config.options, Now), c, st)
      BY <1>4 DEF Evaluation, predicate, c
    <2> QED BY <2>1, <1>3, <1>7, EvaluateMeaning DEF Accepted
  <1>9. TypeOfPath(config, path) = IF c.type_resolved \/ st = NoMeta THEN c.entry_type ELSE st.type
    <2>1. TypeOfPath(config, path) =
            IF DType(d) # "any" THEN DType(d) ELSE IF st = NoMeta THEN "any" ELSE st.type
      BY <1>1, <1>2 DEF TypeOfPath, st
    <2> QED BY <2>1, <1>6
  <1>10. EntryOf(c, st) = [path |-> path, basename |-> NameOf[d], depth |-> Len(path) - 1,
                           type |-> TypeOfPath(config, path)]
    BY <1>1, <1>2, <1>6, <1>9 DEF EntryOf
  <1> QED BY <1>2, <1>8, <1>10 DEF Matches, st

(* A stat that fails makes nothing match that does not. *)
LEMMA AcceptedMatches ==
  ASSUME IInv, Descent, pc = "walk", NEW d \in Top.todo, NEW st \in StatAnswers(d),
         Accepted(d, st)
  PROVE  Matches(config, PathOf(d))
  <1>1. stack # <<>>
    BY DEF IInv, TypeOK
  <1>2. st \in {EntryStat(d), NoMeta}
    BY <1>1, StatAnswersAre
  <1>3. Accepted(d, EntryStat(d))
    BY <1>2, AcceptedUnasked DEF Accepted, Evaluation
  <1> QED BY <1>3, EntryVerdict

(* So is the verdict on a root, unless it is taken for something else.     *)
LEMMA RootVerdictMeaning ==
  ASSUME IInv, RootsLeft, RootsNotMistaken(config), RootStat # NoMeta
  PROVE  RootAccepted <=> Matches(config, <<Root>>)
  <1>1. config \in Configs /\ root_index \in DOMAIN Roots(config)
    BY RootFacts, ConfigFacts
  <1>2. Root = Roots(config)[root_index] /\ RootStat = StatOf(Root, config.follow_symlinks)
    BY DEF Root, RootStat
  <1> QED BY <1>1, <1>2, RootVerdictMatches DEF RootAccepted

-----------------------------------------------------------------------------
(* The descent. *)

(* What a step never changes or takes back: the search itself, the signal, *)
(* an error, a printed path.                                               *)
LEMMA StepsOnlyAdd ==
  ASSUME [Next]_vars
  PROVE  /\ config' = config
         /\ signalled => signalled'
         /\ errors \subseteq errors'
         /\ output \subseteq output'
  <1>1. ASSUME NEW path, NEW dir, collector_append(path, dir) PROVE errors \subseteq errors'
    BY <1>1 DEF collector_append
  <1>2. ASSUME NEW path, NEW accepted, Emit(path, accepted) PROVE output \subseteq output'
    BY <1>2 DEF Emit
  <1>3. CASE RootStep
    <2>1. config' = config /\ signalled' = signalled
      BY <1>3 DEF RootStep, RootStop, RootStatFails, RootTooLong, RootEmitFails, RootLeaf,
         RootOpenFails, RootDescend, RootsExhausted, RootAnswers
    <2>2. output \subseteq output' /\ errors \subseteq errors'
      BY <1>1, <1>2, <1>3 DEF RootStep, RootStop, RootStatFails, RootTooLong, RootEmitFails,
         RootLeaf, RootOpenFails, RootDescend, RootsExhausted, NoEmit
    <2> QED BY <2>1, <2>2
  <1>4. CASE EntryStep
    <2>1. PICK d \in Top.todo : Handles(d)
      BY <1>4, EntryStepHandles
    <2>2. config' = config /\ signalled' = signalled
      BY <2>1 DEF Handles, SkipEntry, EmitFails, VisitLeaf, DescendFails, Descend, Continue
    <2>3. output \subseteq output' /\ errors \subseteq errors'
      BY <1>1, <1>2, <2>1 DEF Handles, SkipEntry, EmitFails, VisitLeaf, DescendFails, Descend, NoEmit
    <2> QED BY <2>2, <2>3
  <1>5. CASE StopDirectory \/ EndOfDirectory \/ ReadFails \/ Resume
    <2>1. config' = config /\ signalled' = signalled
      BY <1>5 DEF StopDirectory, EndOfDirectory, ReadFails, Resume, LoopEnds
    <2>2. output \subseteq output' /\ errors \subseteq errors'
      BY <1>1, <1>5 DEF StopDirectory, EndOfDirectory, ReadFails, Resume, LoopEnds, NoEmit
    <2> QED BY <2>1, <2>2
  <1>6. CASE Look \/ Signal \/ Finished \/ UNCHANGED vars
    BY <1>6 DEF Look, Signal, Finished, vars
  <1> QED BY <1>3, <1>4, <1>5, <1>6 DEF Next, WalkStep

(* The walk of a root starts in a directory above the depth limit. *)
LEMMA RootWalkFacts ==
  ASSUME IInv, RootDescend
  PROVE  /\ RootsLeft /\ stack = <<>> /\ root_index' = root_index
         /\ stack' \in Seq(Frames) /\ Len(stack') = 1 /\ stack' # <<>>
         /\ stack'[1].todo = EntriesOf(NodeOf(Root, config.follow_symlinks))
         /\ path_buffer' = <<Root>> /\ path_buffer'[1] = Root
         /\ RootStat # NoMeta /\ IsDirectory(config, Root)
         /\ config.options.max_depth # None => 0 < config.options.max_depth
  <1>1. RootsLeft /\ RootStat # NoMeta /\ RootIsWalked /\ root_index' = root_index
    BY DEF RootDescend, RootFits, RootStated, AtRoot
  <1>2. stack = <<>>
    BY <1>1, RootFacts
  <1>3. stack' \in Seq(Frames) /\ Len(stack') = 1
    BY RootDescendKeepsShape DEF Shape
  <1>4. IsDirectory(config, Root)
    BY <1>1 DEF RootIsWalked, RootStat, IsDirectory
  <1>5. config.options.max_depth # None => 0 < config.options.max_depth
    BY <1>1, ConfigFacts DEF RootIsWalked
  <1>6. /\ stack'[1].todo = EntriesOf(NodeOf(Root, config.follow_symlinks))
        /\ path_buffer' = <<Root>> /\ path_buffer'[1] = Root /\ stack' # <<>>
    BY DEF RootDescend
  <1> QED BY <1>1, <1>2, <1>3, <1>4, <1>5, <1>6

(* A directory below is entered only if it is to be looked into. *)
LEMMA DescendFacts ==
  ASSUME IInv, Descent, NEW d \in Dirents, EntersEntry(d)
  PROVE  /\ pc = "walk" /\ d \in Top.todo /\ stack # <<>> /\ Len(stack) \in Nat \ {0}
         /\ root_index' = root_index
         /\ path_buffer' = PathOf(d) /\ path_buffer' \in Seq(Dirents)
         /\ Len(path_buffer') = Len(stack) + 1
         /\ \A k \in 1..Len(stack) : path_buffer'[k] = path_buffer[k]
         /\ path_buffer'[Len(stack) + 1] = d
         /\ Passed(d) /\ Visible(config, d) /\ IsDirectory(config, d)
         /\ NodeOf(d, config.follow_symlinks) \in Inodes
         /\ config.options.max_depth # None => Len(stack) <= config.options.max_depth
         /\ config.options.respect_ignore_defaults => NameOf[d] \notin IgnoredNames
         /\ ~OtherDevice(d) /\ root_device' = root_device
  <1>0. pc = "walk" /\ d \in Top.todo
    BY DEF EntersEntry
  <1>a. PICK st \in StatAnswers(d), again \in StatAnswers(d) : Descend(d, st, again)
    BY DEF EntersEntry
  <1>1. /\ pc = "walk" /\ d \in Top.todo /\ Passed(d) /\ ~OtherDevice(d)
        /\ is_directory(d, st, again) /\ should_descend_directory(d)
        /\ path_buffer' = PathOf(d) /\ root_device' = root_device
        /\ root_index' = root_index
    BY <1>0, <1>a DEF Descend, Descends
  <1>2. stack # <<>>
    BY <1>1 DEF IInv, TypeOK
  <1>3. Len(stack) \in Nat \ {0} /\ Top.depth = Len(stack) - 1
    BY <1>2, TopFacts
  <1>4. /\ PathOf(d) \in Seq(Dirents) /\ Len(PathOf(d)) = Len(stack) + 1
        /\ \A k \in 1..Len(stack) : PathOf(d)[k] = path_buffer[k]
        /\ PathOf(d)[Len(stack) + 1] = d
    BY <1>1, EntryPath
  <1>5. IsDirectory(config, d) /\ NodeOf(d, config.follow_symlinks) \in Inodes
    BY <1>1, <1>2, IsDirectorySound
  <1>6. /\ Visible(config, d)
        /\ config.options.max_depth # None => Len(stack) <= config.options.max_depth
        /\ config.options.respect_ignore_defaults => NameOf[d] \notin IgnoredNames
    BY <1>1, <1>3 DEF should_descend_directory, filter_ignored_directory_name, Visible
  <1> QED BY <1>1, <1>2, <1>3, <1>4, <1>5, <1>6

(* Every open directory stays one the search was to look into. *)
LEMMA DescentKept ==
  ASSUME IInv, Descent, [Next]_vars
  PROVE  Descent'
  <1>0. /\ config' = config /\ Len(stack) \in Nat
        /\ config.options.max_depth \in Nat \cup {None}
        /\ stack \in Seq(Frames)
    BY StepsOnlyAdd, ConfigFacts DEF IInv, TypeOK
  <1>1. CASE Stays
    BY <1>0, <1>1 DEF Stays, Descent
  <1>2. CASE PassesRoot
    <2>1. stack' = <<>> /\ Len(stack') = 0
      BY <1>2 DEF PassesRoot
    <2> QED BY <2>1 DEF Descent
  <1>3. CASE RootDescend
    <2>1. /\ root_index' = root_index /\ root_index \in DOMAIN Roots(config)
          /\ Len(stack') = 1 /\ path_buffer'[1] = Root /\ IsDirectory(config, Root)
          /\ config.options.max_depth # None => 0 <= config.options.max_depth
      BY <1>0, <1>3, RootWalkFacts, RootFacts
    <2> QED BY <1>0, <2>1 DEF Descent
  <1>4. CASE Leaves
    <2>1. Len(stack') = Len(stack) - 1 /\ stack # <<>> /\ stack' \in Seq(Frames)
      BY <1>4 DEF Leaves
    <2>2. \A k \in 1..Len(stack') : k \in 1..Len(stack) /\ path_buffer'[k] = path_buffer[k]
      BY <1>0, <1>4, <2>1 DEF Leaves
    <2>3. stack' # <<>> => root_index' = root_index
      BY <1>0, <1>4, <2>1 DEF Leaves
    <2> QED BY <1>0, <2>1, <2>2, <2>3 DEF Descent
  <1>5. ASSUME NEW d \in Dirents, PassesEntry(d) PROVE Descent'
    <2>1. /\ Len(stack') = Len(stack) /\ UNCHANGED <<root_index, path_buffer>> /\ stack # <<>>
      BY <1>5 DEF PassesEntry, IInv, TypeOK
    <2> QED BY <1>0, <2>1 DEF Descent
  <1>6. ASSUME NEW d \in Dirents, EntersEntry(d) PROVE Descent'
    <2>1. /\ Len(stack') = Len(stack) + 1 /\ root_index' = root_index /\ stack # <<>>
      BY <1>6, DescendFacts DEF EntersEntry
    <2>2. \A k \in 1..Len(stack') : k \in 1..Len(stack) \/ k = Len(stack) + 1
      BY <1>0, <2>1
    <2>3. /\ \A k \in 1..Len(stack) : path_buffer'[k] = path_buffer[k]
          /\ path_buffer'[Len(stack) + 1] = d
          /\ Visible(config, d) /\ IsDirectory(config, d)
          /\ config.options.max_depth # None =>
               (Len(stack) + 1) - 1 <= config.options.max_depth
          /\ config.options.respect_ignore_defaults => NameOf[d] \notin IgnoredNames
      BY <1>0, <1>6, DescendFacts
    <2>4. root_index' \in DOMAIN Roots(config')
      BY <1>0, <2>1 DEF Descent
    <2> QED BY <1>0, <2>2, <2>3, <2>4 DEF Descent
  <1> QED BY <1>1, <1>2, <1>3, <1>4, <1>5, <1>6, Moves

(* The device is that of a root, and every directory below is on it. *)
LEMMA DeviceKept ==
  ASSUME IInv, Descent, DeviceOfRoots, [Next]_vars
  PROVE  DeviceOfRoots'
  <1> DEFINE DevOf(d) == StatOf(d, config.follow_symlinks).dev
             RootDevice(v) ==
               \E i \in DOMAIN Roots(config) :
                 /\ StatOf(Roots(config)[i], config.follow_symlinks) # NoMeta
                 /\ v = StatOf(Roots(config)[i], config.follow_symlinks).dev
  <1>0. config' = config /\ Len(stack) \in Nat /\ config.follow_symlinks \in BOOLEAN
    BY StepsOnlyAdd, ConfigFacts DEF IInv, TypeOK
  <1>1. SUFFICES ASSUME config.one_file_system
                 PROVE  /\ stack' # <<>> => root_device' # None
                        /\ \A k \in 2..Len(stack') : DevOf(path_buffer'[k]) = root_device'
                        /\ root_device' # None => RootDevice(root_device')
    BY <1>0 DEF DeviceOfRoots
  <1>2. /\ stack # <<>> => root_device # None
        /\ \A k \in 2..Len(stack) : DevOf(path_buffer[k]) = root_device
        /\ root_device # None => RootDevice(root_device)
    BY <1>1 DEF DeviceOfRoots
  <1>3. ASSUME RootsLeft, RootStated
        PROVE  root_device' # None /\ RootDevice(root_device')
    <2>1. /\ RootStat \in MetaRecords /\ RootStat # NoMeta
          /\ root_index \in DOMAIN Roots(config)
      BY <1>3, RootFacts DEF RootStated
    <2>2. RootStat.dev # None /\ RootDevice(RootStat.dev)
      BY <2>1, SearchSpaceAssumption DEF MetaRecords, RootStat, Root
    <2> HIDE DEF RootDevice
    <2> QED BY <1>1, <1>2, <1>3, <2>2 DEF RootStated
  <1> HIDE DEF RootDevice, DevOf
  <1>4. CASE Stays
    <2>1. \A k \in 2..Len(stack) : k \in 1..Len(stack)
      BY <1>0
    <2> QED BY <1>2, <1>4, <2>1 DEF Stays
  <1>5. CASE PassesRoot
    <2>1. stack' = <<>> /\ Len(stack') = 0
      BY <1>5 DEF PassesRoot
    <2>2. root_device' = root_device \/ (RootsLeft /\ RootStated)
      BY <1>5 DEF PassesRoot
    <2> QED BY <1>2, <1>3, <2>1, <2>2
  <1>6. CASE RootDescend
    <2>1. Len(stack') = 1 /\ RootsLeft /\ RootStated
      BY <1>6, RootWalkFacts DEF RootDescend, RootFits
    <2> QED BY <1>3, <2>1
  <1>7. CASE Leaves
    <2>1. /\ Len(stack') = Len(stack) - 1 /\ stack # <<>> /\ root_device' = root_device
          /\ \A k \in 1..(Len(stack) - 1) : path_buffer'[k] = path_buffer[k]
      BY <1>7 DEF Leaves
    <2>2. \A k \in 2..Len(stack') : k \in 1..(Len(stack) - 1) /\ k \in 2..Len(stack)
      BY <1>0, <2>1
    <2> QED BY <1>2, <2>1, <2>2
  <1>8. ASSUME NEW d \in Dirents, PassesEntry(d)
        PROVE  /\ stack' # <<>> => root_device' # None
               /\ \A k \in 2..Len(stack') : DevOf(path_buffer'[k]) = root_device'
               /\ root_device' # None => RootDevice(root_device')
    <2>1. /\ Len(stack') = Len(stack) /\ UNCHANGED <<root_device, path_buffer>> /\ stack # <<>>
      BY <1>8 DEF PassesEntry, IInv, TypeOK
    <2> QED BY <1>2, <2>1
  <1>9. ASSUME NEW d \in Dirents, EntersEntry(d)
        PROVE  /\ stack' # <<>> => root_device' # None
               /\ \A k \in 2..Len(stack') : DevOf(path_buffer'[k]) = root_device'
               /\ root_device' # None => RootDevice(root_device')
    <2>1. /\ Len(stack') = Len(stack) + 1 /\ root_device' = root_device /\ stack # <<>>
          /\ Len(stack) \in Nat \ {0}
          /\ \A k \in 1..Len(stack) : path_buffer'[k] = path_buffer[k]
          /\ path_buffer'[Len(stack) + 1] = d
          /\ ~OtherDevice(d) /\ NodeOf(d, config.follow_symlinks) \in Inodes
      BY <1>9, DescendFacts DEF EntersEntry
    <2>2. DevOf(d) = root_device
      <3>1. Meta[NodeOf(d, config.follow_symlinks)].dev = root_device
        BY <1>1, <1>2, <2>1 DEF OtherDevice
      <3>2. StatOf(d, config.follow_symlinks) = Meta[NodeOf(d, config.follow_symlinks)]
        BY <1>0, <2>1, StatFacts
      <3> QED BY <3>1, <3>2 DEF DevOf
    <2>3. \A k \in 2..Len(stack') :
            (k \in 1..Len(stack) /\ k \in 2..Len(stack)) \/ k = Len(stack) + 1
      BY <2>1
    <2> QED BY <1>2, <2>1, <2>2, <2>3
  <1> QED BY <1>4, <1>5, <1>6, <1>7, <1>8, <1>9, Moves

(* stop_requested is set only where the signal has been seen. *)
LEMMA StopKept ==
  ASSUME StopIsSignal, [Next]_vars
  PROVE  StopIsSignal'
  <1>1. CASE RootStep
    BY <1>1 DEF RootStep, RootStop, RootStatFails, RootTooLong, RootEmitFails, RootLeaf,
       RootOpenFails, RootDescend, RootsExhausted, RootAnswers, StopBeforeRoot, should_stop,
       StopIsSignal
  <1>2. CASE EntryStep
    <2>1. PICK d \in Top.todo : Handles(d)
      BY <1>2, EntryStepHandles
    <2>2. UNCHANGED <<stop_requested, signalled>>
      BY <2>1 DEF Handles, SkipEntry, EmitFails, VisitLeaf, DescendFails, Descend, Continue
    <2> QED BY <2>2 DEF StopIsSignal
  <1>3. CASE StopDirectory \/ EndOfDirectory \/ ReadFails \/ Resume
    BY <1>3 DEF StopDirectory, EndOfDirectory, ReadFails, Resume, LoopEnds, should_stop,
       StopIsSignal
  <1>4. CASE Look \/ Signal \/ Finished \/ UNCHANGED vars
    BY <1>4 DEF Look, Signal, Finished, vars, StopIsSignal
  <1> QED BY <1>1, <1>2, <1>3, <1>4 DEF Next, WalkStep

(* The invariant the results rest on. *)
SInv == IInv /\ Descent /\ DeviceOfRoots /\ StopIsSignal

(* It holds in every state of the walk. *)
THEOREM SearchInductive == Spec => []SInv
  <1>1. Init => SInv
    <2> SUFFICES ASSUME Init PROVE SInv
      OBVIOUS
    <2>1. IInv
      BY InitGivesInv
    <2>2. stack = <<>> /\ Len(stack) = 0 /\ root_device = None /\ stop_requested = FALSE
      BY DEF Init
    <2> QED BY <2>1, <2>2 DEF SInv, Descent, DeviceOfRoots, StopIsSignal
  <1>2. SInv /\ [Next]_vars => SInv'
    BY StepKeepsInv, DescentKept, DeviceKept, StopKept DEF SInv
  <1> QED BY <1>1, <1>2, PTL DEF Spec

-----------------------------------------------------------------------------
(* Errors. *)

(* Whatever a step reports, it reports under the path on which the walk    *)
(* came there.                                                             *)
LEMMA ErrorsKept ==
  ASSUME SInv, ErrorsAreNamed, [Next]_vars
  PROVE  ErrorsAreNamed'
  <1> DEFINE follow == config.follow_symlinks
  <1>0. IInv /\ Descent /\ config' = config
    BY StepsOnlyAdd DEF SInv
  <1>1. ASSUME NEW path, NEW dir, collector_append(path, dir),
               IsChain(config, path), dir = NodeOf(path[Len(path)], follow)
        PROVE  ErrorsAreNamed'
    <2>1. \A e \in errors' : e \in errors \/ e = [path |-> path, dir |-> dir]
      BY <1>1 DEF collector_append
    <2> QED BY <1>0, <1>1, <2>1 DEF ErrorsAreNamed
  <1>2. ASSUME errors' = errors PROVE ErrorsAreNamed'
    BY <1>0, <1>2 DEF ErrorsAreNamed
  <1>3. CASE RootStep
    <2>1. CASE RootStatFails
      <3>1. RootsLeft /\ collector_append(<<Root>>, NodeOf(Root, follow))
        BY <2>1 DEF RootStatFails, AtRoot
      <3>2. IsChain(config, <<Root>>) /\ <<Root>>[Len(<<Root>>)] = Root
        BY <1>0, <3>1, RootIsChain
      <3> QED BY <1>1, <3>1, <3>2
    <2>2. CASE RootTooLong \/ RootOpenFails
      <3>1. RootsLeft /\ collector_append(<<Root>>, NodeOf(Root, follow))
        BY <2>2 DEF RootTooLong, RootOpenFails, RootFits, RootStated, AtRoot
      <3>2. IsChain(config, <<Root>>) /\ <<Root>>[Len(<<Root>>)] = Root
        BY <1>0, <3>1, RootIsChain
      <3> QED BY <1>1, <3>1, <3>2
    <2>3. CASE RootStop \/ RootEmitFails \/ RootLeaf \/ RootDescend \/ RootsExhausted
      BY <1>2, <2>3 DEF RootStop, RootEmitFails, RootLeaf, RootDescend, RootsExhausted
    <2> QED BY <1>3, <2>1, <2>2, <2>3 DEF RootStep
  <1>4. CASE EntryStep
    <2>1. PICK d \in Top.todo : pc = "walk" /\ Handles(d)
      BY <1>4, EntryStepHandles
    <2>2. ASSUME NEW st \in StatAnswers(d), NEW again \in StatAnswers(d),
                 DescendFails(d, st, again)
          PROVE  ErrorsAreNamed'
      <3>1. /\ pc = "walk" /\ d \in Top.todo /\ should_descend_directory(d)
            /\ collector_append(PathOf(d), NodeOf(d, follow))
        BY <2>1, <2>2 DEF DescendFails, Descends
      <3>2. Len(stack) \in Nat \ {0} /\ Top.depth = Len(stack) - 1
        BY <1>0, <3>1, TopFacts DEF IInv, TypeOK
      <3>3. config.options.max_depth # None => Len(stack) <= config.options.max_depth
        BY <3>1, <3>2 DEF should_descend_directory
      <3>4. IsChain(config, PathOf(d)) /\ PathOf(d)[Len(PathOf(d))] = d
        BY <1>0, <3>1, <3>3, EntryPath
      <3> QED BY <1>1, <3>1, <3>4
    <2>3. ASSUME SkipEntry(d) \/ \E st, again \in StatAnswers(d) :
                                   \/ EmitFails(d, st) \/ VisitLeaf(d, st, again)
                                   \/ Descend(d, st, again)
          PROVE  ErrorsAreNamed'
      BY <1>2, <2>3 DEF SkipEntry, EmitFails, VisitLeaf, Descend
    <2> QED BY <2>1, <2>2, <2>3 DEF Handles
  <1>5. CASE ReadFails
    <2>1. pc = "walk" /\ collector_append(path_buffer, Top.dir)
      BY <1>5 DEF ReadFails
    <2> QED BY <1>0, <1>1, <2>1, BufferIsChain
  <1>6. CASE \/ Look \/ StopDirectory \/ EndOfDirectory \/ Resume \/ Signal \/ Finished
             \/ UNCHANGED vars
    BY <1>2, <1>6 DEF Look, StopDirectory, EndOfDirectory, Resume, Signal, Finished, vars
  <1> QED BY <1>3, <1>4, <1>5, <1>6 DEF Next, WalkStep

(* An error of the walk names what failed by a path of the search, however *)
(* deep the call was and whatever deeper calls left in the shared buffer.  *)
THEOREM ErrorsCarryTheirPath == Spec => []ErrorsAreNamed
  <1>1. Init => ErrorsAreNamed
    BY DEF Init, ErrorsAreNamed
  <1>2. SInv /\ ErrorsAreNamed /\ [Next]_vars => ErrorsAreNamed'
    BY ErrorsKept
  <1> QED BY <1>1, <1>2, SearchInductive, PTL DEF Spec

-----------------------------------------------------------------------------
(* No path twice. *)

(* What EmittedOnce rests on, for searches whose arguments part. *)
CountedOnce ==
  /\ OutputIsBehind
  /\ IsFiniteSet(output)
  /\ emitted_count = Cardinality(output)

(* A path printed for the first time adds one to the count. *)
LEMMA EmitCounts ==
  ASSUME IsFiniteSet(output), emitted_count = Cardinality(output),
         NEW path, NEW accepted, Emit(path, accepted), path \notin output
  PROVE  /\ IsFiniteSet(output') /\ emitted_count' = Cardinality(output')
         /\ output' \subseteq output \cup {path}
  <1>1. CASE accepted
    <2>1. output' = output \cup {path} /\ emitted_count' = emitted_count + 1
      BY <1>1 DEF Emit
    <2> QED BY <2>1, FS_AddElement
  <1>2. CASE ~accepted
    BY <1>2 DEF Emit
  <1> QED BY <1>1, <1>2

(* Two roots of a search whose arguments part are different. *)
LEMMA RootsDiffer ==
  ASSUME IInv, RootsApart(config),
         NEW i \in DOMAIN Roots(config), NEW j \in DOMAIN Roots(config),
         Roots(config)[i] = Roots(config)[j]
  PROVE  i = j
  BY ConfigFacts, ApartIsDistinct

(* Every move leaves what it prints behind. *)
LEMMA BehindKept ==
  ASSUME SInv, RootsApart(config), CountedOnce, [Next]_vars
  PROVE  CountedOnce'
  <1> DEFINE n == Len(stack)
  <1>0. /\ IInv /\ Descent /\ config' = config /\ n \in Nat /\ stack \in Seq(Frames)
        /\ root_index \in Nat \ {0}
    BY StepsOnlyAdd DEF SInv, IInv, TypeOK
  <1>1. /\ IsFiniteSet(output) /\ emitted_count = Cardinality(output)
        /\ \A path \in output :
             \E i \in DOMAIN Roots(config) :
               /\ path[1] = Roots(config)[i]
               /\ i < root_index \/ (i = root_index /\ stack # <<>>)
        /\ \A path \in output : \A k \in 1..n :
             Through(path, path_buffer, k) => path[k + 1] \notin stack[k].todo
        /\ \A k \in 1..(n - 1) : path_buffer[k + 1] \notin stack[k].todo
    BY DEF CountedOnce, OutputIsBehind
  <1>2. CASE Stays
    <2>1. UNCHANGED <<config, stack, root_index, output, emitted_count>>
      BY <1>2 DEF Stays
    <2>2. \A path : \A k \in 1..n : Through(path, path_buffer', k) => Through(path, path_buffer, k)
      BY <1>0, <1>2 DEF Stays, Through
    <2>3. \A k \in 1..(n - 1) : k + 1 \in 1..n
      BY <1>0
    <2>4. \A k \in 1..(n - 1) : path_buffer'[k + 1] = path_buffer[k + 1]
      BY <1>2, <2>3 DEF Stays
    <2> QED BY <1>1, <2>1, <2>2, <2>4 DEF CountedOnce, OutputIsBehind
  <1>3. ASSUME RootsLeft, Emit(<<Root>>, RootAccepted) \/ NoEmit
        PROVE  /\ IsFiniteSet(output') /\ emitted_count' = Cardinality(output')
               /\ output' \subseteq output \cup {<<Root>>}
               /\ \A path \in output : path[1] # Root
    <2>1. /\ Root = Roots(config)[root_index] /\ root_index \in DOMAIN Roots(config)
          /\ stack = <<>> /\ <<Root>>[1] = Root
      BY <1>0, <1>3, RootIsChain, RootFacts
    <2>2. \A path \in output : path[1] # Root
      <3> SUFFICES ASSUME NEW path \in output, path[1] = Root PROVE FALSE
        OBVIOUS
      <3>1. PICK i \in DOMAIN Roots(config) : path[1] = Roots(config)[i] /\ i < root_index
        BY <1>1, <2>1
      <3>2. i = root_index
        BY <1>0, <2>1, <3>1, RootsDiffer
      <3> QED BY <1>0, <3>1, <3>2
    <2>3. <<Root>> \notin output
      BY <2>1, <2>2
    <2>4. CASE NoEmit
      BY <1>1, <2>2, <2>4 DEF NoEmit
    <2> QED BY <1>1, <1>3, <2>2, <2>3, <2>4, EmitCounts
  <1>4. CASE PassesRoot
    <2>1. /\ RootsLeft /\ stack' = <<>> /\ Len(stack') = 0 /\ root_index' = root_index + 1
          /\ Emit(<<Root>>, RootAccepted) \/ NoEmit
      BY <1>4 DEF PassesRoot
    <2>2. /\ <<Root>>[1] = Roots(config)[root_index] /\ root_index \in DOMAIN Roots(config)
          /\ stack = <<>>
      BY <1>0, <2>1, RootIsChain, RootFacts
    <2>3. /\ IsFiniteSet(output') /\ emitted_count' = Cardinality(output')
          /\ output' \subseteq output \cup {<<Root>>}
      BY <1>3, <2>1
    <2>4. \A path \in output' :
            \E i \in DOMAIN Roots(config) : path[1] = Roots(config)[i] /\ i < root_index + 1
      <3>1. \A i \in DOMAIN Roots(config) : i < root_index => i < root_index + 1
        BY <1>0, ConfigFacts
      <3>2. root_index < root_index + 1
        BY <1>0
      <3> QED BY <1>1, <2>2, <2>3, <3>1, <3>2
    <2> QED BY <1>0, <2>1, <2>3, <2>4 DEF CountedOnce, OutputIsBehind
  <1>5. CASE RootDescend
    <2>1. /\ RootsLeft /\ stack = <<>> /\ Len(stack') = 1 /\ stack' # <<>>
          /\ path_buffer'[1] = Root /\ root_index' = root_index
          /\ Emit(<<Root>>, RootAccepted)
      BY <1>0, <1>5, RootWalkFacts DEF RootDescend
    <2>2. /\ <<Root>>[1] = Roots(config)[root_index] /\ root_index \in DOMAIN Roots(config)
          /\ Len(<<Root>>) = 1
      BY <1>0, <2>1, RootIsChain, RootFacts
    <2>3. /\ IsFiniteSet(output') /\ emitted_count' = Cardinality(output')
          /\ output' \subseteq output \cup {<<Root>>}
          /\ \A path \in output : path[1] # Root
      BY <1>3, <2>1
    <2>4. \A path \in output' : ~Through(path, path_buffer', 1)
      <3>1. ~Through(<<Root>>, path_buffer', 1)
        BY <2>2 DEF Through
      <3>2. \A path \in output : ~Through(path, path_buffer', 1)
        BY <2>1, <2>3 DEF Through
      <3> QED BY <2>3, <3>1, <3>2
    <2>5. \A path \in output' :
            \E i \in DOMAIN Roots(config) :
              path[1] = Roots(config)[i] /\ (i < root_index \/ i = root_index)
      BY <1>1, <2>1, <2>2, <2>3
    <2> QED BY <1>0, <2>1, <2>3, <2>4, <2>5 DEF CountedOnce, OutputIsBehind
  <1>6. CASE Leaves
    <2>1. /\ stack # <<>> /\ UNCHANGED <<output, emitted_count>>
          /\ Len(stack') = n - 1 /\ stack' \in Seq(Frames)
          /\ \A k \in 1..(n - 1) : stack'[k] = stack[k] /\ path_buffer'[k] = path_buffer[k]
          /\ root_index' = IF n > 1 THEN root_index ELSE root_index + 1
      BY <1>6 DEF Leaves
    <2>2. n \in Nat \ {0}
      BY <1>0, <2>1
    <2>3. \A path \in output' : \A k \in 1..Len(stack') :
            Through(path, path_buffer', k) => path[k + 1] \notin stack'[k].todo
      <3>1. \A path : \A k \in 1..(n - 1) : Through(path, path_buffer', k) => Through(path, path_buffer, k)
        BY <2>1, <2>2 DEF Through
      <3>2. \A k \in 1..(n - 1) : k \in 1..n
        BY <2>2
      <3> QED BY <1>1, <2>1, <3>1, <3>2
    <2>4. \A k \in 1..(Len(stack') - 1) : path_buffer'[k + 1] \notin stack'[k].todo
      <3>1. \A k \in 1..(n - 1 - 1) : k + 1 \in 1..(n - 1) /\ k \in 1..(n - 1)
        BY <2>2
      <3> QED BY <1>1, <2>1, <3>1
    <2>5. \A path \in output' :
            \E i \in DOMAIN Roots(config) :
              /\ path[1] = Roots(config)[i]
              /\ i < root_index' \/ (i = root_index' /\ stack' # <<>>)
      <3>1. CASE n > 1
        <4>1. stack' # <<>> /\ root_index' = root_index
          BY <2>1, <2>2, <3>1
        <4> QED BY <1>1, <2>1, <4>1
      <3>2. CASE n = 1
        <4>1. root_index' = root_index + 1
          BY <2>1, <3>2
        <4>2. \A i \in DOMAIN Roots(config) : i < root_index \/ i = root_index => i < root_index'
          BY <1>0, <4>1, ConfigFacts
        <4> QED BY <1>1, <2>1, <4>2
      <3>3. n > 1 \/ n = 1
        BY <2>2
      <3> QED BY <3>1, <3>2, <3>3
    <2> QED BY <1>0, <1>1, <2>1, <2>3, <2>4, <2>5 DEF CountedOnce, OutputIsBehind
  <1>7. ASSUME NEW d \in Dirents, pc = "walk", d \in Top.todo,
               (\E accepted : Emit(PathOf(d), accepted)) \/ NoEmit
        PROVE  /\ IsFiniteSet(output') /\ emitted_count' = Cardinality(output')
               /\ output' \subseteq output \cup {PathOf(d)}
               /\ stack # <<>> /\ n \in Nat \ {0} /\ Top = stack[n]
               /\ Len(PathOf(d)) = n + 1 /\ PathOf(d)[n + 1] = d
               /\ \A k \in 1..n : PathOf(d)[k] = path_buffer[k]
               /\ PathOf(d)[1] = Roots(config)[root_index] /\ root_index \in DOMAIN Roots(config)
               /\ \A path \in output : ~(Through(path, path_buffer, n) /\ path[n + 1] = d)
    <2>1. stack # <<>>
      BY <1>0, <1>7 DEF IInv, TypeOK
    <2>2. n \in Nat \ {0} /\ Top = stack[n]
      BY <1>0, <2>1, TopFacts
    <2>3. /\ Len(PathOf(d)) = n + 1 /\ PathOf(d)[n + 1] = d
          /\ \A k \in 1..n : PathOf(d)[k] = path_buffer[k]
          /\ PathOf(d)[1] = path_buffer[1]
      BY <1>0, <1>7, EntryPath
    <2>4. path_buffer[1] = Roots(config)[root_index] /\ root_index \in DOMAIN Roots(config)
      BY <1>0, <2>1 DEF IInv, BufferFollowsStack, Descent
    <2>5. \A path \in output : ~(Through(path, path_buffer, n) /\ path[n + 1] = d)
      BY <1>1, <1>7, <2>2
    <2>6. Through(PathOf(d), path_buffer, n)
      BY <2>2, <2>3 DEF Through
    <2>7. PathOf(d) \notin output
      BY <2>3, <2>5, <2>6
    <2>8. /\ IsFiniteSet(output') /\ emitted_count' = Cardinality(output')
          /\ output' \subseteq output \cup {PathOf(d)}
      <3>1. CASE NoEmit
        BY <1>1, <3>1 DEF NoEmit
      <3> QED BY <1>1, <1>7, <2>7, <3>1, EmitCounts
    <2> QED BY <2>1, <2>2, <2>3, <2>4, <2>5, <2>8
  <1>8. ASSUME NEW d \in Dirents, PassesEntry(d) PROVE CountedOnce'
    <2>1. /\ pc = "walk" /\ d \in Top.todo /\ UNCHANGED <<root_index, path_buffer>>
          /\ Len(stack') = n
          /\ \A k \in 1..(n - 1) : stack'[k] = stack[k]
          /\ stack'[n].todo = Top.todo \ {d}
          /\ (\E accepted : Emit(PathOf(d), accepted)) \/ NoEmit
      BY <1>8 DEF PassesEntry
    <2>2. /\ IsFiniteSet(output') /\ emitted_count' = Cardinality(output')
          /\ output' \subseteq output \cup {PathOf(d)}
          /\ stack # <<>> /\ n \in Nat \ {0} /\ Top = stack[n]
          /\ Len(PathOf(d)) = n + 1 /\ PathOf(d)[n + 1] = d
          /\ \A k \in 1..n : PathOf(d)[k] = path_buffer[k]
          /\ PathOf(d)[1] = Roots(config)[root_index] /\ root_index \in DOMAIN Roots(config)
      BY <1>7, <2>1
    <2>3. stack' # <<>>
      BY <2>1, <2>2
    <2>4. \A k \in 1..n : stack'[k].todo \subseteq stack[k].todo
      <3>1. \A k \in 1..n : k = n \/ k \in 1..(n - 1)
        BY <2>2
      <3> QED BY <2>1, <2>2, <3>1
    <2>5. \A path : \A k \in 1..n : Through(path, path_buffer', k) <=> Through(path, path_buffer, k)
      BY <2>1 DEF Through
    <2>6. \A k \in 1..n : PathOf(d)[k + 1] \notin stack'[k].todo
      <3> SUFFICES ASSUME NEW k \in 1..n PROVE PathOf(d)[k + 1] \notin stack'[k].todo
        OBVIOUS
      <3>1. CASE k = n
        BY <2>1, <2>2, <3>1
      <3>2. CASE k \in 1..(n - 1)
        <4>1. k + 1 \in 1..n
          BY <2>2, <3>2
        <4>2. PathOf(d)[k + 1] = path_buffer[k + 1]
          BY <2>2, <4>1
        <4> QED BY <1>1, <2>4, <3>2, <4>2
      <3> QED BY <2>2, <3>1, <3>2
    <2>7. \A path \in output' : \A k \in 1..Len(stack') :
            Through(path, path_buffer', k) => path[k + 1] \notin stack'[k].todo
      BY <1>1, <2>1, <2>2, <2>4, <2>5, <2>6
    <2>8. \A k \in 1..(Len(stack') - 1) : path_buffer'[k + 1] \notin stack'[k].todo
      BY <1>1, <2>1
    <2>9. \A path \in output' :
            \E i \in DOMAIN Roots(config) :
              path[1] = Roots(config)[i] /\ (i < root_index \/ i = root_index)
      BY <1>1, <2>2
    <2> QED BY <1>0, <2>1, <2>2, <2>3, <2>7, <2>8, <2>9 DEF CountedOnce, OutputIsBehind
  <1>9. ASSUME NEW d \in Dirents, EntersEntry(d) PROVE CountedOnce'
    <2>1. /\ pc = "walk" /\ d \in Top.todo /\ root_index' = root_index
          /\ \E accepted : Emit(PathOf(d), accepted)
          /\ Len(stack') = n + 1
          /\ \A k \in 1..(n - 1) : stack'[k] = stack[k]
          /\ stack'[n].todo = Top.todo \ {d}
          /\ \A k \in 1..n : path_buffer'[k] = path_buffer[k]
          /\ path_buffer'[n + 1] = d
      BY <1>0, <1>9, DescendFacts DEF EntersEntry, Descend
    <2>2. /\ IsFiniteSet(output') /\ emitted_count' = Cardinality(output')
          /\ output' \subseteq output \cup {PathOf(d)}
          /\ stack # <<>> /\ n \in Nat \ {0} /\ Top = stack[n]
          /\ Len(PathOf(d)) = n + 1 /\ PathOf(d)[n + 1] = d
          /\ \A k \in 1..n : PathOf(d)[k] = path_buffer[k]
          /\ PathOf(d)[1] = Roots(config)[root_index] /\ root_index \in DOMAIN Roots(config)
          /\ \A path \in output : ~(Through(path, path_buffer, n) /\ path[n + 1] = d)
      BY <1>7, <2>1
    <2>3. stack' # <<>>
      BY <2>1, <2>2
    <2>4. \A k \in 1..n : stack'[k].todo \subseteq stack[k].todo
      <3>1. \A k \in 1..n : k = n \/ k \in 1..(n - 1)
        BY <2>2
      <3> QED BY <2>1, <2>2, <3>1
    <2>5. \A path : \A k \in 1..n : Through(path, path_buffer', k) <=> Through(path, path_buffer, k)
      BY <2>1, <2>2 DEF Through
    <2>6. \A k \in 1..n : PathOf(d)[k + 1] \notin stack'[k].todo /\ path_buffer'[k + 1] \notin stack'[k].todo
      <3> SUFFICES ASSUME NEW k \in 1..n
                   PROVE  /\ PathOf(d)[k + 1] \notin stack'[k].todo
                          /\ path_buffer'[k + 1] \notin stack'[k].todo
        OBVIOUS
      <3>1. CASE k = n
        BY <2>1, <2>2, <3>1
      <3>2. CASE k \in 1..(n - 1)
        <4>1. k + 1 \in 1..n
          BY <2>2, <3>2
        <4>2. PathOf(d)[k + 1] = path_buffer[k + 1] /\ path_buffer'[k + 1] = path_buffer[k + 1]
          BY <2>1, <2>2, <4>1
        <4> QED BY <1>1, <2>4, <3>2, <4>2
      <3> QED BY <2>2, <3>1, <3>2
    <2>7. \A path \in output' : ~Through(path, path_buffer', n + 1)
      <3>1. ~Through(PathOf(d), path_buffer', n + 1)
        BY <2>2 DEF Through
      <3>2. ASSUME NEW path \in output, Through(path, path_buffer', n + 1) PROVE FALSE
        <4>1. /\ Len(path) > n + 1 /\ \A k \in 1..(n + 1) : path[k] = path_buffer'[k]
          BY <3>2 DEF Through
        <4>2. path[n + 1] = d
          BY <2>1, <2>2, <4>1
        <4>3. \A k \in 1..n : k \in 1..(n + 1)
          BY <2>2
        <4>4. Len(path) > n
          BY <2>2, <4>1, <1>0 DEF IInv, TypeOK
        <4>5. Through(path, path_buffer, n)
          BY <2>1, <4>1, <4>3, <4>4 DEF Through
        <4> QED BY <2>2, <4>2, <4>5
      <3> QED BY <2>2, <3>1, <3>2
    <2>8. \A path \in output' : \A k \in 1..Len(stack') :
            Through(path, path_buffer', k) => path[k + 1] \notin stack'[k].todo
      <3>1. \A k \in 1..Len(stack') : k \in 1..n \/ k = n + 1
        BY <2>1, <2>2
      <3>2. \A path \in output' : \A k \in 1..n :
              Through(path, path_buffer', k) => path[k + 1] \notin stack'[k].todo
        BY <1>1, <2>2, <2>4, <2>5, <2>6
      <3> QED BY <2>7, <3>1, <3>2
    <2>9. \A k \in 1..(Len(stack') - 1) : path_buffer'[k + 1] \notin stack'[k].todo
      BY <2>1, <2>2, <2>6
    <2>10. \A path \in output' :
            \E i \in DOMAIN Roots(config) :
              path[1] = Roots(config)[i] /\ (i < root_index \/ i = root_index)
      BY <1>1, <2>2
    <2> QED BY <1>0, <2>1, <2>2, <2>3, <2>8, <2>9, <2>10 DEF CountedOnce, OutputIsBehind
  <1> QED BY <1>0, <1>2, <1>4, <1>5, <1>6, <1>8, <1>9, Moves

(* What is printed is a path from an argument down, each entry in the      *)
(* directory before it.                                                    *)
OutputLinked == \A path \in output : Linked(config, path)

(* So is the path of an entry that is read. *)
LEMMA EntryLinked ==
  ASSUME IInv, Descent, pc = "walk", NEW d \in Top.todo
  PROVE  Linked(config, PathOf(d))
  <1> DEFINE n == Len(stack)
             path == PathOf(d)
             follow == config.follow_symlinks
  <1>1. /\ path \in Seq(Dirents) /\ Len(path) = n + 1
        /\ \A k \in 1..n : path[k] = path_buffer[k]
        /\ path[n + 1] = d /\ path[1] = path_buffer[1]
    BY EntryPath
  <1>2. stack # <<>> /\ stack \in Seq(Frames) /\ BufferFollowsStack
    BY DEF IInv, TypeOK
  <1>3. n \in Nat \ {0} /\ Top = stack[n] /\ HolderOf[d] = Top.dir
    BY <1>2, TopFacts
  <1>4. \E i \in DOMAIN Roots(config) : path[1] = Roots(config)[i]
    BY <1>1, <1>2 DEF Descent, BufferFollowsStack
  <1>5. \A k \in 1..n : stack[k].dir = NodeOf(path[k], follow) /\ stack[k].dir \in Inodes
    <2> TAKE k \in 1..n
    <2>1. k \in DOMAIN stack /\ stack[k] \in Frames
      BY <1>2
    <2> QED BY <2>1, <1>1, <1>2 DEF BufferFollowsStack, Frames
  <1>6. \A k \in 2..(n + 1) : HolderOf[path[k]] = stack[k - 1].dir
    <2> TAKE k \in 2..(n + 1)
    <2>1. CASE k = n + 1
      BY <1>1, <1>3, <2>1
    <2>2. CASE k \in 2..n
      <3>1. k \in 1..n
        BY <1>3, <2>2
      <3> QED BY <3>1, <2>2, <1>1, <1>2 DEF BufferFollowsStack
    <2> QED BY <1>3, <2>1, <2>2
  <1>7. \A k \in 2..(n + 1) : k - 1 \in 1..n
    BY <1>3
  <1>8. path # <<>>
    BY <1>1, <1>3
  <1> QED BY <1>1, <1>4, <1>5, <1>6, <1>7, <1>8 DEF Linked

(* Every move prints such a path. *)
LEMMA LinkedKept ==
  ASSUME SInv, OutputLinked, [Next]_vars
  PROVE  OutputLinked'
  <1>0. IInv /\ Descent /\ config' = config
    BY StepsOnlyAdd DEF SInv
  <1>1. ASSUME output' = output PROVE OutputLinked'
    BY <1>0, <1>1 DEF OutputLinked
  <1>2. ASSUME NEW path, NEW accepted, Emit(path, accepted), Linked(config, path)
        PROVE  OutputLinked'
    BY <1>0, <1>2 DEF Emit, OutputLinked
  <1>3. CASE Stays \/ Leaves
    BY <1>1, <1>3 DEF Stays, Leaves
  <1>4. CASE PassesRoot \/ RootDescend
    <2>1. CASE NoEmit
      BY <1>1, <2>1 DEF NoEmit
    <2>2. CASE Emit(<<Root>>, RootAccepted)
      <3>1. RootsLeft
        BY <1>4 DEF PassesRoot, RootDescend, RootFits, RootStated, AtRoot
      <3>2. /\ <<Root>> \in Seq(Dirents) /\ Len(<<Root>>) = 1 /\ <<Root>>[1] = Root
            /\ Root = Roots(config)[root_index] /\ root_index \in DOMAIN Roots(config)
        BY <1>0, <3>1, RootIsChain
      <3>3. 2..Len(<<Root>>) = {} /\ <<Root>> # <<>>
        BY <3>2
      <3>4. Linked(config, <<Root>>)
        BY <3>2, <3>3 DEF Linked
      <3> QED BY <1>2, <2>2, <3>4
    <2> QED BY <1>4, <2>1, <2>2 DEF PassesRoot, RootDescend
  <1>5. ASSUME NEW d \in Dirents, PassesEntry(d) \/ EntersEntry(d) PROVE OutputLinked'
    <2>1. pc = "walk" /\ d \in Top.todo
      BY <1>5 DEF PassesEntry, EntersEntry
    <2>2. Linked(config, PathOf(d))
      BY <1>0, <2>1, EntryLinked
    <2>3. NoEmit \/ \E accepted : Emit(PathOf(d), accepted)
      BY <1>5 DEF PassesEntry, EntersEntry, Descend
    <2> QED BY <1>1, <1>2, <2>2, <2>3 DEF NoEmit
  <1> QED BY <1>0, <1>3, <1>4, <1>5, Moves

(* The sequential walk prints no line twice, in any tree, unless one       *)
(* argument lies under another or is repeated: emitted_count is the number *)
(* of different lines.                                                     *)
THEOREM PrintedOnce == Spec => []EmittedOnce
  <1> DEFINE Inv == OutputLinked /\ (RootsApart(config) => CountedOnce)
  <1>1. Init => Inv
    <2> SUFFICES ASSUME Init PROVE OutputLinked /\ CountedOnce
      OBVIOUS
    <2>1. output = {} /\ stack = <<>> /\ Len(stack) = 0 /\ emitted_count = 0
      BY DEF Init
    <2>2. IsFiniteSet(output) /\ Cardinality(output) = 0
      BY <2>1, FS_EmptySet
    <2> QED BY <2>1, <2>2 DEF CountedOnce, OutputIsBehind, OutputLinked
  <1>2. SInv /\ Inv /\ [Next]_vars => Inv'
    <2> SUFFICES ASSUME SInv, Inv, [Next]_vars PROVE Inv'
      OBVIOUS
    <2>1. OutputLinked'
      BY LinkedKept
    <2>2. ASSUME RootsApart(config)' PROVE CountedOnce'
      <3>1. RootsApart(config)
        BY <2>2, StepsOnlyAdd DEF RootsApart
      <3> QED BY <3>1, BehindKept
    <2> QED BY <2>1, <2>2
  <1>3. SInv /\ Inv => EmittedOnce
    <2> SUFFICES ASSUME SInv, Inv, RootsApart(config)
                 PROVE  emitted_count = Cardinality({PrintedAs(path) : path \in output})
      BY DEF EmittedOnce
    <2>1. config \in Configs
      BY ConfigFacts DEF SInv
    <2>2. IsFiniteSet(output) /\ emitted_count = Cardinality(output)
      BY DEF CountedOnce
    <2>3. Cardinality({PrintedAs(path) : path \in output}) = Cardinality(output)
      BY <2>1, <2>2, LinesCounted DEF OutputLinked
    <2> QED BY <2>2, <2>3
  <1> HIDE DEF Inv
  <1> QED BY <1>1, <1>2, <1>3, SearchInductive, PTL DEF Spec

-----------------------------------------------------------------------------
(* Nothing unasked. *)

(* No wanted path is left out of WantedOf. *)
LEMMA WantedPaths ==
  ASSUME IInv, NEW path
  PROVE  path \in WantedOf[config] <=> path \in Seq(Dirents) /\ IsWanted(config, path)
  BY ConfigFacts, WantedBySequences

(* A root that is printed is wanted. *)
LEMMA RootWanted ==
  ASSUME IInv, RootFits, RootsNotMistaken(config), RootAccepted
  PROVE  <<Root>> \in WantedOf[config]
  <1>1. RootsLeft /\ RootStat # NoMeta /\ ArgLength[Root] < PathCapacity
    BY DEF RootFits, RootStated, AtRoot
  <1>2. /\ <<Root>> \in Seq(Dirents) /\ Len(<<Root>>) = 1 /\ <<Root>>[1] = Root
        /\ IsChain(config, <<Root>>)
    BY <1>1, RootIsChain
  <1>3. ArgLength[Root] \in Nat
    BY <1>1, RootFacts, ArgLengthType
  <1>4. PathLength(<<Root>>) < PathCapacity
    BY <1>1, <1>2, <1>3 DEF PathLength
  <1>5. OnOneDevice(config, <<Root>>)
    BY <1>2 DEF OnOneDevice
  <1>6. Matches(config, <<Root>>)
    BY <1>1, RootVerdictMeaning
  <1>7. StatOf(<<Root>>[1], config.follow_symlinks) # NoMeta
    BY <1>1 DEF RootStat
  <1>8. IsWanted(config, <<Root>>)
    BY <1>2, <1>4, <1>5, <1>6, <1>7 DEF IsWanted
  <1> QED BY <1>2, <1>8, WantedPaths

(* The directories the walk is in are on the device of their root, if the  *)
(* roots share theirs.                                                     *)
LEMMA OpenOnOneDevice ==
  ASSUME SInv, RootsShareDevice(config), config.one_file_system, stack # <<>>,
         NEW k \in 1..Len(stack)
  PROVE  StatOf(path_buffer[k], config.follow_symlinks).dev
           = StatOf(path_buffer[1], config.follow_symlinks).dev
  <1> DEFINE follow == config.follow_symlinks
  <1>1. Len(stack) \in Nat \ {0} /\ 1 \in 1..Len(stack)
    BY TopFacts DEF SInv
  <1>2. CASE k = 1
    BY <1>2
  <1>3. CASE k \in 2..Len(stack)
    <2>1. root_device # None /\ StatOf(path_buffer[k], follow).dev = root_device
      BY <1>3 DEF SInv, DeviceOfRoots
    <2>2. PICK i \in DOMAIN Roots(config) :
            /\ StatOf(Roots(config)[i], follow) # NoMeta
            /\ root_device = StatOf(Roots(config)[i], follow).dev
      BY <2>1 DEF SInv, DeviceOfRoots
    <2>3. /\ root_index \in DOMAIN Roots(config) /\ path_buffer[1] = Roots(config)[root_index]
          /\ StatOf(path_buffer[1], follow) # NoMeta
      BY <1>1 DEF SInv, IInv, BufferFollowsStack, Descent, IsDirectory
    <2> QED BY <2>1, <2>2, <2>3 DEF RootsShareDevice
  <1> QED BY <1>1, <1>2, <1>3

(* An entry that is printed is wanted. *)
LEMMA EntryWanted ==
  ASSUME SInv, RootsShareDevice(config), pc = "walk", NEW d \in Top.todo,
         NEW st \in StatAnswers(d), Passed(d), Accepted(d, st)
  PROVE  PathOf(d) \in WantedOf[config]
  <1> DEFINE n == Len(stack)
             path == PathOf(d)
  <1>1. IInv /\ Descent /\ stack # <<>>
    BY DEF SInv, IInv, TypeOK
  <1>2. n \in Nat \ {0} /\ Top.path_length = n
    BY <1>1, TopFacts
  <1>3. /\ path \in Seq(Dirents) /\ Len(path) = n + 1
        /\ \A k \in 1..n : path[k] = path_buffer[k]
        /\ path[n + 1] = d /\ path[1] = path_buffer[1]
        /\ PathLength(path) = ArgLength[path_buffer[1]] + n
        /\ (config.options.max_depth # None => n <= config.options.max_depth)
             => IsChain(config, path)
    BY <1>1, EntryPath
  <1>4. Matches(config, path)
    BY <1>1, AcceptedMatches
  <1>5. config.options.max_depth # None => n <= config.options.max_depth
    <2> DEFINE e == [path |-> path, basename |-> NameOf[d], depth |-> Len(path) - 1,
                     type |-> TypeOfPath(config, path)]
    <2>1. Selected(config.options, Now, e, StatOf(d, config.follow_symlinks))
      BY <1>3, <1>4 DEF Matches
    <2>2. e.depth = n
      BY <1>2, <1>3
    <2> HIDE DEF e
    <2> QED BY <2>1, <2>2, SelectedBounds
  <1>6. PathLength(path) < PathCapacity
    BY <1>2, <1>3 DEF Passed
  <1>7. Visible(config, path[Len(path)])
    BY <1>3 DEF Passed, Visible
  <1>8. config.one_file_system => OnOneDevice(config, path)
    <2>1. 1..(Len(path) - 1) = 1..n
      BY <1>2, <1>3
    <2> QED BY <1>1, <1>3, <2>1, OpenOnOneDevice DEF OnOneDevice
  <1>9. Len(path) # 1
    BY <1>2, <1>3
  <1>10. IsWanted(config, path)
    BY <1>3, <1>4, <1>5, <1>6, <1>7, <1>8, <1>9 DEF IsWanted
  <1> QED BY <1>1, <1>3, <1>10, WantedPaths

(* Every move prints what is wanted. *)
LEMMA WantedKept ==
  ASSUME SInv, OrdinaryRoots(config), OutputIsWanted, [Next]_vars
  PROVE  OutputIsWanted'
  <1>0. /\ IInv /\ Descent /\ config' = config
        /\ RootsShareDevice(config) /\ RootsNotMistaken(config)
    BY StepsOnlyAdd DEF SInv, OrdinaryRoots
  <1>1. ASSUME output' = output PROVE OutputIsWanted'
    BY <1>0, <1>1 DEF OutputIsWanted
  <1>2. ASSUME NEW path, NEW accepted, Emit(path, accepted),
               accepted => path \in WantedOf[config]
        PROVE  OutputIsWanted'
    BY <1>0, <1>2 DEF Emit, OutputIsWanted
  <1>3. CASE Stays \/ Leaves
    BY <1>1, <1>3 DEF Stays, Leaves
  <1>4. CASE PassesRoot \/ RootDescend
    <2>1. CASE NoEmit
      BY <1>1, <2>1 DEF NoEmit
    <2>2. CASE RootFits /\ Emit(<<Root>>, RootAccepted)
      BY <1>0, <1>2, <2>2, RootWanted
    <2> QED BY <1>4, <2>1, <2>2 DEF PassesRoot, RootDescend
  <1>5. ASSUME NEW d \in Dirents, PassesEntry(d) \/ EntersEntry(d) PROVE OutputIsWanted'
    <2>1. pc = "walk" /\ d \in Top.todo
      BY <1>5 DEF PassesEntry, EntersEntry
    <2>2. CASE NoEmit
      BY <1>1, <2>2 DEF NoEmit
    <2>3. ASSUME Passed(d), NEW st \in StatAnswers(d), Emit(PathOf(d), Accepted(d, st))
          PROVE  OutputIsWanted'
      BY <1>0, <1>2, <2>1, <2>3, EntryWanted
    <2> QED BY <1>5, <2>2, <2>3 DEF PassesEntry, EntersEntry, Descend
  <1> QED BY <1>0, <1>3, <1>4, <1>5, Moves

(* Whatever fails and whenever the signal comes, the sequential walk       *)
(* prints nothing the search does not ask for, unless it was given roots   *)
(* on several devices with --one-file-system, or a special file as a root. *)
THEOREM PrintsOnlyWanted == Spec => [](OrdinaryRoots(config) => OutputIsWanted)
  <1> DEFINE Inv == OrdinaryRoots(config) => OutputIsWanted
  <1>1. Init => Inv
    BY DEF Init, OutputIsWanted
  <1>2. SInv /\ Inv /\ [Next]_vars => Inv'
    <2> SUFFICES ASSUME SInv, Inv, [Next]_vars, OrdinaryRoots(config)' PROVE OutputIsWanted'
      OBVIOUS
    <2>0. config' = config
      BY StepsOnlyAdd
    <2>1. OrdinaryRoots(config)
      BY <2>0, Zenon DEF OrdinaryRoots, RootsShareDevice, RootsNotMistaken
    <2> QED BY <2>1, WantedKept
  <1> QED BY <1>1, <1>2, SearchInductive, PTL DEF Spec

-----------------------------------------------------------------------------
(* Nothing left out. *)

(* A wanted path that goes through an entry of the innermost directory:    *)
(* the entry is not passed over, it is printed if the path ends with it,   *)
(* and entered if the path goes on.                                        *)
LEMMA WantedThrough ==
  ASSUME SInv, pc = "walk", NEW d \in Top.todo, NEW path \in WantedOf[config],
         Through(path, path_buffer, Len(stack)), path[Len(stack) + 1] = d
  PROVE  /\ Passed(d)
         /\ Len(path) = Len(stack) + 1 => path = PathOf(d) /\ Accepted(d, EntryStat(d))
         /\ Len(path) > Len(stack) + 1 =>
              /\ Descends(d, EntryStat(d), EntryStat(d))
              /\ path[Len(stack) + 2] \in EntriesOf(NodeOf(d, config.follow_symlinks))
  <1> DEFINE n == Len(stack)
  <1>1. IInv /\ Descent /\ stack # <<>>
    BY DEF SInv, IInv, TypeOK
  <1>2. n \in Nat \ {0} /\ Top.path_length = n /\ Top.depth = n - 1 /\ d \in Dirents
    BY <1>1, TopFacts
  <1>3. path \in Seq(Dirents) /\ IsWanted(config, path)
    BY <1>1, WantedPaths
  <1>4. /\ Len(path) \in Nat /\ Len(path) > n
        /\ \A j \in 1..n : path[j] = path_buffer[j]
        /\ path[1] = path_buffer[1] /\ path[1] \in Dirents
    BY <1>2, <1>3 DEF Through
  <1>5. ArgLength[path[1]] \in Nat
    BY <1>4, ArgLengthType
  <1>6. /\ IsChain(config, path) /\ PathLength(path) < PathCapacity
        /\ Visible(config, path[Len(path)]) /\ Matches(config, path)
    BY <1>2, <1>3, <1>4 DEF IsWanted
  <1>7. ASSUME Len(path) > n + 1
        PROVE  /\ EnterableAt(config, path, n + 1)
               /\ HolderOf[path[n + 2]] = NodeOf(d, config.follow_symlinks)
               /\ path[n + 2] \in Dirents
    <2>1. n + 2 \in 2..Len(path) /\ n + 2 \in 1..Len(path) /\ (n + 2) - 1 = n + 1
      BY <1>2, <1>4, <1>7
    <2>2. /\ HolderOf[path[n + 2]] = NodeOf(path[(n + 2) - 1], config.follow_symlinks)
          /\ EnterableAt(config, path, (n + 2) - 1)
      BY <1>3, <1>6, <2>1, ChainByEntries
    <2> QED BY <1>3, <2>1, <2>2
  <1>8. Visible(config, d)
    <2>1. CASE Len(path) = n + 1
      BY <1>6, <2>1
    <2>2. CASE Len(path) > n + 1
      BY <1>2, <1>7, <2>2 DEF EnterableAt
    <2> QED BY <1>2, <1>4, <2>1, <2>2
  <1>9. Passed(d)
    <2>1. PathLength(path) = ArgLength[path_buffer[1]] + Len(path) - 1
      BY <1>4 DEF PathLength
    <2>2. PathCapacity \in Nat
      BY SearchSpaceAssumption
    <2>3. ArgLength[path_buffer[1]] + n < PathCapacity
      BY <1>2, <1>4, <1>5, <1>6, <2>1, <2>2
    <2> QED BY <1>2, <1>8, <2>3 DEF Passed, Visible
  <1>10. ASSUME Len(path) = n + 1 PROVE path = PathOf(d) /\ Accepted(d, EntryStat(d))
    <2>1. /\ PathOf(d) \in Seq(Dirents) /\ Len(PathOf(d)) = n + 1
          /\ \A k \in 1..n : PathOf(d)[k] = path_buffer[k]
          /\ PathOf(d)[n + 1] = d
      BY <1>1, EntryPath
    <2>2. \A k \in 1..(n + 1) : k \in 1..n \/ k = n + 1
      BY <1>2
    <2>3. \A k \in 1..(n + 1) : path[k] = PathOf(d)[k]
      BY <1>4, <2>1, <2>2
    <2>4. path = PathOf(d)
      BY <1>3, <1>10, <2>1, <2>3, SeqEqual
    <2> QED BY <1>1, <1>6, <2>4, EntryVerdict
  <1>11. ASSUME Len(path) > n + 1
         PROVE  /\ Descends(d, EntryStat(d), EntryStat(d))
                /\ path[n + 2] \in EntriesOf(NodeOf(d, config.follow_symlinks))
    <2>1. /\ EnterableAt(config, path, n + 1)
          /\ HolderOf[path[n + 2]] = NodeOf(d, config.follow_symlinks)
          /\ path[n + 2] \in Dirents
      BY <1>7, <1>11
    <2>2. /\ IsDirectory(config, d) /\ Visible(config, d)
          /\ config.options.respect_ignore_defaults => NameOf[d] \notin IgnoredNames
          /\ config.options.max_depth # None => (n + 1) - 1 < config.options.max_depth
      BY <1>2, <2>1 DEF EnterableAt
    <2>3. is_directory(d, EntryStat(d), EntryStat(d))
      BY <1>1, <2>2, IsDirectoryComplete
    <2>4. config.options.max_depth # None => Top.depth + 1 <= config.options.max_depth
      <3> SUFFICES ASSUME config.options.max_depth # None
                   PROVE  Top.depth + 1 <= config.options.max_depth
        OBVIOUS
      <3>1. config.options.max_depth \in Nat
        BY <1>1, ConfigFacts
      <3> QED BY <1>2, <2>2, <3>1
    <2>5. should_descend_directory(d)
      BY <2>2, <2>4 DEF should_descend_directory, filter_ignored_directory_name, Visible
    <2> QED BY <2>1, <2>3, <2>5 DEF Descends, EntriesOf
  <1> QED BY <1>9, <1>10, <1>11

(* The same for a root. *)
LEMMA WantedRoot ==
  ASSUME IInv, RootsLeft, RootsNotMistaken(config), NEW path \in WantedOf[config],
         path[1] = Root
  PROVE  /\ Len(path) = 1 \/ Len(path) > 1
         /\ RootStat # NoMeta
         /\ Len(path) = 1 => path = <<Root>> /\ RootAccepted
         /\ Len(path) > 1 =>
              /\ RootIsWalked
              /\ path[2] \in EntriesOf(NodeOf(Root, config.follow_symlinks))
  <1>1. path \in Seq(Dirents) /\ IsWanted(config, path)
    BY WantedPaths
  <1>2. IsChain(config, path) /\ (Len(path) = 1 \/ Len(path) > 1) /\ Len(path) \in Nat
    <2>1. path # <<>> /\ IsChain(config, path)
      BY <1>1 DEF IsWanted, IsChain
    <2> QED BY <1>1, <2>1, NonEmptyLength
  <1>3. ASSUME Len(path) > 1
        PROVE  /\ EnterableAt(config, path, 1) /\ path[2] \in Dirents
               /\ HolderOf[path[2]] = NodeOf(Root, config.follow_symlinks)
    <2>1. 2 \in 2..Len(path) /\ 2 \in 1..Len(path) /\ 2 - 1 = 1
      BY <1>2, <1>3
    <2>2. /\ HolderOf[path[2]] = NodeOf(path[2 - 1], config.follow_symlinks)
          /\ EnterableAt(config, path, 2 - 1)
      BY <1>1, <1>2, <2>1, ChainByEntries
    <2> QED BY <1>1, <2>1, <2>2
  <1>4. RootStat # NoMeta
    <2>1. CASE Len(path) = 1
      BY <1>1, <2>1 DEF IsWanted, RootStat
    <2>2. CASE Len(path) > 1
      BY <1>3, <2>2 DEF EnterableAt, IsDirectory, RootStat
    <2> QED BY <1>2, <2>1, <2>2
  <1>5. ASSUME Len(path) = 1 PROVE path = <<Root>> /\ RootAccepted
    <2>1. <<Root>> \in Seq(Dirents) /\ Len(<<Root>>) = 1 /\ <<Root>>[1] = Root
      BY RootIsChain
    <2>2. path = <<Root>>
      BY <1>1, <1>5, <2>1, SeqEqual
    <2>3. Matches(config, <<Root>>)
      BY <1>1, <2>2 DEF IsWanted
    <2> QED BY <1>4, <2>2, <2>3, RootVerdictMeaning
  <1>6. ASSUME Len(path) > 1
        PROVE  RootIsWalked /\ path[2] \in EntriesOf(NodeOf(Root, config.follow_symlinks))
    <2>1. /\ IsDirectory(config, Root)
          /\ config.options.max_depth # None => 1 - 1 < config.options.max_depth
      BY <1>3, <1>6 DEF EnterableAt
    <2>2. config.options.max_depth # 0
      BY <2>1, ConfigFacts
    <2> QED BY <1>3, <1>6, <2>1, <2>2 DEF RootIsWalked, IsDirectory, RootStat, EntriesOf
  <1> QED BY <1>1, <1>2, <1>4, <1>5, <1>6

(* Every move prints what it passes, or leaves it ahead. *)
LEMMA MissedKept ==
  ASSUME SInv, Faults \cap {"write", "stat"} = {}, RootsNotMistaken(config), NothingMissed,
         [Next]_vars
  PROVE  NothingMissed'
  <1> DEFINE n == Len(stack)
  <1>0. /\ IInv /\ Descent /\ StopIsSignal /\ config' = config
        /\ errors \subseteq errors' /\ output \subseteq output' /\ (signalled => signalled')
    BY StepsOnlyAdd DEF SInv
  <1>a. /\ stack \in Seq(Frames) /\ n \in Nat /\ root_index \in Nat
        /\ Roots(config) \in Seq(Dirents) /\ (stack = <<>> <=> n = 0)
    BY <1>0, ConfigFacts DEF IInv, TypeOK
  <1> SUFFICES ASSUME errors' = {}, ~signalled', NEW path \in WantedOf[config],
                      path \notin output'
               PROVE  Ahead(path)'
    BY <1>0 DEF NothingMissed
  <1>1. errors = {} /\ ~should_stop /\ Ahead(path)
    BY <1>0 DEF NothingMissed, StopIsSignal, should_stop
  <1>2. path \in Seq(Dirents) /\ Len(path) \in Nat
    BY <1>0, WantedPaths
  <1>3. ASSUME NEW i \in DOMAIN Roots(config), path[1] = Roots(config)[i],
               i > root_index' \/ (i = root_index' /\ stack' = <<>>)
        PROVE  Ahead(path)'
    BY <1>0, <1>3 DEF Ahead
  <1>4. ASSUME NEW k \in 1..Len(stack'), Through(path, path_buffer', k),
               path[k + 1] \in stack'[k].todo
        PROVE  Ahead(path)'
    BY <1>4 DEF Ahead
  <1>5. \/ \E i \in DOMAIN Roots(config) :
             /\ path[1] = Roots(config)[i]
             /\ i > root_index \/ (i = root_index /\ stack = <<>>)
        \/ \E k \in 1..n : Through(path, path_buffer, k) /\ path[k + 1] \in stack[k].todo
    BY <1>1 DEF Ahead
  <1>6. CASE Stays
    <2>1. UNCHANGED <<stack, root_index>>
      BY <1>6 DEF Stays
    <2>2. \A k \in 1..n : Through(path, path_buffer, k) => Through(path, path_buffer', k)
      BY <1>a, <1>6 DEF Stays, Through
    <2> QED BY <1>3, <1>4, <1>5, <2>1, <2>2
  <1>7. ASSUME RootsLeft, root_index' = root_index \/ (root_index' = root_index + 1 /\ stack' = <<>>),
               path[1] = Root => Ahead(path)'
        PROVE  Ahead(path)'
    <2>1. n = 0 /\ Root = Roots(config)[root_index]
      BY <1>0, <1>7, RootFacts DEF Root
    <2>2. PICK i \in DOMAIN Roots(config) : path[1] = Roots(config)[i] /\ i >= root_index
      BY <1>5, <1>a, <2>1
    <2>3. CASE i = root_index
      BY <1>7, <2>1, <2>2, <2>3
    <2>4. CASE i > root_index
      <3>1. i \in Nat
        BY <1>a
      <3>2. i > root_index' \/ (i = root_index' /\ stack' = <<>>)
        BY <1>7, <1>a, <2>4, <3>1
      <3> QED BY <1>3, <2>2, <3>2
    <2>5. i = root_index \/ i > root_index
      BY <1>a, <2>2
    <2> QED BY <2>3, <2>4, <2>5
  <1>8. CASE PassesRoot
    <2>1. /\ RootsLeft /\ stack' = <<>> /\ root_index' = root_index + 1
          /\ Emit(<<Root>>, RootAccepted) /\ ~RootIsWalked
      BY <1>8 DEF PassesRoot
    <2>2. path[1] # Root
      <3> SUFFICES ASSUME path[1] = Root PROVE FALSE
        OBVIOUS
      <3>1. /\ Len(path) = 1 \/ Len(path) > 1
            /\ Len(path) = 1 => path = <<Root>> /\ RootAccepted
            /\ Len(path) > 1 => RootIsWalked
        BY <1>0, <2>1, WantedRoot
      <3>2. Len(path) = 1
        BY <2>1, <3>1
      <3> QED BY <2>1, <3>1, <3>2 DEF Emit
    <2> QED BY <1>7, <2>1, <2>2
  <1>9. CASE RootDescend
    <2>1. /\ RootsLeft /\ root_index' = root_index /\ Len(stack') = 1
          /\ stack'[1].todo = EntriesOf(NodeOf(Root, config.follow_symlinks))
          /\ path_buffer'[1] = Root /\ Emit(<<Root>>, RootAccepted)
      BY <1>0, <1>9, RootWalkFacts DEF RootDescend
    <2>2. ASSUME path[1] = Root PROVE Ahead(path)'
      <3>1. /\ Len(path) = 1 \/ Len(path) > 1
            /\ Len(path) = 1 => path = <<Root>> /\ RootAccepted
            /\ Len(path) > 1 => path[2] \in EntriesOf(NodeOf(Root, config.follow_symlinks))
        BY <1>0, <2>1, <2>2, WantedRoot
      <3>2. Len(path) # 1
        BY <2>1, <3>1 DEF Emit
      <3>3. Len(path) > 1
        BY <3>1, <3>2
      <3>4. Through(path, path_buffer', 1)
        BY <2>1, <2>2, <3>3 DEF Through
      <3>5. 1 \in 1..Len(stack') /\ path[1 + 1] \in stack'[1].todo
        BY <2>1, <3>1, <3>3
      <3> QED BY <1>4, <3>4, <3>5
    <2> QED BY <1>7, <2>1, <2>2
  <1>10. CASE Leaves
    <2>1. /\ stack # <<>> /\ Len(stack') = n - 1 /\ stack' \in Seq(Frames)
          /\ \A k \in 1..(n - 1) : stack'[k] = stack[k] /\ path_buffer'[k] = path_buffer[k]
          /\ root_index' = IF n > 1 THEN root_index ELSE root_index + 1
          /\ Top.todo = {}
      BY <1>1, <1>10 DEF Leaves
    <2>2. n \in Nat \ {0} /\ Top = stack[n]
      BY <1>0, <2>1, TopFacts
    <2>3. ASSUME NEW i \in DOMAIN Roots(config), path[1] = Roots(config)[i], i > root_index
          PROVE  Ahead(path)'
      <3>1. i \in Nat
        BY <1>a
      <3>2. n = 1 => stack' = <<>>
        BY <2>1
      <3>3. i > root_index' \/ (i = root_index' /\ stack' = <<>>)
        BY <1>a, <2>1, <2>2, <2>3, <3>1, <3>2
      <3> QED BY <1>3, <2>3, <3>3
    <2>4. ASSUME NEW k \in 1..n, Through(path, path_buffer, k), path[k + 1] \in stack[k].todo
          PROVE  Ahead(path)'
      <3>1. k # n
        BY <2>1, <2>2, <2>4
      <3>2. k \in 1..(n - 1) /\ \A j \in 1..k : j \in 1..(n - 1)
        BY <2>2, <3>1
      <3>3. Through(path, path_buffer', k) /\ path[k + 1] \in stack'[k].todo
        BY <2>1, <2>4, <3>2 DEF Through
      <3> QED BY <1>4, <2>1, <3>2, <3>3
    <2> QED BY <1>5, <2>1, <2>3, <2>4
  <1>11. ASSUME NEW d \in Dirents, PassesEntry(d) \/ EntersEntry(d) PROVE Ahead(path)'
    <2>1. /\ pc = "walk" /\ d \in Top.todo /\ root_index' = root_index
          /\ stack' \in Seq(Frames) /\ Len(stack') \in {n, n + 1}
          /\ \A k \in 1..(n - 1) : stack'[k] = stack[k]
          /\ stack'[n].todo = Top.todo \ {d}
      BY <1>11 DEF PassesEntry, EntersEntry, Descend
    <2>2. stack # <<>> /\ n \in Nat \ {0} /\ Top = stack[n]
      <3>1. stack # <<>>
        BY <1>0, <2>1 DEF IInv, TypeOK
      <3> QED BY <1>0, <3>1, TopFacts
    <2>3. \A k \in 1..n : path_buffer'[k] = path_buffer[k]
      <3>1. CASE PassesEntry(d)
        BY <3>1 DEF PassesEntry
      <3>2. CASE EntersEntry(d)
        BY <1>0, <3>2, DescendFacts
      <3> QED BY <1>11, <3>1, <3>2
    <2>4. ASSUME Through(path, path_buffer, n), path[n + 1] = d PROVE Ahead(path)'
      <3>1. /\ Passed(d)
            /\ Len(path) = n + 1 => path = PathOf(d) /\ Accepted(d, EntryStat(d))
            /\ Len(path) > n + 1 =>
                 /\ Descends(d, EntryStat(d), EntryStat(d))
                 /\ path[n + 2] \in EntriesOf(NodeOf(d, config.follow_symlinks))
        BY <2>1, <2>4, WantedThrough
      <3>a. StatAnswers(d) = {EntryStat(d)}
        BY DEF StatAnswers
      <3>2. /\ Emit(PathOf(d), Accepted(d, EntryStat(d)))
            /\ PassesEntry(d) => ~Descends(d, EntryStat(d), EntryStat(d))
        <4>1. CASE PassesEntry(d)
          BY <3>1, <3>a, <4>1 DEF PassesEntry
        <4>2. CASE EntersEntry(d)
          <5>1. Emit(PathOf(d), Accepted(d, EntryStat(d))) /\ Len(stack') = n + 1
            BY <3>a, <4>2 DEF EntersEntry, Descend
          <5>2. ~PassesEntry(d)
            BY <1>a, <5>1 DEF PassesEntry
          <5> QED BY <5>1, <5>2
        <4> QED BY <1>11, <4>1, <4>2
      <3>3. Len(path) # n + 1
        BY <3>1, <3>2 DEF Emit
      <3>4. Len(path) > n + 1
        BY <1>2, <2>2, <2>4, <3>3 DEF Through
      <3>5. EntersEntry(d)
        BY <1>11, <3>1, <3>2, <3>4
      <3>6. /\ Len(stack') = n + 1 /\ path_buffer'[n + 1] = d
            /\ stack'[n + 1].todo = EntriesOf(NodeOf(d, config.follow_symlinks))
        BY <1>0, <3>5, DescendFacts DEF EntersEntry
      <3>7. \A j \in 1..(n + 1) : j \in 1..n \/ j = n + 1
        BY <2>2
      <3>8. \A j \in 1..(n + 1) : path[j] = path_buffer'[j]
        BY <2>3, <2>4, <3>6, <3>7 DEF Through
      <3>9. Through(path, path_buffer', n + 1)
        BY <3>4, <3>8 DEF Through
      <3>10. n + 1 \in 1..Len(stack') /\ (n + 1) + 1 = n + 2
        BY <2>2, <3>6
      <3> QED BY <1>4, <3>1, <3>4, <3>6, <3>9, <3>10
    <2>5. ASSUME NEW k \in 1..n, Through(path, path_buffer, k), path[k + 1] \in stack[k].todo,
                 k = n => path[n + 1] # d
          PROVE  Ahead(path)'
      <3>1. \A j \in 1..k : j \in 1..n
        BY <2>2
      <3>2. Through(path, path_buffer', k)
        BY <2>3, <2>5, <3>1 DEF Through
      <3>3. k \in 1..Len(stack')
        BY <2>1, <2>2
      <3>4. path[k + 1] \in stack'[k].todo
        <4>1. CASE k = n
          BY <2>1, <2>2, <2>5, <4>1
        <4>2. CASE k \in 1..(n - 1)
          BY <2>1, <2>5, <4>2
        <4>3. k = n \/ k \in 1..(n - 1)
          BY <2>2
        <4> QED BY <4>1, <4>2, <4>3
      <3> QED BY <1>4, <3>2, <3>3, <3>4
    <2> QED BY <1>3, <1>5, <2>1, <2>2, <2>4, <2>5
  <1> QED BY <1>0, <1>6, <1>8, <1>9, <1>10, <1>11, Moves

-----------------------------------------------------------------------------
(* The promise of Search. *)

(* The walk ends in two places, and nothing happens after that. *)
LEMMA EndsOnce ==
  ASSUME IInv, [Next]_vars
  PROVE  /\ pc = "done" => UNCHANGED vars
         /\ pc' = "done" => pc = "done" \/ RootStop \/ RootsExhausted
  <1>1. CASE RootStep
    BY <1>1 DEF RootStep, RootStop, RootStatFails, RootTooLong, RootEmitFails, RootLeaf,
                RootOpenFails, RootDescend, RootsExhausted, RootStated, RootFits, RootsLeft,
                AtRoot, RootAnswers
  <1>2. CASE EntryStep
    <2>1. PICK d \in Top.todo : pc = "walk" /\ Handles(d)
      BY <1>2, EntryStepHandles
    <2> QED BY <2>1 DEF Handles, SkipEntry, EmitFails, VisitLeaf, DescendFails, Descend,
                        Continue, Return
  <1>3. CASE StopDirectory \/ EndOfDirectory \/ ReadFails
    BY <1>3 DEF StopDirectory, EndOfDirectory, ReadFails, LoopEnds, Return, Reading
  <1>4. CASE Resume
    BY <1>4 DEF Resume, Return
  <1>5. CASE Signal
    BY <1>5 DEF Signal
  <1>6. CASE Finished \/ UNCHANGED vars
    BY <1>6 DEF Finished, vars
  <1>7. CASE Look
    BY <1>7 DEF Look, RootsLeft
  <1> QED BY <1>1, <1>2, <1>3, <1>4, <1>5, <1>6, <1>7 DEF Next, WalkStep

(* When no root is left and nothing failed, what is wanted is printed. *)
LEMMA SuccessMeansAll ==
  ASSUME IInv, OutputIsWanted, NothingMissed, RootsExhausted, errors = {}, ~signalled
  PROVE  output = WantedOf[config]
  <1>1. /\ pc = "roots" /\ root_index > Len(Roots(config)) /\ stack = <<>> /\ Len(stack) = 0
        /\ root_index \in Nat /\ Roots(config) \in Seq(Dirents)
    BY ConfigFacts DEF IInv, TypeOK, RootsExhausted
  <1>2. \A i \in DOMAIN Roots(config) : ~(i > root_index) /\ i # root_index
    BY <1>1
  <1>3. \A path : ~Ahead(path)
    BY <1>1, <1>2 DEF Ahead
  <1> QED BY <1>3 DEF OutputIsWanted, NothingMissed

(* Every step of the walk is one of Search, or none. *)
LEMMA StepRefines ==
  ASSUME SInv, OutputIsWanted, OutputIsWanted', NothingMissed, [Next]_vars
  PROVE  [S!Next]_(S!vars)
  <1>0. /\ IInv /\ StopIsSignal /\ config' = config /\ WantedOf[config]' = WantedOf[config]
        /\ output \subseteq output'
    BY StepsOnlyAdd DEF SInv
  <1>1. output' \in SUBSET WantedOf[config]
    BY <1>0 DEF OutputIsWanted
  <1>2. CASE pc = "done"
    <2>1. UNCHANGED vars
      BY <1>0, <1>2, EndsOnce
    <2> QED BY <2>1 DEF vars, S!vars, Outcome, ReportsSuccess
  <1>3. CASE pc # "done" /\ pc' # "done"
    <2>1. Outcome = "searching" /\ Outcome' = "searching"
      BY <1>3 DEF Outcome
    <2>2. S!Report
      BY <1>0, <1>1, <2>1 DEF S!Report
    <2> QED BY <2>2 DEF S!Next
  <1>4. CASE pc # "done" /\ pc' = "done"
    <2>1. Outcome = "searching"
      BY <1>4 DEF Outcome
    <2>2. RootStop \/ RootsExhausted
      BY <1>0, <1>4, EndsOnce
    <2>3. UNCHANGED <<output, errors, any_ok, signalled>>
      BY <2>2 DEF RootStop, RootsExhausted
    <2>4. CASE Outcome' = "incomplete"
      <3>1. S!Incomplete
        BY <1>0, <2>1, <2>3, <2>4 DEF S!Incomplete
      <3> QED BY <3>1 DEF S!Next
    <2>5. CASE Outcome' # "incomplete"
      <3>1. Outcome' = "complete" /\ errors = {} /\ ~signalled
        BY <1>4, <2>3, <2>5 DEF Outcome, ReportsSuccess
      <3>2. ~RootStop
        BY <1>0, <3>1 DEF RootStop, StopBeforeRoot, should_stop, StopIsSignal
      <3>3. output = WantedOf[config]
        BY <1>0, <2>2, <3>1, <3>2, SuccessMeansAll
      <3>4. S!Complete
        BY <1>0, <2>1, <2>3, <3>1, <3>3 DEF S!Complete
      <3> QED BY <3>4 DEF S!Next
    <2> QED BY <2>4, <2>5
  <1> QED BY <1>2, <1>3, <1>4

(* The sequential walk implements Search, however large the tree, whatever *)
(* is asked for and whichever directory cannot be opened or read: it takes *)
(* nothing back, and when it reports success nothing is missing.  Left out *)
(* are the failures the walk does not report, of a write and of the stat   *)
(* of an entry, and roots of which the promise cannot be kept.             *)
THEOREM ImplementsSearch ==
  Faults \cap {"write", "stat"} = {} => (Spec /\ OrdinaryRoots(config) => RefinesSearch)
  <1> SUFFICES ASSUME Faults \cap {"write", "stat"} = {}
               PROVE  Spec /\ OrdinaryRoots(config) => RefinesSearch
    OBVIOUS
  <1> DEFINE Inv == SInv /\ OutputIsWanted /\ NothingMissed /\ OrdinaryRoots(config)
  <1>1. Init => SInv /\ OutputIsWanted /\ NothingMissed
    <2> SUFFICES ASSUME Init PROVE SInv /\ OutputIsWanted /\ NothingMissed
      OBVIOUS
    <2>1. /\ output = {} /\ stack = <<>> /\ Len(stack) = 0 /\ root_index = 1
          /\ root_device = None /\ stop_requested = FALSE
      BY DEF Init
    <2>2. IInv
      BY InitGivesInv
    <2>3. SInv
      BY <2>1, <2>2 DEF SInv, Descent, DeviceOfRoots, StopIsSignal
    <2>4. OutputIsWanted
      BY <2>1 DEF OutputIsWanted
    <2>5. \A path \in WantedOf[config] : Ahead(path)
      <3> SUFFICES ASSUME NEW path \in WantedOf[config] PROVE Ahead(path)
        OBVIOUS
      <3>1. PICK i \in DOMAIN Roots(config) : path[1] = Roots(config)[i]
        BY <2>2, WantedPaths DEF IsWanted, IsChain
      <3>2. i > root_index \/ i = root_index
        BY <2>1, <2>2, ConfigFacts
      <3> QED BY <2>1, <3>1, <3>2 DEF Ahead
    <2> QED BY <2>3, <2>4, <2>5 DEF NothingMissed
  <1>2. Inv /\ [Next]_vars => Inv'
    <2> SUFFICES ASSUME Inv, [Next]_vars PROVE Inv'
      OBVIOUS
    <2>1. SInv'
      BY StepKeepsInv, DescentKept, DeviceKept, StopKept DEF SInv
    <2>0. config' = config
      BY StepsOnlyAdd
    <2>2. OrdinaryRoots(config)'
      BY <2>0, Zenon DEF OrdinaryRoots, RootsShareDevice, RootsNotMistaken
    <2>3. OutputIsWanted'
      BY WantedKept
    <2>4. NothingMissed'
      BY MissedKept DEF OrdinaryRoots
    <2> QED BY <2>1, <2>2, <2>3, <2>4
  <1>3. Inv /\ Inv' /\ [Next]_vars => [S!Next]_(S!vars)
    BY StepRefines
  <1>4. Init => S!Init
    BY DEF Init, S!Init, Outcome
  <1> HIDE DEF Inv
  <1>5. Inv <=> SInv /\ OutputIsWanted /\ NothingMissed /\ OrdinaryRoots(config)
    BY DEF Inv
  <1> QED BY <1>1, <1>2, <1>3, <1>4, <1>5, PTL DEF Spec, RefinesSearch, S!Safety
=============================================================================
