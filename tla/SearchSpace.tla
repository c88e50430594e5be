---------------------------- MODULE SearchSpace ----------------------------
(***************************************************************************)
(* What both walkers are given, and what a search over a tree is expected  *)
(* to find: the declarative reference for bc_seek_discovery_walk_*.c.      *)
(* A path is the sequence of directory entries it goes through, the root   *)
(* argument first; its depth is its length less one.                       *)
(***************************************************************************)
EXTENDS SeekFilter

CONSTANTS
  Configs,       \* [options, roots, follow_symlinks, one_file_system]
  DefaultRoot,   \* the entry "." stands for
  Now,           \* time(NULL) when the predicate is built
  ArgNames,      \* ArgNames[d]: the components of the argument that names
                 \* d, a slash at its end left aside
  PathCapacity   \* BC_SEEK_DISCOVERY_PATH_CAPACITY, in components

ASSUME SearchSpaceAssumption ==
  /\ \A cfg \in Configs :
       /\ BoundOptions(cfg.options)
       /\ cfg.roots \in Seq(Dirents)
       /\ cfg.follow_symlinks \in BOOLEAN
       /\ cfg.one_file_system \in BOOLEAN
  /\ None \notin Devices
  /\ DefaultRoot \in Dirents
  /\ ArgNames \in [Dirents -> Seq(Names) \ {<<>>}]
  /\ PathCapacity \in Nat \ {0}

(* With no argument the search starts at ".". *)
Roots(cfg) == IF cfg.roots = <<>> THEN <<DefaultRoot>> ELSE cfg.roots

(* No argument lies under another or is given twice: any two of them part  *)
(* at some component.                                                      *)
RootsApart(cfg) ==
  \A i, j \in DOMAIN cfg.roots :
    LET a == ArgNames[cfg.roots[i]]
        b == ArgNames[cfg.roots[j]]
    IN i # j => \E k \in DOMAIN a \cap DOMAIN b : a[k] # b[k]

(* All roots that exist are on one device, so that it does not matter that *)
(* --one-file-system holds the device of the first one against all.        *)
RootsShareDevice(cfg) ==
  cfg.one_file_system =>
    \A i, j \in DOMAIN Roots(cfg) :
      LET a == StatOf(Roots(cfg)[i], cfg.follow_symlinks)
          b == StatOf(Roots(cfg)[j], cfg.follow_symlinks)
      IN a # NoMeta /\ b # NoMeta => a.dev = b.dev

(* A root that is a fifo, socket or device is not taken for something      *)
(* else, when a type is asked for, because of what has its basename in the *)
(* working directory (see RootVerdict).                                    *)
RootsNotMistaken(cfg) ==
  cfg.options.type_filter # None =>
    \A i \in DOMAIN Roots(cfg) :
      LET st == StatOf(Roots(cfg)[i], cfg.follow_symlinks)
          again == fstatat(Cwd, NameOf[Roots(cfg)[i]], FALSE)
      IN st # NoMeta /\ st.type = "any" => again = NoMeta \/ again.type = "any"

(* The searches of which the promise can be kept. *)
OrdinaryRoots(cfg) == RootsShareDevice(cfg) /\ RootsNotMistaken(cfg)

predicate(cfg) == predicate_from_options(cfg.options, Now)

(* The candidate a walker builds for a root from the stat of its argument. *)
root_candidate(r, st) ==
  [path |-> <<r>>, basename |-> NameOf[r], depth |-> 0,
   entry_type |-> st.type, type_resolved |-> st.type # "any",
   size_bytes |-> st.size, modification_time |-> st.mtime,
   permission_mask |-> st.perm, stat_populated |-> TRUE,
   follow_symlinks_enabled |-> FALSE]

(* The evaluation of a root.  A second stat, for a root that is neither    *)
(* file, directory nor link, looks its basename up in the working          *)
(* directory (parent_directory_fd is AT_FDCWD).                            *)
RootVerdict(cfg, r, st) ==
  filter_evaluate(predicate(cfg), root_candidate(r, st),
                  fstatat(Cwd, NameOf[r], FALSE)).decision

(* The line a path is printed as: the argument as it was given, then the   *)
(* names on the way down.  r/s below the argument r and the argument r/s   *)
(* are two paths and one line.                                             *)
PrintedAs(path) ==
  ArgNames[path[1]] \o [k \in 1..(Len(path) - 1) |-> NameOf[path[k + 1]]]

(* The length of the C string of an argument, and of a path. *)
ArgLength == [d \in Dirents |-> Len(ArgNames[d])]
PathLength(path) == ArgLength[path[1]] + Len(path) - 1

is_hidden_name(name) == name \in HiddenNames

-----------------------------------------------------------------------------
(* A directory the search is to look into. *)
IsDirectory(cfg, d) ==
  LET st == StatOf(d, cfg.follow_symlinks)
  IN st # NoMeta /\ st.type = "directory"

Visible(cfg, d) == cfg.options.include_hidden \/ ~is_hidden_name(NameOf[d])

Enterable(cfg, path) ==
  LET d == path[Len(path)]
  IN /\ IsDirectory(cfg, d)
     /\ cfg.options.max_depth # None => Len(path) - 1 < cfg.options.max_depth
     /\ Len(path) > 1 =>
          /\ Visible(cfg, d)
          /\ cfg.options.respect_ignore_defaults => NameOf[d] \notin IgnoredNames

(* Each entry of the path lies in the directory the one before it names,   *)
(* and the search was to look into that directory.                         *)
IsChain(cfg, path) ==
  /\ path # <<>>
  /\ \E i \in DOMAIN Roots(cfg) : path[1] = Roots(cfg)[i]
  /\ \A k \in 2..Len(path) :
       /\ HolderOf[path[k]] = NodeOf(path[k - 1], cfg.follow_symlinks)
       /\ Enterable(cfg, SubSeq(path, 1, k - 1))

(* No directory on the way is on another file system than the root. *)
OnOneDevice(cfg, path) ==
  \A k \in 1..(Len(path) - 1) :
    StatOf(path[k], cfg.follow_symlinks).dev = StatOf(path[1], cfg.follow_symlinks).dev

(* The type an entry is matched by: its d_type, stat if that is silent. *)
TypeOfPath(cfg, path) ==
  LET d == path[Len(path)]
      st == StatOf(d, cfg.follow_symlinks)
  IN IF Len(path) > 1 /\ DType(d) # "any" THEN DType(d)
     ELSE IF st = NoMeta THEN "any" ELSE st.type

Matches(cfg, path) ==
  LET d == path[Len(path)]
  IN Selected(cfg.options, Now,
       [path |-> path, basename |-> NameOf[d], depth |-> Len(path) - 1,
        type |-> TypeOfPath(cfg, path)],
       StatOf(d, cfg.follow_symlinks))

(* The paths of the search: what it is to print. *)
IsWanted(cfg, path) ==
  /\ IsChain(cfg, path)
  /\ PathLength(path) < PathCapacity
  /\ Len(path) = 1 => StatOf(path[1], cfg.follow_symlinks) # NoMeta
  /\ Len(path) > 1 => Visible(cfg, path[Len(path)])
  /\ cfg.one_file_system => OnOneDevice(cfg, path)
  /\ Matches(cfg, path)

(* All sequences of entries that a path within the capacity can be. *)
BoundedPaths == UNION {[1..n -> Dirents] : n \in 1..(PathCapacity - 1)}

WantedOf == [cfg \in Configs |-> {path \in BoundedPaths : IsWanted(cfg, path)}]
=============================================================================
