------------------------------ MODULE FileTree ------------------------------
(***************************************************************************)
(* The file system as bc-seek sees it through fstatat, openat and          *)
(* getdents.  Nothing of it is under src/: it is modelled from the calls   *)
(* the walkers make.  A directory is an inode; a directory entry (dirent)  *)
(* sits in a holding directory, has a name, and names an inode with and    *)
(* without following a symbolic link.  The tree does not change while a    *)
(* search runs; a directory that cannot be opened or read is a fault of    *)
(* the walk that meets it.                                                 *)
(***************************************************************************)
EXTENDS Naturals, Sequences, FiniteSets

CONSTANTS
  Inodes,        \* inodes
  Dirents,       \* directory entries, the arguments of the search included
  Names,         \* the names entries have
  Devices,       \* values of st_dev
  HolderOf,      \* HolderOf[d]: the directory that holds d, NoInode if d
                 \* is only an argument and the walk never meets it
  NameOf,        \* NameOf[d]: the name of d
  LinkOf,        \* LinkOf[d]: the inode d names (AT_SYMLINK_NOFOLLOW),
                 \* NoInode for an argument that names nothing
  TargetOf,      \* TargetOf[d]: the inode d resolves to, NoInode if dangling
  Meta,          \* Meta[i]: what fstat says of inode i
  UnknownDType,  \* entries for which getdents says DT_UNKNOWN
  Cwd,           \* the directory AT_FDCWD stands for
  NoInode,       \* "there is no such inode"
  NoMeta         \* "the stat call failed"

(* bc_seek_entry_type_t; "any" is also the type of a fifo, socket or device. *)
EntryTypes == {"any", "file", "directory", "symlink"}

(* The part of struct stat the program reads. *)
MetaRecords ==
  [type : EntryTypes, size : Nat, mtime : Nat, perm : Nat, dev : Devices]

ASSUME FileTreeAssumption ==
  /\ HolderOf \in [Dirents -> Inodes \cup {NoInode}]
  /\ NameOf \in [Dirents -> Names]
  /\ LinkOf \in [Dirents -> Inodes \cup {NoInode}]
  /\ TargetOf \in [Dirents -> Inodes \cup {NoInode}]
  /\ DOMAIN Meta = Inodes
  /\ \A i \in Inodes : Meta[i] \in MetaRecords
  /\ UnknownDType \subseteq Dirents
  /\ Cwd \in Inodes
  /\ NoInode \notin Inodes
  /\ NoMeta \notin MetaRecords
  \* a directory holds at most one entry of a name, and that entry exists
  /\ \A d, e \in Dirents :
       HolderOf[d] # NoInode /\ HolderOf[d] = HolderOf[e] /\ NameOf[d] = NameOf[e]
         => d = e
  /\ \A d \in Dirents : HolderOf[d] # NoInode => LinkOf[d] # NoInode
  \* only a symbolic link resolves to something else than what it names
  /\ \A d \in Dirents :
       IF LinkOf[d] # NoInode /\ Meta[LinkOf[d]].type = "symlink"
       THEN TargetOf[d] # NoInode => Meta[TargetOf[d]].type # "symlink"
       ELSE TargetOf[d] = LinkOf[d]

(* The entries getdents returns for an open directory. *)
EntriesOf(i) == {d \in Dirents : HolderOf[d] = i}

(* The inode behind d, with or without O_NOFOLLOW / AT_SYMLINK_NOFOLLOW. *)
NodeOf(d, follow) == IF follow THEN TargetOf[d] ELSE LinkOf[d]

(* What a stat of the very entry d answers. *)
StatOf(d, follow) ==
  IF NodeOf(d, follow) = NoInode THEN NoMeta ELSE Meta[NodeOf(d, follow)]

(* fstatat(dir, name, ...): the answer for whatever has that name in dir.  *)
fstatat(dir, name, follow) ==
  LET hits == {d \in EntriesOf(dir) : NameOf[d] = name}
  IN IF hits = {} THEN NoMeta ELSE StatOf(CHOOSE d \in hits : TRUE, follow)

(* d_type: reliable for files, directories and links, silent otherwise.    *)
DType(d) == IF d \in UnknownDType THEN "any" ELSE Meta[LinkOf[d]].type
=============================================================================
