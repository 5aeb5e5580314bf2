----------------------------- MODULE VfsRegistry -----------------------------
(***************************************************************************)
(* Who keeps a VFS object alive (vfs/vfs.hpp,                              *)
(* vfs/sqlite3_vfs_wrapper.hpp). SQLite's global list, the connections     *)
(* opened through a VFS and the wrappers stacked on it all hold raw        *)
(* sqlite3_vfs pointers; only shared_ptrs own the object: those of the     *)
(* application and `_registered', by which a registered object owns        *)
(* itself.                                                                 *)
(***************************************************************************)
EXTENDS SequencesExt

CONSTANTS
  Vfs,         \* SQLite3_vfs_wrapper objects, each created at most once
  Os,          \* the platform's VFS, registered by sqlite3_os_init
  Connection,  \* database connections
  Null         \* no VFS

ASSUME VfsAssumption == Os \notin Vfs /\ Null \notin Vfs \cup {Os}

VARIABLES
  vfsList,     \* SQLite's list; the first VFS is the default
  registered,  \* objects whose _registered is set
  held,        \* objects the application has a shared_ptr to
  parent,      \* SQLite3_vfs_wrapper::_parent; Null before construction
  using        \* the VFS each connection opens its files with

vars == <<vfsList, registered, held, parent, using>>

TypeOK ==
  /\ vfsList \in Seq(Vfs \cup {Os})
  /\ registered \subseteq Vfs
  /\ held \subseteq Vfs
  /\ parent \in [Vfs -> Vfs \cup {Os, Null}]
  /\ using \in [Connection -> Vfs \cup {Os, Null}]

Init ==
  /\ vfsList = <<Os>>
  /\ registered = {}
  /\ held = {}
  /\ parent = [v \in Vfs |-> Null]
  /\ using = [c \in Connection |-> Null]

-----------------------------------------------------------------------------
Listed == Range(vfsList)

\* Mutant: the head of the list goes, whatever was to be unlinked.
vfsUnlink_Head(v) == Tail(vfsList)

\* SQLite's list operations: the first link to v goes, unlinking what is not listed
\* changes nothing, and what is no default becomes second.
vfsUnlink(v) ==
  IF v \in Listed
  THEN RemoveAt(vfsList, CHOOSE i \in DOMAIN vfsList :
                           vfsList[i] = v /\ \A j \in 1..i - 1 : vfsList[j] # v)
  ELSE vfsList
sqlite3_vfs_register(v, makeDflt) ==
  LET rest == vfsUnlink(v) IN
  vfsList' = IF makeDflt \/ rest = <<>> THEN <<v>> \o rest
             ELSE <<Head(rest), v>> \o Tail(rest)

\* Mutant: the result of find_vfs may be nullptr.
Construct_Unfound(v) ==
  /\ parent[v] = Null
  /\ \E p \in Listed \cup {Null} : parent' = [parent EXCEPT ![v] = p]
  /\ held' = held \cup {v}
  /\ UNCHANGED <<vfsList, registered, using>>

\* The application wraps a VFS it found by name or as the default.
Construct(v) ==
  /\ parent[v] = Null
  /\ \E p \in Listed : parent' = [parent EXCEPT ![v] = p]
  /\ held' = held \cup {v}
  /\ UNCHANGED <<vfsList, registered, using>>

\* register_vfs refuses an object that is_registered.
RegisterVfs(v, makeDflt) ==
  /\ v \in held \ registered
  /\ sqlite3_vfs_register(v, makeDflt)
  /\ registered' = registered \cup {v}
  /\ UNCHANGED <<held, parent, using>>

\* The loadable extension and the shell wrap the default VFS, register the
\* wrapper as another one and keep no shared_ptr of their own.
RegisterCryptVfs(v) ==
  /\ parent[v] = Null /\ vfsList # <<>>
  /\ parent' = [parent EXCEPT ![v] = Head(vfsList)]
  /\ sqlite3_vfs_register(v, FALSE)
  /\ registered' = registered \cup {v}
  /\ UNCHANGED <<held, using>>

\* Mutant: unregistering gives up the object's ownership of itself.
UnregisterVfs_Releases(v) ==
  /\ v \in held
  /\ vfsList' = vfsUnlink(v)
  /\ registered' = registered \ {v}
  /\ UNCHANGED <<held, parent, using>>

\* unregister_vfs takes the object off SQLite's list and leaves _registered set.
UnregisterVfs(v) ==
  /\ v \in held
  /\ vfsList' = vfsUnlink(v)
  /\ UNCHANGED <<registered, held, parent, using>>

\* The application's last shared_ptr goes.
DropVfs(v) ==
  /\ v \in held
  /\ held' = held \ {v}
  /\ UNCHANGED <<vfsList, registered, parent, using>>

\* Database::open finds a VFS by name or takes the default; the connection then
\* opens and deletes journals through it until it is closed.
OpenConnection(c) ==
  /\ using[c] = Null
  /\ \E v \in Listed : using' = [using EXCEPT ![c] = v]
  /\ UNCHANGED <<vfsList, registered, held, parent>>

CloseConnection(c) ==
  /\ using[c] # Null
  /\ using' = [using EXCEPT ![c] = Null]
  /\ UNCHANGED <<vfsList, registered, held, parent>>

\* What applications and extensions do with VFS objects.
RegistryStep ==
  \/ \E v \in Vfs : Construct(v) \/ RegisterCryptVfs(v) \/ UnregisterVfs(v) \/ DropVfs(v)
  \/ \E v \in Vfs, makeDflt \in BOOLEAN : RegisterVfs(v, makeDflt)

Next == RegistryStep \/ \E c \in Connection : OpenConnection(c) \/ CloseConnection(c)

Spec == Init /\ [][Next]_vars

-----------------------------------------------------------------------------
Alive == {Os} \cup {v \in held \cup registered : parent[v] # Null}

\* No raw sqlite3_vfs pointer dangles: what SQLite lists, what an open connection
\* goes on using and what a live wrapper forwards to exists, in whatever order
\* VFSs are stacked, registered, unregistered and dropped.
NoDanglingVfs ==
  /\ Listed \subseteq Alive
  /\ \A c \in Connection : using[c] # Null => using[c] \in Alive
  /\ \A v \in Alive \ {Os} : parent[v] \in Alive

\* sqlite3_vfs_find(nullptr), which the extension and the shell wrap unchecked,
\* always finds a VFS, and no VFS is linked into the list twice.
DefaultExists ==
  /\ Os \in Listed
  /\ IsInjective(vfsList)
=============================================================================
