------------------------------- MODULE VfsFiles -------------------------------
(***************************************************************************)
(* The main database files that connections open through the VFS objects   *)
(* of VfsRegistry.  xOpen of a SQLite3_vfs_wrapper first opens a file with *)
(* its parent VFS and then puts a Crypt_file on top of it, so that a file  *)
(* is a stack of File objects, one for each wrapper, on a file of the      *)
(* platform. Other threads register, unregister and drop VFS objects       *)
(* meanwhile.                                                              *)
(***************************************************************************)
EXTENDS VfsRegistry

VARIABLES
  frames,  \* the nested xOpen calls of each connection's open, outermost first
  found,   \* the innermost call has returned with a file
  file,    \* the Crypt_files of each connection, outermost first
  uri      \* whether the URI names key and cipher

fileVars == <<frames, found, file, uri>>

FilesTypeOK ==
  /\ TypeOK
  /\ frames \in [Connection -> Seq(Vfs \cup {Os})]
  /\ found \in [Connection -> BOOLEAN]
  /\ file \in [Connection -> Seq([cipher : BOOLEAN])]
  /\ uri \in [Connection -> BOOLEAN]

FilesInit ==
  /\ Init
  /\ frames = [c \in Connection |-> <<>>]
  /\ found = [c \in Connection |-> FALSE]
  /\ file = [c \in Connection |-> <<>>]
  /\ uri = [c \in Connection |-> FALSE]

-----------------------------------------------------------------------------
Opening(c) == frames[c] # <<>>
Opened(c) == using[c] # Null /\ ~Opening(c)

\* Database::open calls xOpen of the VFS it has found.
BeginOpen(c) ==
  /\ OpenConnection(c)
  /\ frames' = [frames EXCEPT ![c] = <<using'[c]>>]
  /\ uri' \in [Connection -> BOOLEAN] /\ \A d \in Connection \ {c} : uri'[d] = uri[d]
  /\ UNCHANGED <<found, file>>

\* SQLite3_vfs_wrapper::open calls xOpen of its parent.
OpenParent(c) ==
  /\ Opening(c) /\ ~found[c] /\ Last(frames[c]) # Os
  /\ frames' = [frames EXCEPT ![c] = Append(@, parent[Last(@)])]
  /\ UNCHANGED <<vars, found, file, uri>>

\* The platform opens the file ...
OsOpens(c) ==
  /\ Opening(c) /\ ~found[c] /\ Last(frames[c]) = Os
  /\ frames' = [frames EXCEPT ![c] = Front(@)]
  /\ found' = [found EXCEPT ![c] = frames'[c] # <<>>]
  /\ UNCHANGED <<vars, file, uri>>

\* Every open() on the way out throws, and the connection is given up.
OpenFails(c) ==
  /\ frames' = [frames EXCEPT ![c] = <<>>]
  /\ found' = [found EXCEPT ![c] = FALSE]
  /\ file' = [file EXCEPT ![c] = <<>>]
  /\ CloseConnection(c)
  /\ UNCHANGED uri

\* Mutant: a refused open is tried again.
OsRefuses_Retries(c) ==
  /\ Opening(c) /\ ~found[c] /\ Last(frames[c]) = Os
  /\ frames' = [frames EXCEPT ![c] = <<using[c]>>]
  /\ UNCHANGED <<vars, found, file, uri>>

\* ... or cannot.
OsRefuses(c) ==
  /\ Opening(c) /\ ~found[c] /\ Last(frames[c]) = Os
  /\ OpenFails(c)

\* The constructor of Crypt_file takes key and cipher from the URI, in every layer.
WrapFile(c) ==
  /\ Opening(c) /\ found[c]
  /\ file' = [file EXCEPT ![c] = <<[cipher |-> uri[c]]>> \o @]
  /\ frames' = [frames EXCEPT ![c] = Front(@)]
  /\ found' = [found EXCEPT ![c] = frames'[c] # <<>>]
  /\ UNCHANGED <<vars, uri>>

\* `new DerivedFile' throws: the file of the parent is freed without its xClose,
\* and the layers below keep their objects for ever.
WrapThrows(c) ==
  /\ Opening(c) /\ found[c]
  /\ OpenFails(c)

\* Mutant: a PRAGMA goes on to the layers below.
PragmaCipher_AllLayers(c, on) ==
  /\ Opened(c) /\ file[c] # <<>>
  /\ file' = [file EXCEPT ![c] = [i \in DOMAIN @ |-> [cipher |-> on]]]
  /\ UNCHANGED <<vars, frames, found, uri>>

\* PRAGMA key and cipher end in the file_control of the outermost layer.
PragmaCipher(c, on) ==
  /\ Opened(c) /\ file[c] # <<>>
  /\ file' = [file EXCEPT ![c][1].cipher = on]
  /\ UNCHANGED <<vars, frames, found, uri>>

\* xClose: from the outermost layer in, each closes its parent and deletes itself,
\* whether that failed or not.
CloseFile(c) ==
  /\ Opened(c)
  /\ file' = [file EXCEPT ![c] = <<>>]
  /\ CloseConnection(c)
  /\ UNCHANGED <<frames, found, uri>>

FilesNext ==
  \/ RegistryStep /\ UNCHANGED fileVars
  \/ \E c \in Connection :
       \/ BeginOpen(c) \/ OpenParent(c) \/ OsOpens(c) \/ OsRefuses(c)
       \/ WrapFile(c) \/ WrapThrows(c)
       \/ \E on \in BOOLEAN : PragmaCipher(c, on)
       \/ CloseFile(c)

FilesSpec == FilesInit /\ [][FilesNext]_<<vars, fileVars>>

\* A call of xOpen proceeds, whatever other threads do with VFS objects.
FairFilesSpec ==
  /\ FilesSpec
  /\ \A c \in Connection :
       WF_<<vars, fileVars>>(OpenParent(c) \/ OsOpens(c) \/ OsRefuses(c)
                             \/ WrapFile(c) \/ WrapThrows(c))

-----------------------------------------------------------------------------
\* The layers that encode pages.  Each of them stores IV and tag in the last 32
\* bytes, so that the innermost one's remain; on the way back every layer expects
\* its own there.
Encoding(layers) == {i \in DOMAIN layers : layers[i].cipher}
ReadsBack(layers) == \A i, j \in Encoding(layers) : i = j

\* What a connection writes through a stack of crypt VFSs it reads back, as long
\* as key and cipher are given by PRAGMA: however wrappers were stacked by
\* applications and extensions, at most one layer encodes.  (Given in the URI they
\* reach every layer, which is only sound for a single one.)
PagesReadBack ==
  \A c \in Connection :
    Opened(c) /\ (uri[c] => Len(file[c]) <= 1) => ReadsBack(file[c])

\* Every database that is being opened is opened or given up: no stack of VFSs
\* leads back to itself.
OpenEnds == \A c \in Connection : Opening(c) ~> ~Opening(c)
=============================================================================
