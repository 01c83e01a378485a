----------------------------- MODULE Transfers ------------------------------
(***************************************************************************)
(* Content on its way to another node: the shared drive, the selection     *)
(* that a send stages and streams, and the offer of a handoff. Each part   *)
(* is a specification of its own, with its own initial state and next-     *)
(* state relation; a behaviour is a behaviour of one of them.              *)
(***************************************************************************)
EXTENDS FiniteSets, Integers, SequencesExt

-----------------------------------------------------------------------------
(***************************************************************************)
(* `air drive` (cmd/meshmcp/airdrive.go, airdrive_client.go, air/drive.go):*)
(* a folder served to named mesh identities, one request per connection.   *)
(* A put arrives as one record whose trailer carries the hash; it is       *)
(* received into a temporary file outside the folder and moved into place  *)
(* under a mutex of its path.  A get hashes the open file, announces size  *)
(* and hash, and then streams it.                                          *)
(*                                                                         *)
(* The folder is an ordinary one: its owner may edit a file in place while *)
(* the daemon has it open.  Names lead to inodes, an open file keeps its   *)
(* inode, a rename gives the name a new one.  Connections may be cut,      *)
(* writes to the disk may fail, and the daemon may die.                    *)
(***************************************************************************)
CONSTANTS
  Request,      \* connection -> [op, path, who, body, limit]
  Readers, Writers,
  Clean,        \* the paths CleanRelPath and sanitizeDest accept
  ExtOK,        \* the paths whose extension is on the list
  Size,         \* content -> its size
  MaxBytes, MaxDrain,
  Initial,      \* the tree at the start: path -> content or "dir"
  MaxEdits, MaxCuts, MaxFails, MaxCrashes, Free

VARIABLES
  tree,      \* path -> inode number, or 0 for a directory
  inode,     \* inode number -> content
  locks,     \* path -> the connection that holds its mutex
  conn,      \* connection -> [pc, ino, size, sha, err]
  client,    \* connection -> what its command reports: "wait", "ok", an error code, "reset", "cut"
  got,       \* connection -> the content a get saved
  unread,    \* connection -> the server closes with bytes of the record unread
  everAt,    \* history: path -> every content the path has had
  ledger, edits, cuts, fails, crashes

driveVars == <<tree, inode, locks, conn, client, got, unread, everAt, ledger, edits, cuts, fails, crashes>>

Conns == DOMAIN Request
Path(c) == Request[c].path
Body(c) == Request[c].body
Fresh == [pc |-> "idle", ino |-> 0, size |-> 0, sha |-> "none", err |-> "none"]
Parents(p) == {SubSeq(p, 1, n) : n \in 1 .. Len(p) - 1}
IsDir(p) == p \in DOMAIN tree /\ tree[p] = 0
IsFile(p) == p \in DOMAIN tree /\ tree[p] # 0

(***************************************************************************)
(* The two lists: an empty one admits nobody, a writer may also read.      *)
(***************************************************************************)
canRead(u) == u \in Readers \cup Writers

canWrite(u) == u \in Writers

Goes(c, pc) == conn' = [conn EXCEPT ![c].pc = pc]

DriveEnds(c, code) == conn' = [conn EXCEPT ![c].pc = "answer", ![c].err = code]

(* cmdAirDriveGet, cmdAirDrivePut, cmdAirDriveRm: one connection each, and *)
(* what the command says of it in the end.                                 *)
Reports(c, result) == client' = [client EXCEPT ![c] = result]

(* Which paths are clean is the text of CleanRelPath; the model is told.   *)
CleanRelPath(p) == p \in Clean

Record(c, decision) == ledger' = ledger \cup {<<c, decision>>}

(***************************************************************************)
(* Accept: a peer on neither list is closed at once, without an answer and *)
(* without a record.  serveConn then reads the request line.               *)
(***************************************************************************)
DriveAccept(c) ==
  /\ conn[c].pc = "idle"
  /\ IF canRead(Request[c].who)
     THEN Goes(c, "check") /\ UNCHANGED client
     ELSE Goes(c, "closed") /\ Reports(c, "cut")
  /\ UNCHANGED <<tree, inode, locks, got, unread, everAt, ledger, edits, cuts, fails, crashes>>

(***************************************************************************)
(* doPut's refusals: path, write list, extension, declared size.  The      *)
(* record is read to its end before the answer, up to a bound; what stays  *)
(* unread turns the close into a reset that may overtake the answer.       *)
(* (Mutated form: the body is drained but not the trailer line.)           *)
(***************************************************************************)
LeavesBody(c) == TRUE

Leaves(c) == Size[Body(c)] > MaxDrain

PutRefusal(c) ==
  IF ~CleanRelPath(Path(c)) THEN "badpath"
  ELSE IF ~canWrite(Request[c].who) THEN "denied"
  ELSE IF Path(c) \notin ExtOK THEN "badtype"
  ELSE IF MaxBytes > 0 /\ Size[Body(c)] > MaxBytes THEN "toobig"
  ELSE "none"

RefusePut(c) ==
  /\ conn[c].pc = "check" /\ Request[c].op = "put" /\ PutRefusal(c) # "none"
  /\ DriveEnds(c, PutRefusal(c)) /\ Record(c, "deny")
  /\ unread' = [unread EXCEPT ![c] = Leaves(c)]
  /\ UNCHANGED <<tree, inode, locks, client, got, everAt, edits, cuts, fails, crashes>>

(***************************************************************************)
(* recvDriveRecord: the whole record, of which the hash agrees, or an      *)
(* error.  A connection that is cut leaves less than was declared.         *)
(***************************************************************************)
Receive(c) ==
  /\ conn[c].pc = "check" /\ Request[c].op = "put" /\ PutRefusal(c) = "none"
  /\ conn' = [conn EXCEPT ![c].pc = "lock", ![c].sha = Body(c), ![c].size = Size[Body(c)]]
  /\ UNCHANGED <<tree, inode, locks, client, got, unread, everAt, ledger, edits, cuts, fails, crashes>>

ReceiveFails(c) ==
  /\ conn[c].pc = "check" /\ Request[c].op = "put" /\ PutRefusal(c) = "none"
  /\ cuts < MaxCuts /\ cuts' = cuts + 1
  /\ DriveEnds(c, "internal") /\ Record(c, "deny")
  /\ Reports(c, "cut")
  /\ UNCHANGED <<tree, inode, locks, got, unread, everAt, edits, fails, crashes>>

(***************************************************************************)
(* The commit, under the path's mutex: the target must not be a directory, *)
(* its parents are made, the temporary file is renamed over it.  From      *)
(* another file system copyFile makes a second temporary beside the target *)
(* and renames that one.                                                   *)
(***************************************************************************)
Lock(c) ==
  /\ conn[c].pc = "lock" /\ locks[Path(c)] = Free
  /\ locks' = [locks EXCEPT ![Path(c)] = c]
  /\ Goes(c, "commit")
  /\ UNCHANGED <<tree, inode, client, got, unread, everAt, ledger, edits, cuts, fails, crashes>>

Makeable(p) == \A q \in Parents(p) : ~IsFile(q)

CheckTarget(c) ==
  /\ conn[c].pc = "commit" /\ Request[c].op = "put"
  /\ IF IsDir(Path(c)) THEN DriveEnds(c, "badpath") /\ Record(c, "deny") /\ UNCHANGED tree
     ELSE IF ~Makeable(Path(c)) THEN DriveEnds(c, "internal") /\ Record(c, "deny") /\ UNCHANGED tree
     ELSE /\ tree' = [q \in DOMAIN tree \cup Parents(Path(c)) |-> IF q \in DOMAIN tree THEN tree[q] ELSE 0]
          /\ Goes(c, "install") /\ UNCHANGED ledger
  /\ UNCHANGED <<inode, locks, client, got, unread, everAt, edits, cuts, fails, crashes>>

(* (Mutated form: the file is written through the name it has.) *)
PlaceInPlace(c) ==
  IF IsFile(Path(c)) THEN inode' = [inode EXCEPT ![tree[Path(c)]] = conn[c].sha] /\ UNCHANGED tree
  ELSE /\ inode' = Append(inode, conn[c].sha)
       /\ tree' = [q \in DOMAIN tree \cup {Path(c)} |-> IF q = Path(c) THEN Len(inode) + 1 ELSE tree[q]]

Place(c) ==
  /\ inode' = Append(inode, conn[c].sha)
  /\ tree' = [q \in DOMAIN tree \cup {Path(c)} |-> IF q = Path(c) THEN Len(inode) + 1 ELSE tree[q]]

Install(c) ==
  /\ conn[c].pc = "install" /\ ~IsDir(Path(c))
  /\ Place(c)
  /\ everAt' = [everAt EXCEPT ![Path(c)] = @ \cup {conn[c].sha}]
  /\ DriveEnds(c, "none") /\ Record(c, "allow")
  /\ UNCHANGED <<locks, client, got, unread, edits, cuts, fails, crashes>>

InstallFails(c) ==
  /\ conn[c].pc = "install"
  /\ \/ IsDir(Path(c)) /\ UNCHANGED fails
     \/ ~IsDir(Path(c)) /\ fails < MaxFails /\ fails' = fails + 1
  /\ DriveEnds(c, "internal") /\ Record(c, "deny")
  /\ UNCHANGED <<tree, inode, locks, client, got, unread, everAt, edits, cuts, crashes>>

(***************************************************************************)
(* doRm, under the same mutex.                                             *)
(***************************************************************************)
RmCheck(c) ==
  /\ conn[c].pc = "check" /\ Request[c].op = "rm"
  /\ IF ~CleanRelPath(Path(c)) THEN DriveEnds(c, "badpath") /\ Record(c, "deny")
     ELSE IF ~canWrite(Request[c].who) THEN DriveEnds(c, "denied") /\ Record(c, "deny")
     ELSE Goes(c, "lock") /\ UNCHANGED ledger
  /\ UNCHANGED <<tree, inode, locks, client, got, unread, everAt, edits, cuts, fails, crashes>>

RmCommit(c) ==
  /\ conn[c].pc = "commit" /\ Request[c].op = "rm"
  /\ IF IsFile(Path(c))
     THEN /\ tree' = [q \in DOMAIN tree \ {Path(c)} |-> tree[q]]
          /\ DriveEnds(c, "none") /\ Record(c, "allow")
     ELSE /\ DriveEnds(c, IF IsDir(Path(c)) THEN "badpath" ELSE "notfound") /\ Record(c, "deny")
          /\ UNCHANGED tree
  /\ UNCHANGED <<inode, locks, client, got, unread, everAt, edits, cuts, fails, crashes>>

(***************************************************************************)
(* doGet: open, size, hash, answer, body.  The file stays open, so a       *)
(* rename over its name does not touch it; an edit in place does.          *)
(***************************************************************************)
GetOpen(c) ==
  /\ conn[c].pc = "check" /\ Request[c].op = "get"
  /\ IF ~CleanRelPath(Path(c)) THEN DriveEnds(c, "badpath") /\ Record(c, "deny")
     ELSE IF ~IsFile(Path(c)) THEN DriveEnds(c, "notfound") /\ Record(c, "deny")
     ELSE /\ conn' = [conn EXCEPT ![c].pc = "hash", ![c].ino = tree[Path(c)], ![c].size = Size[inode[tree[Path(c)]]]]
          /\ UNCHANGED ledger
  /\ UNCHANGED <<tree, inode, locks, client, got, unread, everAt, edits, cuts, fails, crashes>>

GetHash(c) ==
  /\ conn[c].pc = "hash"
  /\ conn' = [conn EXCEPT ![c].pc = "send", ![c].sha = inode[conn[c].ino]]
  /\ UNCHANGED <<tree, inode, locks, client, got, unread, everAt, ledger, edits, cuts, fails, crashes>>

(***************************************************************************)
(* driveClientGet: the announced number of bytes, and the announced hash;  *)
(* nothing is saved otherwise.  A file that shrank yields too few bytes,   *)
(* one that grew is cut at the announced size.                             *)
(* (Mutated form: whatever arrives is saved.)                              *)
(***************************************************************************)
Streamed(c) == IF Size[inode[conn[c].ino]] > conn[c].size THEN "torn" ELSE inode[conn[c].ino]

AcceptsHashed(c) == Size[inode[conn[c].ino]] >= conn[c].size /\ Streamed(c) = conn[c].sha

GetBody(c) ==
  /\ conn[c].pc = "send"
  /\ Goes(c, "closed") /\ Record(c, "allow")
  /\ LET big == Request[c].limit > 0 /\ conn[c].size > Request[c].limit
     IN  \/ /\ ~big /\ AcceptsHashed(c)
            /\ Reports(c, "ok") /\ got' = [got EXCEPT ![c] = Streamed(c)]
            /\ UNCHANGED cuts
         \/ /\ big \/ ~AcceptsHashed(c)
            /\ Reports(c, "mismatch")
            /\ UNCHANGED <<got, cuts>>
         \/ /\ cuts < MaxCuts /\ cuts' = cuts + 1
            /\ Reports(c, "cut") /\ UNCHANGED got
  /\ UNCHANGED <<tree, inode, locks, unread, everAt, edits, fails, crashes>>

(***************************************************************************)
(* The answer line, and the return that releases the mutex.                *)
(***************************************************************************)
Answer(c) ==
  /\ conn[c].pc = "answer"
  /\ Goes(c, "closed")
  /\ locks' = [p \in DOMAIN locks |-> IF locks[p] = c THEN Free ELSE locks[p]]
  /\ \/ /\ Reports(c, IF client[c] = "cut" THEN "cut" ELSE IF conn[c].err = "none" THEN "ok" ELSE conn[c].err)
        /\ UNCHANGED cuts
     \/ unread[c] /\ Reports(c, "reset") /\ UNCHANGED cuts
     \/ cuts < MaxCuts /\ cuts' = cuts + 1 /\ Reports(c, "cut")
  /\ UNCHANGED <<tree, inode, got, unread, everAt, ledger, edits, fails, crashes>>

(***************************************************************************)
(* The owner of the folder edits a file in place.                          *)
(***************************************************************************)
Edit(p, x) ==
  /\ edits < MaxEdits /\ edits' = edits + 1
  /\ IsFile(p)
  /\ inode' = [inode EXCEPT ![tree[p]] = x]
  /\ everAt' = [everAt EXCEPT ![p] = @ \cup {x}]
  /\ UNCHANGED <<tree, locks, conn, client, got, unread, ledger, cuts, fails, crashes>>

DriveCrash ==
  /\ crashes < MaxCrashes /\ crashes' = crashes + 1
  /\ conn' = [c \in Conns |-> IF conn[c].pc = "idle" THEN conn[c] ELSE [conn[c] EXCEPT !.pc = "closed"]]
  /\ client' = [c \in Conns |-> IF conn[c].pc \notin {"idle", "closed"} THEN "cut" ELSE client[c]]
  /\ locks' = [p \in DOMAIN locks |-> Free]
  /\ UNCHANGED <<tree, inode, got, unread, everAt, ledger, edits, cuts, fails>>

AllPaths == {Path(c) : c \in Conns} \cup DOMAIN Initial

DriveInit ==
  /\ inode = IF \E p \in DOMAIN Initial : Initial[p] # "dir"
             THEN <<Initial[CHOOSE p \in DOMAIN Initial : Initial[p] # "dir"]>> ELSE <<>>
  /\ tree = [p \in DOMAIN Initial |-> IF Initial[p] = "dir" THEN 0 ELSE 1]
  /\ locks = [p \in AllPaths |-> Free]
  /\ conn = [c \in Conns |-> Fresh] /\ client = [c \in Conns |-> "wait"]
  /\ got = [c \in Conns |-> "none"] /\ unread = [c \in Conns |-> FALSE]
  /\ everAt = [p \in AllPaths |-> IF p \in DOMAIN Initial THEN {Initial[p]} ELSE {}]
  /\ ledger = {} /\ edits = 0 /\ cuts = 0 /\ fails = 0 /\ crashes = 0

DriveNext ==
  \/ \E c \in Conns : \/ DriveAccept(c) \/ RefusePut(c) \/ Receive(c) \/ ReceiveFails(c) \/ Lock(c) \/ CheckTarget(c)
                      \/ Install(c) \/ InstallFails(c) \/ RmCheck(c) \/ RmCommit(c) \/ GetOpen(c) \/ GetHash(c)
                      \/ GetBody(c) \/ Answer(c)
  \/ \E p \in AllPaths, x \in DOMAIN Size : Edit(p, x)
  \/ DriveCrash

DriveSpec == DriveInit /\ [][DriveNext]_driveVars

(***************************************************************************)
(* A get that reports success saved a content the path really had, whole,  *)
(* whatever puts, removals and edits ran beside it.                        *)
(***************************************************************************)
GotWhole == \A c \in Conns : Request[c].op = "get" /\ client[c] = "ok" => got[c] \in everAt[Path(c)]

(***************************************************************************)
(* Files hold what some writer sent whole, or what their owner wrote; a    *)
(* name outside the accepted ones is never created, and a file never gets  *)
(* below a file.                                                           *)
(***************************************************************************)
StoredWhole ==
  \A p \in DOMAIN tree :
    /\ IsFile(p) => inode[tree[p]] \in DOMAIN Size
    /\ p \notin DOMAIN Initial => p \in Clean \cup UNION {Parents(q) : q \in Clean}
    /\ \A q \in Parents(p) : IsDir(q)

(***************************************************************************)
(* A put or a removal whose client reports success is in the ledger, and   *)
(* was asked for by a writer; a refused client whose record fits the bound *)
(* of the drain is told why instead of seeing a reset.                     *)
(***************************************************************************)
ToldTrue ==
  \A c \in Conns :
    /\ client[c] = "ok" => <<c, "allow">> \in ledger
    /\ client[c] = "ok" /\ Request[c].op # "get" => Request[c].who \in Writers
    /\ client[c] = "reset" => Size[Body(c)] > MaxDrain

DriveHolds == GotWhole /\ StoredWhole /\ ToldTrue

(***************************************************************************)
(* An open file keeps its bytes: no put or removal changes the content of  *)
(* an inode, only the owner of the folder does.                            *)
(***************************************************************************)
OpenFilesKept == \A n \in DOMAIN inode : n \in DOMAIN inode' /\ (inode'[n] # inode[n] => edits' > edits)

-----------------------------------------------------------------------------
(***************************************************************************)
(* `meshmcp air send` (cmd/meshmcp/airsend.go): the text and the files a   *)
(* user selects are first copied into a private directory and only then    *)
(* sent, so that what the receiver confirms is what was announced to it    *)
(* although the user's files go on changing.                               *)
(*                                                                         *)
(* A path names an inode or nothing (0); an inode has a size, which stands *)
(* for its content.  Other programs write to the files, replace them,      *)
(* remove them and create them at any moment.  A name on the wire is a     *)
(* sequence of segments; the trie that keeps names apart is the set of its *)
(* nodes, each the sequence of segments that leads to it.  The delivery    *)
(* itself, with its completion report, is module Drop; who receives it is  *)
(* module Nearby.                                                          *)
(***************************************************************************)
CONSTANTS
    Paths,          \* the files of the user
    SendInitial,        \* path -> the size of the file there at the start, -1 for none
    Selections,     \* the --file arguments: [dir, names], names: path -> its wire name
    Text,           \* the size of --text, 0 for none
    TextName,       \* its wire name
    PerItem,        \* airDeliveryBounds.perItemBytes
    MaxTotal,       \* airDeliveryBounds.totalBytes
    MaxPayloads,    \* airDeliveryBounds.payloads
    MaxSize        \* the largest size a file grows to

VARIABLES
    disk,       \* path -> inode
    size,       \* inode -> size
    pc,         \* where the command is
    sel,        \* the selection being planned
    walk,       \* the entries of the directory still to be looked at
    planned,    \* the files to copy: [path, name, ino]
    trie,       \* the names reserved: [nodes, terminal]
    fd,         \* the inode of the file being copied
    staged,     \* the private copies and the text: [name, ino, size]
    root,       \* does the private directory exist
    sent,       \* what the receiver was sent
    result      \* the receipts shown to the user

sendVars == <<disk, size, edits, pc, sel, walk, planned, trie, fd, staged, root, sent, result>>
filesVars == <<disk, size, edits>>

Gone == 0
Inodes == 1 .. (Cardinality(Paths) + MaxEdits)
NewInode == CHOOSE i \in Inodes \ DOMAIN size : \A j \in Inodes \ DOMAIN size : i <= j

(***************************************************************************)
(* Names.  Two names conflict when they are the same or one is a directory *)
(* on the way to the other.                                                *)
(***************************************************************************)
dropWireNamesConflict(a, b) == IsPrefix(a, b) \/ IsPrefix(b, a)

(* The nodes on the way to a name, the name included.                      *)
Along(name) == {SubSeq(name, 1, n) : n \in 1 .. Len(name)}

(* No node on the way is a file, and the last one has no children.         *)
reserves(t, name) ==
    /\ Along(name) \cap t.terminal = {}
    /\ ~\E n \in t.nodes : Len(n) > Len(name) /\ IsPrefix(name, n)

Reserved(t, name) == [nodes |-> t.nodes \cup Along(name), terminal |-> t.terminal \cup {name}]

(***************************************************************************)
(* Failing.  The private directory is removed before the error is shown.   *)
(***************************************************************************)
(* (Mutated form: only a delivery that was made cleans up.) *)
FailLeaving ==
    /\ pc' = "failed" /\ root' = root
    /\ UNCHANGED <<sel, walk, planned, trie, fd, staged, sent, result>>

Fail ==
    /\ pc' = "failed" /\ root' = FALSE
    /\ UNCHANGED <<sel, walk, planned, trie, fd, staged, sent, result>>

(***************************************************************************)
(* The command.                                                            *)
(***************************************************************************)
(* What can be refused before anything is read: no payload at all, a       *)
(* selected file that does not exist, too many selections, too long a text.*)
Begin ==
    /\ pc = "start"
    /\ IF \/ Text = 0 /\ Len(Selections) = 0
          \/ \E k \in DOMAIN Selections : ~Selections[k].dir /\ \E p \in DOMAIN Selections[k].names : disk[p] = Gone
          \/ Len(Selections) > MaxPayloads
          \/ Text > PerItem \/ Text > MaxTotal
       THEN Fail
       ELSE /\ pc' = "plan"
            /\ root' = (Len(Selections) > 0)
            /\ staged' = IF Text > 0 THEN <<[name |-> TextName, ino |-> Gone, size |-> Text]>> ELSE <<>>
            /\ trie' = IF Text > 0 THEN Reserved(trie, TextName) ELSE trie
            /\ UNCHANGED <<sel, walk, planned, fd, sent, result>>
    /\ UNCHANGED filesVars

Room == Len(staged) + Len(planned) < MaxPayloads

planFile(p) ==
    LET name == Selections[sel].names[p]
    IN /\ Room /\ reserves(trie, name)
       /\ planned' = Append(planned, [path |-> p, name |-> name, ino |-> disk[p]])
       /\ trie' = Reserved(trie, name)

CannotPlan(p) == ~Room \/ ~reserves(trie, Selections[sel].names[p])

(* A selected file is looked at and planned.                               *)
SelectFile ==
    /\ pc = "plan" /\ sel <= Len(Selections) /\ ~Selections[sel].dir
    /\ \E p \in DOMAIN Selections[sel].names :
          IF disk[p] = Gone \/ CannotPlan(p)
          THEN Fail
          ELSE /\ planFile(p)
               /\ sel' = sel + 1
               /\ UNCHANGED <<pc, walk, fd, staged, root, sent, result>>
    /\ UNCHANGED filesVars

(* A selected directory is listed ...                                      *)
SelectDir ==
    /\ pc = "plan" /\ sel <= Len(Selections) /\ Selections[sel].dir
    /\ walk' = {p \in DOMAIN Selections[sel].names : disk[p] # Gone}
    /\ pc' = "walk"
    /\ UNCHANGED <<sel, planned, trie, fd, staged, root, sent, result>>
    /\ UNCHANGED filesVars

(* ... and each entry looked at, which fails when it is gone by then.      *)
WalkEntry ==
    /\ pc = "walk" /\ walk # {}
    /\ \E p \in walk :
          IF disk[p] = Gone \/ CannotPlan(p)
          THEN Fail
          ELSE /\ planFile(p)
               /\ walk' = walk \ {p}
               /\ UNCHANGED <<pc, sel, fd, staged, root, sent, result>>
    /\ UNCHANGED filesVars

WalkEnds ==
    /\ pc = "walk" /\ walk = {}
    /\ pc' = "plan" /\ sel' = sel + 1
    /\ UNCHANGED <<walk, planned, trie, fd, staged, root, sent, result>>
    /\ UNCHANGED filesVars

PlanEnds ==
    /\ pc = "plan" /\ sel > Len(Selections)
    /\ pc' = "copy"
    /\ UNCHANGED <<sel, walk, planned, trie, fd, staged, root, sent, result>>
    /\ UNCHANGED filesVars

(* (Mutated form: whatever is at the path now is copied.) *)
SameFileAny(expected, opened) == TRUE

SameFile(expected, opened) == expected = opened

(* A planned file is opened; it must still be the one that was planned.    *)
Open ==
    /\ pc = "copy" /\ planned # <<>>
    /\ IF disk[Head(planned).path] = Gone \/ ~SameFile(Head(planned).ino, disk[Head(planned).path])
       THEN Fail
       ELSE /\ fd' = disk[Head(planned).path]
            /\ pc' = "read"
            /\ UNCHANGED <<sel, walk, planned, trie, staged, root, sent, result>>
    /\ UNCHANGED filesVars

Total(s) == FoldLeft(LAMBDA acc, x : acc + x.size, 0, s)

copyLimit == IF MaxTotal - Total(staged) < PerItem THEN MaxTotal - Total(staged) ELSE PerItem

(* At most copyLimit bytes are read ...                                    *)
Copy ==
    /\ pc = "read"
    /\ staged' = Append(staged, [name |-> Head(planned).name, ino |-> fd,
                                 size |-> IF size[fd] < copyLimit THEN size[fd] ELSE copyLimit])
    /\ pc' = "probe"
    /\ UNCHANGED <<sel, walk, planned, trie, fd, root, sent, result>>
    /\ UNCHANGED filesVars

(* ... and one more is asked for: there must be none.                      *)
Probe ==
    /\ pc = "probe"
    /\ IF size[fd] > Last(staged).size
       THEN Fail
       ELSE /\ planned' = Tail(planned) /\ fd' = Gone /\ pc' = "copy"
            /\ UNCHANGED <<sel, walk, trie, staged, root, sent, result>>
    /\ UNCHANGED filesVars

CopyEnds ==
    /\ pc = "copy" /\ planned = <<>>
    /\ IF staged = <<>> THEN Fail
       ELSE /\ pc' = "send"
            /\ UNCHANGED <<sel, walk, planned, trie, fd, staged, root, sent, result>>
    /\ UNCHANGED filesVars

(* The private copies go out under their names.                            *)
OnTheWire == staged

Deliver ==
    /\ pc = "send"
    /\ sent' = OnTheWire
    /\ pc' = "confirm"
    /\ UNCHANGED <<sel, walk, planned, trie, fd, staged, root, result>>
    /\ UNCHANGED filesVars

(* The receiver compares what it installed with the number of payloads and *)
(* of bytes announced, which were taken from the snapshot.                 *)
Confirm ==
    /\ pc = "confirm"
    /\ IF Len(sent) = Len(staged) /\ Total(sent) = Total(staged)
       THEN /\ result' = [i \in DOMAIN staged |-> [name |-> staged[i].name, size |-> staged[i].size]]
            /\ pc' = "done" /\ root' = FALSE
            /\ UNCHANGED <<sel, walk, planned, trie, fd, staged, sent>>
       ELSE Fail
    /\ UNCHANGED filesVars

(* Nobody to resolve, or no connection.                                    *)
Unreachable ==
    /\ pc \in {"send", "confirm"}
    /\ Fail
    /\ UNCHANGED filesVars

(***************************************************************************)
(* Other programs.                                                         *)
(***************************************************************************)
Running == pc \notin {"done", "failed"}

Others ==
    /\ Running /\ edits < MaxEdits /\ edits' = edits + 1
    /\ \E p \in Paths :
          \/ /\ disk[p] # Gone
             /\ \E n \in 0 .. MaxSize : n # size[disk[p]] /\ size' = [size EXCEPT ![disk[p]] = n]
             /\ UNCHANGED disk
          \/ /\ disk[p] # Gone
             /\ disk' = [disk EXCEPT ![p] = Gone]
             /\ UNCHANGED size
          \/ \E n \in 0 .. MaxSize :
                /\ disk' = [disk EXCEPT ![p] = NewInode]
                /\ size' = [i \in DOMAIN size \cup {NewInode} |-> IF i = NewInode THEN n ELSE size[i]]
    /\ UNCHANGED <<pc, sel, walk, planned, trie, fd, staged, root, sent, result>>

(* The inodes the files have at the start.                                 *)
FirstInode == CHOOSE f \in [Paths -> 1 .. Cardinality(Paths)] : \A p, q \in Paths : p # q => f[p] # f[q]

SendInit ==
    /\ disk = [p \in Paths |-> IF SendInitial[p] < 0 THEN Gone ELSE FirstInode[p]]
    /\ size = [i \in 1 .. Cardinality(Paths) |-> SendInitial[CHOOSE p \in Paths : FirstInode[p] = i]]
    /\ edits = 0
    /\ pc = "start" /\ sel = 1 /\ walk = {} /\ planned = <<>>
    /\ trie = [nodes |-> {}, terminal |-> {}]
    /\ fd = Gone /\ staged = <<>> /\ root = FALSE /\ sent = <<>> /\ result = <<>>

SendNext ==
    \/ Begin \/ SelectFile \/ SelectDir \/ WalkEntry \/ WalkEnds \/ PlanEnds
    \/ Open \/ Copy \/ Probe \/ CopyEnds \/ Deliver \/ Confirm \/ Unreachable
    \/ Others

SendSpec == SendInit /\ [][SendNext]_sendVars

(***************************************************************************)
(* Properties.                                                             *)
(***************************************************************************)
(* The result the user sees is what the receiver got, name by name and     *)
(* byte by byte, whatever happened to the files meanwhile.                 *)
ResultTrue ==
    pc = "done" => /\ Len(result) = Len(sent)
                   /\ \A i \in DOMAIN sent : result[i].name = sent[i].name /\ result[i].size = sent[i].size

(* Nothing beyond the bounds is ever staged, and two payloads never land   *)
(* on one another at the receiver.                                         *)
SendBounded ==
    /\ Len(staged) <= MaxPayloads /\ Total(staged) <= MaxTotal
    /\ \A i \in DOMAIN staged : staged[i].size <= PerItem
    /\ \A i, j \in DOMAIN staged : i # j => ~dropWireNamesConflict(staged[i].name, staged[j].name)

(* A file is sent in full or not at all: between the copy and the probe    *)
(* nothing was cut off.  (The inode may have grown or shrunk since; it     *)
(* cannot have been longer than the copy when it was probed.)              *)
SendStep == pc = "probe" /\ pc' = "copy" => size[fd] <= Last(staged).size

(* What is copied is the file that was planned under the name, not one     *)
(* that took its place.                                                    *)
CopiesPlanned == fd # Gone => fd = Head(planned).ino

(* However the command ends, its private directory is gone.                *)
NothingLeft == ~Running => ~root

SendHolds == ResultTrue /\ SendBounded /\ CopiesPlanned /\ NothingLeft

-----------------------------------------------------------------------------
(***************************************************************************)
(* A handoff offer on its way: `air handoff offer` seals a capsule for one *)
(* key, checks who holds the address, and sends it over a resumable        *)
(* session that dials again after a break; `air handoff receive` admits,   *)
(* rate-limits, reads, stores, writes the receipt and acknowledges         *)
(* (cmd/meshmcp/airhandoff.go, air/handoff.go).  The inbox itself is       *)
(* module Handoff.                                                         *)
(***************************************************************************)
CONSTANTS Offer,     \* sender -> [src, key, id, hash, created, ttl]
          Allowed,   \* the sources the receivers admit
          MaxSkew,   \* maxHandoffFutureSkew
          MaxTTL,    \* maxHandoffTTL
          Burst,     \* the receiver's rate limit
          MaxRoom,   \* records an inbox takes
          Keys,      \* the keys of the receivers
          MaxMoves, MaxBreaks, MaxTries, MaxTime, MaxAuditFails, 
          Nobody

VARIABLES now,
          holder,  \* the key that holds the address the senders dial
          snd,     \* sender -> [pc, conn, told]
          back,    \* receiver sessions: sender -> [pc, at, ack]
          inbox,   \* key -> the offers stored
          trail,   \* <<key, offer>>: allow receipts
          tokens,  \* source -> what its bucket holds
          seen,    \* <<sender, key>>: who was given the capsule
          tries, moves, breaks, auditFails
wireVars == <<now, holder, snd, back, inbox, trail, tokens, seen, tries, moves, breaks, auditFails, crashes>>

Senders == DOMAIN Offer
Sources == {Offer[s].src : s \in Senders}
NoSession == [pc |-> "none", at |-> Nobody, ack |-> "none"]
Expires(o) == o.created + o.ttl

WireInit ==
  /\ now = 0 /\ holder \in Keys
  /\ snd = [s \in Senders |-> [pc |-> "idle", conn |-> Nobody, told |-> "none"]]
  /\ back = [s \in Senders |-> NoSession]
  /\ inbox = [k \in Keys |-> {}] /\ trail = {} /\ tokens = [x \in Sources |-> Burst]
  /\ seen = {} /\ tries = [s \in Senders |-> 0]
  /\ moves = 0 /\ breaks = 0 /\ auditFails = 0 /\ crashes = 0
-----------------------------------------------------------------------------
Shape(o) == o.ttl > 0 /\ o.ttl <= MaxTTL
(* HandoffOffer.Validate.                                                  *)
Validate(o, key, t) == Shape(o) /\ o.key = key /\ o.created <= t + MaxSkew /\ t < Expires(o)

Told(s, v) == snd' = [snd EXCEPT ![s].pc = "idle", ![s].conn = Nobody, ![s].told = v]

(* cmdAirHandoffOffer up to the first dial.  The same capsule may be       *)
(* offered again, under its id.                                            *)
OfferIt(s) ==
  /\ snd[s].pc = "idle" /\ snd[s].told # "offered" /\ back[s].pc = "none"
  /\ tries[s] < MaxTries /\ tries' = [tries EXCEPT ![s] = @ + 1]
  /\ Offer[s].created <= now
  /\ IF Validate(Offer[s], Offer[s].key, now) /\ holder = Offer[s].key
     THEN snd' = [snd EXCEPT ![s].pc = "dials", ![s].told = "none"]
     ELSE Told(s, "failed")
  /\ UNCHANGED <<now, holder, back, inbox, trail, tokens, seen, moves, breaks, auditFails, crashes>>

(* exactPeerDial: every connection's peer is compared with the target key; *)
(* a connection to another is closed and dialled again until the offer's   *)
(* expiry or the timeout.                                                  *)
ExactPeer(s) == holder = Offer[s].key
Dial(s) ==
  /\ snd[s].pc = "dials" /\ ExactPeer(s)
  /\ snd' = [snd EXCEPT ![s].pc = "sent", ![s].conn = holder]
  /\ seen' = seen \cup {<<s, holder>>}
  /\ UNCHANGED <<now, holder, back, inbox, trail, tokens, tries, moves, breaks, auditFails, crashes>>

(* The accept loop and the session it starts; a redial attaches to it.     *)
WireAccept(s) ==
  /\ snd[s].pc = "sent" /\ back[s].pc = "none"
  /\ IF Offer[s].src \in Allowed
     THEN back' = [back EXCEPT ![s] = [pc |-> "limits", at |-> snd[s].conn, ack |-> "none"]] /\ snd' = snd
     ELSE back' = back /\ snd' = [snd EXCEPT ![s].pc = "dials", ![s].conn = Nobody]
  /\ UNCHANGED <<now, holder, inbox, trail, tokens, seen, tries, moves, breaks, auditFails, crashes>>

Acks(s, v) == back' = [back EXCEPT ![s].pc = "acked", ![s].ack = v]

(* receiveHandoffOffer: the limiter, before anything is read.              *)
Limit(s) ==
  /\ back[s].pc = "limits"
  /\ IF tokens[Offer[s].src] > 0
     THEN /\ tokens' = [tokens EXCEPT ![Offer[s].src] = @ - 1]
          /\ back' = [back EXCEPT ![s].pc = "reads"]
     ELSE Acks(s, "rejected") /\ tokens' = tokens
  /\ UNCHANGED <<now, holder, snd, inbox, trail, seen, tries, moves, breaks, auditFails, crashes>>

(* Put, as the session sees it: the first offer of an id stays.            *)
SameId(k, o) == {x \in inbox[k] : x.id = o.id}
Replays(k, o) == \E x \in SameId(k, o) : x.hash = o.hash /\ x.src = o.src
Put(s) ==
  LET k == back[s].at
      o == Offer[s]
      fits == SameId(k, o) = {} /\ Cardinality(inbox[k]) < MaxRoom
  IN /\ back[s].pc = "reads"
     /\ IF Validate(o, k, now) /\ (fits \/ Replays(k, o))
        THEN /\ inbox' = [inbox EXCEPT ![k] = IF SameId(k, o) = {} THEN @ \cup {o} ELSE @]
             /\ back' = [back EXCEPT ![s].pc = "stored"]
        ELSE Acks(s, "rejected") /\ inbox' = inbox
     /\ UNCHANGED <<now, holder, snd, trail, tokens, seen, tries, moves, breaks, auditFails, crashes>>

(* The receipt, then the acknowledgement; without a receipt the source is  *)
(* told no.                                                                *)
Receipt(s, ok) == Acks(s, IF ok THEN "stored" ELSE "rejected")
Audit(s) ==
  /\ back[s].pc = "stored"
  /\ \/ Receipt(s, TRUE) /\ trail' = trail \cup {<<back[s].at, Offer[s]>>} /\ UNCHANGED auditFails
     \/ auditFails < MaxAuditFails /\ auditFails' = auditFails + 1 /\ Receipt(s, FALSE) /\ trail' = trail
  /\ UNCHANGED <<now, holder, snd, inbox, tokens, seen, tries, moves, breaks, crashes>>

(* The acknowledgement line reaches the sender, which compares its id and  *)
(* hash and reports what it says.                                          *)
Acknowledged(s) ==
  /\ back[s].pc = "acked" /\ snd[s].pc = "sent" /\ snd[s].conn = back[s].at
  /\ Told(s, IF back[s].ack = "stored" THEN "offered" ELSE "failed")
  /\ back' = [back EXCEPT ![s] = NoSession]
  /\ UNCHANGED <<now, holder, inbox, trail, tokens, seen, tries, moves, breaks, auditFails, crashes>>

(* The session ends without an acknowledgement: the timeout, the offer's   *)
(* expiry or the operator.  ReadHandoffAck of nothing is an error.         *)
(* (Mutated form: a session that ended cleanly has delivered.)             *)
NoAckIsSent(s) == Told(s, IF snd[s].pc = "sent" THEN "offered" ELSE "failed")
NoAck(s) == Told(s, "failed")
WireEnds(s) ==
  /\ snd[s].pc \in {"dials", "sent"}
  /\ NoAck(s)
  /\ UNCHANGED <<now, holder, back, inbox, trail, tokens, seen, tries, moves, breaks, auditFails, crashes>>
(* What the receiver still does then goes nowhere.                         *)
Unheard(s) ==
  /\ back[s].pc = "acked" /\ snd[s].pc = "idle"
  /\ back' = [back EXCEPT ![s] = NoSession]
  /\ UNCHANGED <<now, holder, snd, inbox, trail, tokens, seen, tries, moves, breaks, auditFails, crashes>>

(* The transport breaks and the session dials again; a receiver restarts,  *)
(* and a session it had is gone: the client's attach is refused.           *)
Break(s) ==
  /\ snd[s].pc = "sent" /\ breaks < MaxBreaks /\ breaks' = breaks + 1
  /\ snd' = [snd EXCEPT ![s].pc = "dials", ![s].conn = Nobody]
  /\ UNCHANGED <<now, holder, back, inbox, trail, tokens, seen, tries, moves, auditFails, crashes>>
WireCrash(k) ==
  LET hit == {s \in Senders : back[s].at = k} IN
  /\ crashes < MaxCrashes /\ crashes' = crashes + 1
  /\ back' = [s \in Senders |-> IF s \in hit THEN NoSession ELSE back[s]]
  /\ snd' = [s \in Senders |-> IF s \in hit /\ snd[s].pc # "idle"
                               THEN [pc |-> "idle", conn |-> Nobody, told |-> "failed"] ELSE snd[s]]
  /\ tokens' = [x \in Sources |-> Burst]
  /\ UNCHANGED <<now, holder, inbox, trail, seen, tries, moves, breaks, auditFails>>
Move ==
  /\ moves < MaxMoves /\ moves' = moves + 1
  /\ holder' \in Keys \ {holder}
  /\ UNCHANGED <<now, snd, back, inbox, trail, tokens, seen, tries, breaks, auditFails, crashes>>
Tick ==
  /\ now < MaxTime /\ now' = now + 1
  /\ tokens' = [x \in Sources |-> IF tokens[x] < Burst THEN tokens[x] + 1 ELSE Burst]
  /\ UNCHANGED <<holder, snd, back, inbox, trail, seen, tries, moves, breaks, auditFails, crashes>>

WireNext ==
  \/ \E s \in Senders : \/ OfferIt(s) \/ Dial(s) \/ WireAccept(s) \/ Limit(s) \/ Put(s) \/ Audit(s)
                        \/ Acknowledged(s) \/ WireEnds(s) \/ Unheard(s) \/ Break(s)
  \/ \E k \in Keys : WireCrash(k)
  \/ Move \/ Tick

WireSpec == WireInit /\ [][WireNext]_wireVars
-----------------------------------------------------------------------------
(* A sender that prints "offered" is right: its capsule is in the inbox of *)
(* the key it was sealed for, under its own source, with a receipt, however*)
(* often the connection broke and the address moved                        *)
(* (sendHandoffOfferWithDial, receiveHandoffOffer).                        *)
OfferedTrue ==
  \A s \in Senders : snd[s].told = "offered" =>
    LET o == Offer[s] IN Replays(o.key, o) /\ <<o.key, o>> \in trail

(* The capsule's context is given to its target key and to nobody else     *)
(* (verifyHandoffTargetAddress, exactPeerDial).                            *)
OnlyTarget == \A x \in seen : x[2] = Offer[x[1]].key

(* What an inbox holds was sealed for it and comes from an admitted source.*)
StoredFor == \A k \in Keys : \A o \in inbox[k] : o.key = k /\ o.src \in Allowed

WireHolds == OfferedTrue /\ OnlyTarget /\ StoredFor

(* Nothing is stored at or after its expiry.                               *)
NeverStoredLate ==
  \A k \in Keys : \A o \in inbox'[k] \ inbox[k] : now < Expires(o)

=============================================================================
