------------------------------ MODULE Records ------------------------------
(***************************************************************************)
(* The Client > Case > Session hierarchy on disk (ClientStore, CaseStore,  *)
(* SessionStore, DocumentStore: one encrypted file per item), the lists    *)
(* SessionViewModel caches of it, the screens that create, edit and delete *)
(* its items, and a process that may die between any two file operations.  *)
(*                                                                         *)
(* A handler runs on the main thread, so nothing but the death of the      *)
(* process comes between its file operations: they wait in todo, and what  *)
(* it does after them (which lists it refreshes, where it goes) in after.  *)
(* A file is torn between the truncation and the end of its write, and for *)
(* good when the process dies there.  Sessions are saved by the            *)
(* consultation of module Consultation; here only their files are.         *)
(* Operators that stand before another and are named for what they get     *)
(* wrong are faulty variants.                                              *)
(***************************************************************************)
EXTENDS Naturals, Sequences

CONSTANTS
    Clients, Cases, Sessions, Documents,
    DemoClient, DemoCase,       \* the client and case seeded at launch
    None

Items == Clients \cup Cases \cup Sessions \cup Documents

ASSUME RecordsAssumption ==
    /\ DemoClient \in Clients /\ DemoCase \in Cases
    /\ None \notin Items
    /\ Clients \cap Cases = {} /\ Clients \cap Sessions = {} /\ Clients \cap Documents = {}
    /\ Cases \cap Sessions = {} /\ Cases \cap Documents = {} /\ Sessions \cap Documents = {}

VARIABLES
    file,     \* [Items -> {"NONE", "TORN", "OK"}]: the file of each item
    parent,   \* the clientId of a case, the caseId of a session, a document's directory
    lists,    \* _clients, _cases, _sessions and _documents
    ui,       \* phase, client, case and editingClient of SessionUiState
    todo,     \* the file operations left of the handler that runs
    after     \* what that handler does when they are done

vars == <<file, parent, lists, ui, todo, after>>

Phases == {"HOME", "NEW_CLIENT", "CLIENT_PROFILE", "NEW_CASE", "CASE_PROFILE"}
Lists == {"clients", "cases", "sessions", "documents"}
Screens == [phase : Phases, client : Clients \cup {None}, case : Cases \cup {None},
            editing : Clients \cup {None}]

(* None also stands for no handler, which differs from every handler.      *)
ASSUME NothingAssumption == None \notin [to : Screens, refresh : SUBSET Lists]

Home == [phase |-> "HOME", client |-> None, case |-> None, editing |-> None]

-----------------------------------------------------------------------------
(* The stores                                                              *)
Exists(i) == file[i] # "NONE"

(* list() of the three JSON stores skips a file it cannot decode.          *)
Readable(S) == {i \in S : file[i] = "OK"}

(* The documents of a case are the files in its directory.                 *)
Directory(k) == {d \in Documents : Exists(d) /\ parent[d] = k}

(* What each list shows when it is refreshed on screen u; documents are    *)
(* listed by their directory entries.                                      *)
OnDisk(list, u) ==
    CASE list = "clients" -> Readable(Clients)
      [] list = "cases" -> Readable(Cases)
      [] list = "sessions" -> Readable(Sessions)
      [] list = "documents" -> IF u.case = None THEN {} ELSE Directory(u.case)

Of(S, p) == {i \in S : parent[i] = p}

Do(op, S) == IF S = {} THEN <<>> ELSE <<[op |-> op, of |-> S]>>

(* writeBytes truncates the file and fills it.                             *)
Write(i) == Do("tear", {i}) \o Do("fill", {i})

DeleteAll(k) == Do("delete", Directory(k))

(* add: nothing is written when the source cannot be read or encrypted.    *)
Add(d) == {Write(d), <<>>}

CaseCascadeParentFirst(k) ==
    Do("delete", {k}) \o Do("delete", Of(lists["sessions"], k)) \o DeleteAll(k)

(* deleteCaseData: the sessions it has listed, the document directory, and *)
(* the case itself.                                                        *)
CaseCascade(k) ==
    Do("delete", Of(lists["sessions"], k)) \o DeleteAll(k) \o Do("delete", {k})

Seed == Write(DemoClient) \o Write(DemoCase)

Launched == [to |-> Home, refresh |-> {"clients", "cases", "sessions"}]
NoLists == [l \in Lists |-> {}]

Init ==
    /\ file = [i \in Items |-> "NONE"]
    /\ parent = [i \in Items |-> IF i = DemoCase THEN DemoClient ELSE None]
    /\ lists = NoLists
    /\ ui = Home
    /\ todo = Seed
    /\ after = Launched

-----------------------------------------------------------------------------
(* A handler: its file operations, then its refreshes and its screen       *)
Idle == todo = <<>> /\ after = None

Handle(ops, refresh, u) ==
    /\ todo' = ops
    /\ after' = [to |-> u, refresh |-> refresh]
    /\ UNCHANGED <<file, lists, ui>>

(* A failed write leaves the file torn; persist and DocumentStore.add      *)
(* swallow the exception and their handler goes on.                        *)
Outcomes(op, i) ==
    CASE op = "tear" -> {"TORN"}
      [] op = "fill" -> IF i \in Sessions \cup Documents THEN {"OK", "TORN"} ELSE {"OK"}
      [] op = "delete" -> {"NONE"}

(* One file operation; the cascade of a client expands case by case.       *)
FileStep ==
    /\ todo # <<>>
    /\ \E i \in Head(todo).of :
         LET op == Head(todo).op
             rest == Do(op, Head(todo).of \ {i}) \o Tail(todo)
         IN  IF op = "cascade"
               THEN todo' = CaseCascade(i) \o rest /\ UNCHANGED file
               ELSE /\ todo' = rest
                    /\ \E f \in Outcomes(op, i) : file' = [file EXCEPT ![i] = f]
    /\ UNCHANGED <<parent, lists, ui, after>>

RefreshForgotten ==
    /\ todo = <<>> /\ after # None
    /\ ui' = after.to
    /\ lists' = [l \in Lists |-> IF l \in after.refresh \ {"sessions"}
                                   THEN OnDisk(l, after.to) ELSE lists[l]]
    /\ after' = None
    /\ UNCHANGED <<file, parent, todo>>

Finish ==
    /\ todo = <<>> /\ after # None
    /\ ui' = after.to
    /\ lists' = [l \in Lists |-> IF l \in after.refresh THEN OnDisk(l, after.to) ELSE lists[l]]
    /\ after' = None
    /\ UNCHANGED <<file, parent, todo>>

(* The process dies, by a failed write in a handler that does not catch it *)
(* too, and is launched again.                                             *)
Restart ==
    /\ ui' = Home
    /\ lists' = NoLists
    /\ todo' = Seed
    /\ after' = Launched
    /\ parent' = [parent EXCEPT ![DemoCase] = DemoClient]
    /\ UNCHANGED file

-----------------------------------------------------------------------------
(* Screens.  Each offers its buttons and rows while it shows and no        *)
(* handler runs; a search or filter hides rows but adds none, and the      *)
(* confirmation before a delete covers the screen until it is answered.    *)
OnHome == Idle /\ ui.phase = "HOME"
OnClientForm == Idle /\ ui.phase = "NEW_CLIENT"
OnClientProfile == Idle /\ ui.phase = "CLIENT_PROFILE" /\ ui.client # None
OnMatterTypes == Idle /\ ui.phase = "NEW_CASE"
OnCaseProfile == Idle /\ ui.phase = "CASE_PROFILE" /\ ui.case # None

ShowHome == [ui EXCEPT !.phase = "HOME", !.client = None, !.case = None]
ShowClient(c) == [ui EXCEPT !.phase = "CLIENT_PROFILE", !.client = c, !.case = None]

ShowCase(k) == [ui EXCEPT !.phase = "CASE_PROFILE", !.case = k]

CaseLists == {"sessions", "documents"}

GoHome ==
    /\ Idle
    /\ Handle(<<>>, {"clients", "cases", "sessions"}, ShowHome)
    /\ UNCHANGED parent

OpenClient(c) ==
    /\ \/ OnHome /\ c \in lists["clients"]
       \/ OnClientForm /\ c = ui.editing                       \* cancel, back
       \/ (OnMatterTypes \/ OnCaseProfile) /\ c = ui.client    \* back
    /\ Handle(<<>>, {"cases", "sessions"}, ShowClient(c))
    /\ UNCHANGED parent

StartNewClient ==
    /\ OnHome
    /\ Handle(<<>>, {}, [ui EXCEPT !.phase = "NEW_CLIENT", !.editing = None])
    /\ UNCHANGED parent

StartEditClient ==
    /\ OnClientProfile
    /\ Handle(<<>>, {}, [ui EXCEPT !.phase = "NEW_CLIENT", !.editing = ui.client])
    /\ UNCHANGED parent

CreateClient(c) ==
    /\ OnClientForm /\ ui.editing = None
    /\ ~Exists(c) /\ c # DemoClient
    /\ Handle(Write(c), {"clients", "cases", "sessions"}, ShowClient(c))
    /\ UNCHANGED parent

UpdateClient ==
    /\ OnClientForm /\ ui.editing # None
    /\ Handle(Write(ui.editing), {"clients"},
              [ui EXCEPT !.phase = "CLIENT_PROFILE", !.client = ui.editing, !.editing = None])
    /\ UNCHANGED parent

NewCase ==
    /\ OnClientProfile
    /\ Handle(<<>>, {}, [ui EXCEPT !.phase = "NEW_CASE"])
    /\ UNCHANGED parent

CreateCase(k) ==
    /\ OnMatterTypes
    /\ ~Exists(k) /\ k # DemoCase
    /\ Handle(Write(k), {"cases"} \cup CaseLists, ShowCase(k))
    /\ parent' = [parent EXCEPT ![k] = ui.client]

OpenCase(k) ==
    /\ OnClientProfile
    /\ k \in Of(lists["cases"], ui.client)
    /\ Handle(<<>>, CaseLists, ShowCase(k))
    /\ UNCHANGED parent

(* A consultation of the case on screen is saved, for the first time or    *)
(* over its earlier record, and left again for the case.                   *)
SaveSession(s) ==
    /\ OnCaseProfile
    /\ ~Exists(s) \/ s \in Of(lists["sessions"], ui.case)
    /\ \E ops \in {Write(s), <<>>} : Handle(ops, CaseLists, ui)   \* <<>>: encrypting failed
    /\ parent' = [parent EXCEPT ![s] = ui.case]

AttachDocument(d) ==
    /\ OnCaseProfile
    /\ ~Exists(d)
    /\ \E ops \in Add(d) : Handle(ops, {"documents"}, ui)
    /\ parent' = [parent EXCEPT ![d] = ui.case]

DeleteDocument(d) ==
    /\ OnCaseProfile /\ d \in lists["documents"]
    /\ Handle(Do("delete", {d}), {"documents"}, ui)
    /\ UNCHANGED parent

DeleteSession(s) ==
    /\ OnCaseProfile /\ s \in Of(lists["sessions"], ui.case)
    /\ Handle(Do("delete", {s}), {"sessions"}, ui)
    /\ UNCHANGED parent

DeleteCaseStays ==
    /\ OnCaseProfile
    /\ Handle(CaseCascade(ui.case), {"cases", "sessions"}, ui)
    /\ UNCHANGED parent

DeleteCase ==
    /\ OnCaseProfile
    /\ Handle(CaseCascade(ui.case), {"cases", "sessions"}, ShowClient(ui.client))
    /\ UNCHANGED parent

DeleteClient ==
    /\ OnClientProfile
    /\ Handle(Do("cascade", Of(lists["cases"], ui.client)) \o Do("delete", {ui.client}),
              {"clients", "cases", "sessions"}, ShowHome)
    /\ UNCHANGED parent

Next ==
    \/ FileStep \/ Finish \/ Restart
    \/ GoHome \/ StartNewClient \/ StartEditClient \/ UpdateClient \/ NewCase
    \/ DeleteCase \/ DeleteClient
    \/ \E c \in Clients : OpenClient(c) \/ CreateClient(c)
    \/ \E k \in Cases : CreateCase(k) \/ OpenCase(k)
    \/ \E s \in Sessions : SaveSession(s) \/ DeleteSession(s)
    \/ \E d \in Documents : AttachDocument(d) \/ DeleteDocument(d)

Spec == Init /\ [][Next]_vars

-----------------------------------------------------------------------------
(* Properties                                                              *)

(* Every variable holds a value of its type, and a profile screen has the  *)
(* client or case it shows.                                                *)
TypeOK ==
    /\ file \in [Items -> {"NONE", "TORN", "OK"}]
    /\ parent \in [Items -> Items \cup {None}]
    /\ lists \in [Lists -> SUBSET Items]
    /\ ui \in Screens
    /\ todo \in Seq([op : {"tear", "fill", "delete", "cascade"}, of : SUBSET Items])
    /\ after = None \/ after \in [to : Screens, refresh : SUBSET Lists]
    /\ ui.phase \in {"CLIENT_PROFILE", "NEW_CASE", "CASE_PROFILE"} => ui.client # None
    /\ ui.phase = "CASE_PROFILE" => ui.case # None

(* No readable session or case, and no document, outlives what it belongs  *)
(* to, wherever in a cascade or a save the process dies.                   *)
NoOrphans ==
    /\ \A k \in Readable(Cases) : Exists(parent[k])
    /\ \A s \in Readable(Sessions) : Exists(parent[s])
    /\ \A d \in Documents : Exists(d) => Exists(parent[d])

(* Between handlers the cached lists are what the disk holds, so that a    *)
(* cascade, which goes by the cached sessions and cases, misses none.      *)
ListsMatchDisk ==
    Idle => \A l \in {"clients", "cases", "sessions"} : lists[l] = OnDisk(l, ui)

(* A case profile lists the documents of its own case.                     *)
DocumentsOfCase ==
    Idle /\ ui.phase = "CASE_PROFILE" => lists["documents"] = OnDisk("documents", ui)

(* Submitting the client form writes the client that is being edited, or a *)
(* new one: it never brings a deleted client back.                         *)
EditNeverResurrects ==
    Idle /\ ui.phase = "NEW_CLIENT" /\ ui.editing # None => Exists(ui.editing)

(* What the screen shows exists on disk.                                   *)
ScreenIsLive ==
    Idle =>
        /\ ui.client # None => Exists(ui.client)
        /\ ui.case # None => Exists(ui.case) /\ parent[ui.case] = ui.client

(* The screen is one the app has, and neither it nor the form on it refers *)
(* to anything deleted.                                                    *)
ScreenSound == TypeOK /\ DocumentsOfCase /\ EditNeverResurrects /\ ScreenIsLive
=============================================================================
