------------------------------- MODULE Lists --------------------------------
(***************************************************************************)
(* The lists a user keeps: links of Quick access (lib/bookmarks.js), texts  *)
(* of the catalog and apps of one's own (lib/catalog.js), and the pictures  *)
(* both fetch into state/icons (lib/icons.js), as open pages change them    *)
(* (public/js/app.js).                                                      *)
(*                                                                          *)
(* A request reads a list, waits for a picture, and writes the list it had  *)
(* read: nothing keeps two of them apart. What is no longer named by a list *)
(* is then pruned from the disk, by each of the two files on its own.       *)
(* Pictures are named by their content, so that the same one is one file.   *)
(***************************************************************************)
EXTENDS FiniteSets, Functions, Naturals, SequencesExt

CONSTANTS
    Ids,        \* links
    Shipped,    \* modules that come with Podhouse; their icons are not on this disk
    Mine,       \* apps that may be added
    Pics,       \* pictures that may be fetched
    Tabs,
    Requests,   \* requests that may be under way at once
    MaxLinks,   \* MAX of bookmarks.js
    MaxEvents   \* bound: what users ask for

NoPic == "no picture"
Idle == [at |-> "idle"]

VARIABLES
    links,      \* bookmarks.json: each with its picture
    over,       \* catalog.json: the picture each overridden text names
    own,        \* apps that were added, with the picture in their compose file
    installed,  \* those of them that are installed
    disk,       \* files of state/icons
    tab,        \* what each page has loaded: the links, and the apps' pictures
    req,        \* requests under way
    events

vars == <<links, over, own, installed, disk, tab, req, events>>

PicsOf(list) == {list[i].pic : i \in DOMAIN list}
Without(f, a) == Restrict(f, DOMAIN f \ {a})
With(f, a, p) == [b \in DOMAIN f \cup {a} |-> IF b = a THEN p ELSE f[b]]
Nothing == [a \in {} |-> NoPic]

(* catalog.apply(): the picture an app is shown with.                       *)
Icons == [a \in DOMAIN own \cup (DOMAIN over \cap Shipped) |->
            IF a \in DOMAIN over THEN over[a] ELSE own[a]]

Init ==
    /\ links = <<>> /\ over = Nothing /\ own = Nothing
    /\ installed = {} /\ disk = {}
    /\ tab = [t \in Tabs |-> [links |-> <<>>, icons |-> Nothing]]
    /\ req = [r \in Requests |-> Idle]
    /\ events = 0

Event == events < MaxEvents /\ events' = events + 1

-----------------------------------------------------------------------------
(* The page asks. What each request has read is part of it; a picture typed *)
(* as an address is still to be fetched, one the field was filled with is   *)
(* not.                                                                     *)

Ask(r, q) == req[r] = Idle /\ Event /\ req' = [req EXCEPT ![r] = q]

(* submitQuickForm(), save(): the form of a link that was edited names it,  *)
(* and brings it back if it was removed elsewhere.                          *)
SaveLink(r, t, id) ==
    /\ \E p \in Pics \cup {NoPic} : \E typed \in BOOLEAN :
         /\ typed = FALSE => p \in PicsOf(tab[t].links) \cup {NoPic}
         /\ Ask(r, [at |-> IF typed /\ p # NoPic THEN "fetch" ELSE "write", op |-> "link", tab |-> t,
                    read |-> links, entry |-> [id |-> id, pic |-> p], pic |-> p])
    /\ UNCHANGED <<links, over, own, installed, disk, tab>>

RemoveLink(r, t, id) ==
    /\ \E i \in DOMAIN tab[t].links : tab[t].links[i].id = id
    /\ Ask(r, [at |-> "write", op |-> "unlink", tab |-> t, read |-> links, id |-> id])
    /\ UNCHANGED <<links, over, own, installed, disk, tab>>

(* moveBookmark(): with its neighbour, in the list this page has loaded; it *)
(* is drawn so at once, and the whole order is sent.                        *)
Move(r, t, i) ==
    /\ i + 1 \in DOMAIN tab[t].links
    /\ LET seen == tab[t].links
           moved == [seen EXCEPT ![i] = seen[i + 1], ![i + 1] = seen[i]]
       IN  /\ tab' = [tab EXCEPT ![t].links = moved]
           /\ Ask(r, [at |-> "write", op |-> "order", tab |-> t, read |-> links,
                      ids |-> [j \in DOMAIN moved |-> moved[j].id]])
    /\ UNCHANGED <<links, over, own, installed, disk>>

(* submitCatalogForm() on an app that exists, whose picture the form was     *)
(* filled with when the page had last loaded the apps; and Reset.           *)
SaveOverride(r, t, a) ==
    /\ a \in Shipped \cup DOMAIN own
    /\ \E p \in Pics : \E typed \in BOOLEAN :
         /\ typed = FALSE => a \in DOMAIN tab[t].icons /\ p = tab[t].icons[a]
         /\ Ask(r, [at |-> IF typed THEN "fetch" ELSE "write", op |-> "override", tab |-> t,
                    read |-> over, app |-> a, pic |-> p])
    /\ UNCHANGED <<links, over, own, installed, disk, tab>>

ResetOverride(r, t, a) ==
    /\ a \in DOMAIN over
    /\ Ask(r, [at |-> "write", op |-> "reset", tab |-> t, read |-> over, app |-> a])
    /\ UNCHANGED <<links, over, own, installed, disk, tab>>

(* submitCatalogForm() on a new one. An address that is not fetched is an   *)
(* emoji, and no picture.                                                   *)
CreateApp(r, t, a) ==
    /\ \E p \in Pics \cup {NoPic} :
         Ask(r, [at |-> IF p = NoPic THEN "write" ELSE "fetch", op |-> "create", tab |-> t,
                 app |-> a, pic |-> p])
    /\ UNCHANGED <<links, over, own, installed, disk, tab>>

(* deleteApp(): whether it is installed is asked of Docker, now. The        *)
(* override is read only when the directory is gone.                        *)
DeleteApp(r, t, a) ==
    /\ a \in DOMAIN own \ installed
    /\ own' = Without(own, a)
    /\ Ask(r, [at |-> "write", op |-> "reset", tab |-> t, read |-> over, app |-> a])
    /\ UNCHANGED <<links, over, installed, disk, tab>>

-----------------------------------------------------------------------------
(* The server goes on.                                                      *)

Refuse(r) == req' = [req EXCEPT ![r] = Idle]

(* icons.localise(): written once, under the name its content gives it.     *)
Fetch(r) ==
    /\ req[r].at = "fetch"
    /\ \/ disk' = disk \cup {req[r].pic} /\ req' = [req EXCEPT ![r].at = "write"]
       \/ Refuse(r) /\ UNCHANGED disk
    /\ UNCHANGED <<links, over, own, installed, tab, events>>

At(list, id) == {i \in DOMAIN list : list[i].id = id}

(* filter(): what stands in these places of a list, in its order.           *)
Keep(list, places) ==
    [k \in 1..Cardinality(places) |->
        list[CHOOSE i \in places : Cardinality({j \in places : j <= i}) = k]]

(* Of the ids, those that are in the list; of the list, what they do not name. *)
Known(list, ids) == {i \in DOMAIN ids : At(list, ids[i]) # {}}
Unnamed(list, ids) == {j \in DOMAIN list : list[j].id \notin ToSet(ids)}

(* save(): in its place, or at the end while there is room.                 *)
WithLink(list, entry) ==
    IF At(list, entry.id) = {} THEN Append(list, entry)
    ELSE [list EXCEPT ![CHOOSE i \in At(list, entry.id) : TRUE] = entry]

(* The links that are named, in the order of the ids.                       *)
Ordered(list, ids) ==
    LET named == Keep(ids, Known(list, ids))
    IN  [i \in DOMAIN named |-> list[CHOOSE j \in At(list, named[i]) : TRUE]]

(* Slip: a list that was loaded before a link was added orders that one out.*)
ReorderedOnly(list, ids) == Ordered(list, ids)

(* reorder(): those that are named first, the others after them as they     *)
(* were.                                                                    *)
Reordered(list, ids) == Ordered(list, ids) \o Keep(list, Unnamed(list, ids))

(* The answer; the page then loads the list.                                *)
Answered(r, list) ==
    /\ req' = [req EXCEPT ![r] = Idle]
    /\ tab' = [tab EXCEPT ![req[r].tab].links = list]

WriteLinks(r) ==
    LET q == req[r]
        left == Keep(q.read, DOMAIN q.read \ At(q.read, q.id))
    IN  /\ q.at = "write"
        /\ \/ q.op = "link" /\ (At(q.read, q.entry.id) = {} => Len(q.read) < MaxLinks)
              /\ links' = WithLink(q.read, q.entry) /\ Answered(r, links')
           \/ q.op = "order" /\ links' = Reordered(q.read, q.ids) /\ Answered(r, links')
           \/ q.op = "unlink" /\ left # q.read
              /\ links' = left /\ UNCHANGED tab
              /\ req' = [req EXCEPT ![r].at = "prune", ![r].read = left]
           \/ Refuse(r) /\ UNCHANGED <<links, tab>>
              /\ \/ q.op = "link" /\ At(q.read, q.entry.id) = {} /\ Len(q.read) >= MaxLinks
                 \/ q.op = "unlink" /\ left = q.read
        /\ UNCHANGED <<over, own, installed, disk, events>>

WriteCatalog(r) ==
    LET q == req[r]
    IN  /\ q.at = "write"
        /\ \/ q.op = "override" /\ over' = With(q.read, q.app, q.pic)
           \/ q.op = "reset" /\ over' = Without(q.read, q.app)
        /\ req' = [req EXCEPT ![r].at = "prune"]
        /\ UNCHANGED <<links, own, installed, disk, tab, events>>

(* createApp(), from the picture on: nothing is written over an app that is *)
(* there.                                                                   *)
WriteApp(r) ==
    LET q == req[r]
    IN  /\ q.at = "write" /\ q.op = "create"
        /\ own' = IF q.app \in DOMAIN own THEN own ELSE With(own, q.app, q.pic)
        /\ Refuse(r)
        /\ UNCHANGED <<links, over, installed, disk, tab, events>>

(* Pictures on disk that are not referred to: icons.unused().               *)
Unused(referenced) == disk \ referenced

NamedByApps == Range(own) \cup Range(over)

(* pruneIcons(): of catalog.js, and of bookmarks.js, which also counts the  *)
(* links it has just written.                                               *)
Prune(r) ==
    /\ req[r].at = "prune"
    /\ disk' = disk \ Unused(NamedByApps \cup (IF req[r].op = "unlink" THEN PicsOf(req[r].read) ELSE {}))
    /\ Refuse(r)
    /\ tab' = IF req[r].op = "unlink" THEN [tab EXCEPT ![req[r].tab].links = links]
            ELSE [tab EXCEPT ![req[r].tab].icons = Icons]
    /\ UNCHANGED <<links, over, own, installed, events>>

InstallOrRemove(a) ==
    /\ a \in DOMAIN own /\ Event
    /\ installed' = IF a \in installed THEN installed \ {a} ELSE installed \cup {a}
    /\ UNCHANGED <<links, over, own, disk, tab, req>>

(* loadBookmarks(), loadModules(), loadCatalog().                           *)
Load(t) ==
    /\ tab' = [tab EXCEPT ![t] = [links |-> links, icons |-> Icons]]
    /\ UNCHANGED <<links, over, own, installed, disk, req, events>>

Next ==
    \/ \E r \in Requests :
         \/ Fetch(r) \/ WriteLinks(r) \/ WriteCatalog(r) \/ WriteApp(r) \/ Prune(r)
         \/ \E t \in Tabs :
              \/ \E id \in Ids : SaveLink(r, t, id) \/ RemoveLink(r, t, id)
              \/ \E i \in DOMAIN tab[t].links : Move(r, t, i)
              \/ \E a \in Shipped \cup Mine : SaveOverride(r, t, a) \/ ResetOverride(r, t, a)
              \/ \E a \in Mine : CreateApp(r, t, a) \/ DeleteApp(r, t, a)
    \/ \E a \in Mine : InstallOrRemove(a)
    \/ \E t \in Tabs : Load(t)

Spec == Init /\ [][Next]_vars

-----------------------------------------------------------------------------
Quiet == \A r \in Requests : req[r] = Idle

(* When an order is written that was sent for the list that is there, every *)
(* link of it is in the new one, and those that are not named in order.     *)
OrderKeepsAll ==
    \A r \in Requests :
        (req[r].at = "write" /\ req[r].op = "order" /\ req'[r] = Idle /\ req[r].read = links) =>
            /\ ToSet(links') = ToSet(links) /\ Len(links') = Len(links)
            /\ Keep(links', Unnamed(links', req[r].ids)) = Keep(links, Unnamed(links, req[r].ids))

(* "Reorder from a list of ids. Anything not named keeps its relative       *)
(* place" (bookmarks.js:94): a move in one tab neither drops nor doubles a  *)
(* link that another tab has added or removed, and those it does not name   *)
(* stay in order.                                                           *)
MoveKeepsAll == [][OrderKeepsAll]_vars

(* "an icon still named by a compose file must survive its override being   *)
(* reset" (catalog.js:141): and the picture of any app is on the disk. A    *)
(* form that was filled before another tab reset it saves it all the same.  *)
AppIconsKept == Quiet => NamedByApps \ {NoPic} \subseteq disk

(* "Delete cached icons nothing points at any more" (catalog.js:138): the   *)
(* picture of a link is on the disk. It is not: the catalog's prune looks   *)
(* at apps alone.                                                           *)
LinkIconsKept == Quiet => PicsOf(links) \ {NoPic} \subseteq disk

=============================================================================
