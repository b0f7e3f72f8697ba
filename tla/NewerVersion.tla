---------------------------- MODULE NewerVersion ----------------------------
(***************************************************************************)
(* "Is any published tag NEWER than the one we are pinned to?": the part of *)
(* a check (checkOne() of lib/updates.js) that lists a repository's tags    *)
(* page by page (listTags() of lib/registry.js) from where a newer one can  *)
(* be (listFrom() of lib/versions.js), and picks one (newerThan()).         *)
(*                                                                          *)
(* A tag is its numbers and what stands around them; its text matters       *)
(* because one kind of registry orders tags by it. The registry itself is   *)
(* external: it answers as listFrom()'s comment says they do.               *)
(***************************************************************************)
EXTENDS Naturals, SequencesExt

CONSTANTS
    Tags,       \* tags that may be published: [nums, post], post a number
    Registries, \* of "hub", "ghcr", "other"
    MaxPages,   \* maxPages of listTags()
    PageSize,   \* pageSize of listTags()
    MaxTags,    \* bound: tags there ever are
    MaxEvents   \* bound: tags published and deleted

VARIABLES
    kind,       \* the registry the image is from
    stateful,   \* the image is a database's
    pushed,     \* its tags, in the order they were pushed
    at,         \* the tag the container runs
    walk,       \* the check under way
    answer,     \* newerVersion or blockedVersion of the last check
    events

vars == <<kind, stateful, pushed, at, walk, answer, events>>

NoTag == [nums |-> <<>>, post |-> 0]
Silence == [tag |-> NoTag, blocked |-> FALSE]
Idle == [on |-> FALSE]

Event == events < MaxEvents /\ events' = events + 1

-----------------------------------------------------------------------------
(* versions.js. shapeOf(): what is left when every number is a placeholder. *)
Shape(t) == <<Len(t.nums), t.post>>

(* compareSameShape(): the numbers from left to right.                      *)
Above(a, b) ==
    \E i \in DOMAIN a.nums :
        a.nums[i] > b.nums[i] /\ \A j \in 1..i - 1 : a.nums[j] = b.nums[j]

NewerThan(current, list) ==
    LET candidates == {t \in ToSet(list) : Shape(t) = Shape(current) /\ Above(t, current)}
    IN  IF candidates = {} THEN NoTag
        ELSE CHOOSE t \in candidates : \A u \in candidates \ {t} : Above(t, u)

CrossesMajor(a, b) == stateful /\ a.nums[1] # b.nums[1]

(* The text of a tag: "." and "-" come before the digits.                   *)
Dot == 0
Digits(n) == IF n < 10 THEN <<n + 1>> ELSE <<(n \div 10) + 1, (n % 10) + 1>>
Text(t) ==
    FoldLeft(LAMBDA text, n : text \o (IF text = <<>> THEN <<>> ELSE <<Dot>>) \o Digits(n),
             <<>>, t.nums)
    \o (IF t.post = 0 THEN <<>> ELSE <<Dot, t.post>>)

Before(x, y) ==
    \/ IsStrictPrefix(x, y)
    \/ \E i \in DOMAIN x \cap DOMAIN y :
         x[i] < y[i] /\ \A j \in 1..i - 1 : x[j] = y[j]

AllNines(n) == \A i \in DOMAIN Digits(n) : Digits(n)[i] = 10

(* listFrom(): a tag of ghcr, a text of Docker Hub, or everything.          *)
Everything == <<>>

(* Slip: from the whole tag.                                                *)
ListFromTag(t) == IF kind = "other" \/ AllNines(t.nums[1]) THEN Everything ELSE Text(t)

ListFrom(t) ==
    CASE kind = "ghcr" -> Text(t)
      [] kind = "hub" /\ ~AllNines(t.nums[1]) -> Digits(t.nums[1])
      [] OTHER -> Everything

-----------------------------------------------------------------------------
(* The registry. Docker Hub answers in the order of the texts, from any     *)
(* text; the others in the order of pushing, from a tag that is there.      *)
Listed == IF kind = "hub" THEN SortSeq(pushed, LAMBDA a, b : Before(Text(a), Text(b))) ELSE pushed

After(last) ==
    IF last = Everything THEN Listed
    ELSE IF kind = "hub" THEN SelectSeq(Listed, LAMBDA t : Before(last, Text(t)))
    ELSE IF \A i \in DOMAIN pushed : Text(pushed[i]) # last THEN <<>>
    ELSE SubSeq(pushed, 1 + CHOOSE i \in DOMAIN pushed : Text(pushed[i]) = last, Len(pushed))

Page(last) == IF Len(After(last)) > PageSize THEN SubSeq(After(last), 1, PageSize) ELSE After(last)

Init ==
    /\ kind \in Registries /\ stateful \in BOOLEAN
    /\ at \in Tags /\ pushed = <<at>>
    /\ walk = Idle /\ answer = Silence /\ events = 0

Publish ==
    /\ Event
    /\ Len(pushed) < MaxTags
    /\ \E t \in Tags \ ToSet(pushed) : pushed' = Append(pushed, t)
    /\ UNCHANGED <<kind, stateful, at, walk, answer>>

(* Not in the middle of a listing: what a registry answers to a cursor that *)
(* is gone by then is not known here.                                       *)
Delete ==
    /\ Event
    /\ ~walk.on
    /\ \E i \in DOMAIN pushed : pushed' = RemoveAt(pushed, i)
    /\ UNCHANGED <<kind, stateful, at, walk, answer>>

(* checkOne(), from the digests on.                                         *)
Start ==
    /\ ~walk.on
    /\ walk' = [on |-> TRUE, from |-> ListFrom(at), last |-> ListFrom(at), page |-> 0,
                got |-> <<>>, there |-> ToSet(pushed)]
    /\ UNCHANGED <<kind, stateful, pushed, at, answer, events>>

(* What checkOne() makes of the list.                                       *)
Judge(list) ==
    LET newer == NewerThan(at, list)
    IN  [tag |-> newer, blocked |-> newer # NoTag /\ CrossesMajor(at, newer)]

(* A page of listTags(), and what follows the last of them. An empty answer *)
(* to a cursor is asked again without one.                                  *)
Listing ==
    LET page == Page(walk.last)
        got == walk.got \o page
        more == Len(After(walk.last)) > PageSize /\ walk.page + 1 < MaxPages
    IN  /\ walk.on
        /\ IF more
           THEN /\ walk' = [walk EXCEPT !.last = Text(Last(page)), !.page = @ + 1, !.got = got]
                /\ UNCHANGED answer
           ELSE IF walk.from # Everything /\ got = <<>>
           THEN /\ walk' = [walk EXCEPT !.from = Everything, !.last = Everything, !.page = 0]
                /\ UNCHANGED answer
           ELSE walk' = Idle /\ answer' = Judge(got)
        /\ UNCHANGED <<kind, stateful, pushed, at, events>>

(* The registry does not list, or refuses: "the digest answer above still   *)
(* stands".                                                                 *)
Refused ==
    /\ Event
    /\ walk.on
    /\ walk' = Idle /\ answer' = Silence
    /\ UNCHANGED <<kind, stateful, pushed, at>>

(* upgrade() to what is on offer.                                           *)
Upgrade ==
    /\ ~walk.on /\ answer.tag # NoTag /\ ~answer.blocked
    /\ at' = answer.tag /\ answer' = Silence
    /\ UNCHANGED <<kind, stateful, pushed, walk, events>>

Next == Publish \/ Delete \/ Start \/ Listing \/ Refused \/ Upgrade

Spec == Init /\ [][Next]_vars

-----------------------------------------------------------------------------
(* What the narrowed listing relies on: Docker Hub's first numbers have as  *)
(* many digits as the box's, unless that is all nines; ghcr's newer tags    *)
(* were pushed later.                                                       *)
InReach(t) ==
    CASE kind = "hub" -> AllNines(at.nums[1]) \/ Len(Digits(t.nums[1])) = Len(Digits(at.nums[1]))
      [] kind = "ghcr" -> \/ at \notin ToSet(pushed)
                          \/ \E i, j \in DOMAIN pushed : i < j /\ pushed[i] = at /\ pushed[j] = t
      [] OTHER -> TRUE

(* A check that was answered comes to its end.                              *)
Ends == walk.on /\ ~walk'.on /\ events' = events

(* A tag it should have said instead.                                       *)
Missed(t) ==
    /\ t \in walk.there /\ Shape(t) = Shape(at) /\ Above(t, at)
    /\ answer'.tag = NoTag \/ Above(t, answer'.tag)

(* "so that nothing newer than `ref.tag` is skipped" (versions.js:99): what *)
(* a check ends with is newer than what runs and comparable to it, and no   *)
(* comparable tag within reach that was there while it walked the pages is  *)
(* newer than that, whatever is published between two pages.                *)
NothingSkipped ==
    [][Ends =>
        /\ answer'.tag # NoTag => Shape(answer'.tag) = Shape(at) /\ Above(answer'.tag, at)
        /\ \A t \in Tags : InReach(t) => ~Missed(t)]_vars

(* Not so of those out of reach: a release line that goes on beside a newer *)
(* one is pushed after it, and 10 comes before 8.                           *)
NothingSkippedAtAll == [][Ends => \A t \in Tags : ~Missed(t)]_vars

(* A database is never moved to another major version. Nor is it told of the *)
(* next minor one, once there is a newer major: this does not hold.         *)
MinorsStillOffered ==
    [][Ends /\ answer'.blocked =>
        ~\E t \in walk.there :
            Shape(t) = Shape(at) /\ Above(t, at) /\ ~CrossesMajor(at, t)]_vars

=============================================================================
