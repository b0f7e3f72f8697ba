------------------------------ MODULE PageProofs ------------------------------
(***************************************************************************)
(* Why a chain of actions erases data exactly if its own dialog said so, and *)
(* why a dialog says Done only of what was done, for any number of apps and  *)
(* of clicks. The page has one flag for the box that is ticked and one handle*)
(* for the output; all chains share both. Two arguments meet here: a chain   *)
(* that no other dialog came beside has the flag and the handle to itself;   *)
(* and to a user who does not reach behind a dialog no second one is offered,*)
(* because the first lies over the page from the question to the end.        *)
(***************************************************************************)
EXTENDS Page, TLAPS, FiniteSetTheorems, SequenceTheorems

Active == {"sent", "working", "ok", "failed", "denied", "cut"}
Item == [id : Apps, act : {"install", "drop", "restart"}]
Chain == [at : Active \cup {"ask", "over"}, kind : {"batch", "single", "media", "quick"},
          todo : Seq(Item), ok : BOOLEAN, verb : {"none", "purge", "remove"},
          offers : BOOLEAN, ticked : BOOLEAN, failed : BOOLEAN]
ALayer == [of : Flows, what : {"ask", "running", "media", "done", "wrong"}]

Shape ==
    /\ erase \in BOOLEAN /\ reached \in BOOLEAN
    /\ pending \in [Apps -> {"no", "install", "remove"}]
    /\ flow \in [Flows -> Chain \cup {Idle}]
    /\ layers \in Seq(ALayer)

Drops(todo) == \E i \in DOMAIN todo : todo[i].act = "drop"

(* Each chain has something left to do, and those of the media set and the  *)
(* quick actions remove nothing.                                            *)
Todo ==
    \A f \in Flows : flow[f].at \in Active \cup {"ask"} =>
        /\ flow[f].todo # <<>>
        /\ flow[f].kind \in {"media", "quick"} => ~Drops(flow[f].todo) /\ flow[f].verb = "none"
        /\ flow[f].at = "ask" => flow[f].verb = "none" /\ flow[f].kind # "quick"

OkMeansOk == \A f \in Flows : flow[f] # Idle /\ flow[f].ok => ~flow[f].failed

(* While nobody reaches behind a dialog, a question, and a chain with a      *)
(* window of its own, lie over the page.                                     *)
Calm ==
    ~reached =>
        /\ mixed = {}
        /\ layers = <<>> \/ \E l \in ALayer : layers = <<l>>
        /\ \A f \in Flows :
             /\ flow[f].at = "ask" => layers = <<Layer(f, "ask")>>
             /\ flow[f].at \in Active /\ flow[f].kind \in {"batch", "single"} =>
                  layers = <<Layer(f, "running")>>

(* Two with a dialog at once are both mixed.                                *)
Alone == \A f, g \in Flows : HasDialog(f) /\ HasDialog(g) /\ f # g => f \in mixed

(* What the box said is what the flag says until the verb is read off it.   *)
AsTicked ==
    \A f \in Flows \ mixed : HasDialog(f) =>
        /\ flow[f].verb = "none" /\ Drops(flow[f].todo) => (erase <=> flow[f].ticked)
        /\ flow[f].verb # "none" => (flow[f].verb = "purge" <=> flow[f].ticked)

(* The handle is of a chain that goes on, and of none beside one that is    *)
(* alone.                                                                   *)
Handle ==
    /\ progress # NoFlow =>
         /\ progress \in Flows /\ flow[progress].at \in Active
         /\ flow[progress].kind \in {"batch", "single", "media"}
    /\ \A f \in Flows \ mixed :
         flow[f].at \in Active /\ flow[f].kind \in {"batch", "single"} => progress \in {f, NoFlow}

Clean == \A f \in Flows : flow[f].at \in {"idle", "ask"} => ~Shown(Layer(f, "done"))

IInv ==
    /\ Shape /\ Todo /\ OkMeansOk /\ Calm /\ Alone /\ AsTicked /\ Handle /\ Clean
    /\ SaysWhatHappened

-----------------------------------------------------------------------------
LEMMA IdleAt == Idle.at = "idle" /\ Idle \notin Chain
  BY DEF Idle, Chain

(* Who has a dialog, by what a chain is.                                    *)
LEMMA HasDialogIs ==
  ASSUME Shape, NEW f \in Flows
  PROVE  /\ HasDialog(f) <=> flow[f].at \in Active \cup {"ask"} /\ flow[f].kind \in {"batch", "single"}
         /\ HasDialog(f) => flow[f] \in Chain
  <1>1. CASE flow[f] = Idle
    BY <1>1, IdleAt DEF HasDialog, Active
  <1>2. CASE flow[f] \in Chain
    BY <1>2 DEF HasDialog, Chain, Active
  <1> QED
    BY <1>1, <1>2 DEF Shape

(* What a dialog that comes or goes leaves on the page.                     *)
LEMMA AppendShows ==
  ASSUME NEW s \in Seq(ALayer), NEW l \in ALayer
  PROVE  /\ Append(s, l) \in Seq(ALayer) /\ ToSet(Append(s, l)) = ToSet(s) \cup {l}
         /\ s = <<>> => Append(s, l) = <<l>>
  <1> DEFINE new == Append(s, l)
  <1>1. /\ new \in Seq(ALayer) /\ Len(new) = Len(s) + 1 /\ Len(s) \in Nat
        /\ \A i \in 1..Len(s) : new[i] = s[i]
        /\ new[Len(s) + 1] = l
    OBVIOUS
  <1>2. DOMAIN new = 1..(Len(s) + 1) /\ DOMAIN s = 1..Len(s)
    BY <1>1
  <1>3. ASSUME NEW x \in ToSet(new) PROVE x \in ToSet(s) \cup {l}
    <2>1. PICK i \in 1..(Len(s) + 1) : x = new[i]
      BY <1>2, <1>3 DEF ToSet
    <2>2. CASE i = Len(s) + 1
      BY <1>1, <2>1, <2>2
    <2>3. CASE i # Len(s) + 1
      <3>1. i \in 1..Len(s)
        BY <1>1, <2>3
      <3> QED
        BY <1>1, <1>2, <2>1, <3>1 DEF ToSet
    <2> QED
      BY <2>2, <2>3
  <1>4. ASSUME NEW x \in ToSet(s) \cup {l} PROVE x \in ToSet(new)
    <2>1. CASE x = l
      <3>1. Len(s) + 1 \in DOMAIN new
        BY <1>1, <1>2
      <3> QED
        BY <1>1, <2>1, <3>1 DEF ToSet
    <2>2. CASE x # l
      <3>1. PICK i \in 1..Len(s) : x = s[i]
        BY <1>2, <1>4, <2>2 DEF ToSet
      <3>2. i \in DOMAIN new
        BY <1>1, <1>2, <3>1
      <3> QED
        BY <1>1, <3>1, <3>2 DEF ToSet
    <2> QED
      BY <2>1, <2>2
  <1>5. s = <<>> => new = <<l>>
    OBVIOUS
  <1> QED
    BY <1>1, <1>3, <1>4, <1>5

LEMMA WithoutShows ==
  ASSUME layers \in Seq(ALayer), NEW l \in ALayer, Shown(l)
  PROVE  /\ Without(l) \in Seq(ALayer) /\ ToSet(Without(l)) \subseteq ToSet(layers)
         /\ \A m : layers = <<m>> => Without(l) = <<>>
  <1> DEFINE i == CHOOSE n \in DOMAIN layers : layers[n] = l
  <1>1. i \in 1..Len(layers)
    BY DEF Shown, ToSet
  <1>2. Without(l) = SubSeq(layers, 1, i - 1) \o SubSeq(layers, i + 1, Len(layers))
    BY DEF Without, RemoveAt
  <1> HIDE DEF i
  <1>a. Len(layers) \in Nat /\ i \in Nat /\ i - 1 \in Nat /\ i + 1 \in Nat
    BY <1>1
  <1> DEFINE before == SubSeq(layers, 1, i - 1)
             after == SubSeq(layers, i + 1, Len(layers))
  <1>b. /\ before \in Seq(ALayer) /\ Len(before) = i - 1
        /\ \A n \in 1..(i - 1) : before[n] = layers[n]
    BY <1>1, <1>a
  <1>c. /\ after \in Seq(ALayer) /\ Len(after) = Len(layers) - i
        /\ \A n \in 1..(Len(layers) - i) : after[n] = layers[n + i]
    <2>1. i + 1 \in Int /\ Len(layers) \in Int
      BY <1>a
    <2>2. \A n \in (i + 1)..Len(layers) : layers[n] \in ALayer
      BY <1>a, ElementOfSeq
    <2>3. /\ after \in Seq(ALayer)
          /\ Len(after) = IF i + 1 <= Len(layers) THEN Len(layers) - (i + 1) + 1 ELSE 0
          /\ \A n \in 1..(Len(layers) - (i + 1) + 1) : after[n] = layers[(i + 1) + n - 1]
      BY <2>1, <2>2, SubSeqProperties
    <2>4. Len(layers) - (i + 1) + 1 = Len(layers) - i /\ i <= Len(layers)
      BY <1>1, <1>a
    <2>5. ASSUME NEW n \in 1..(Len(layers) - i) PROVE after[n] = layers[n + i]
      <3>1. n \in 1..(Len(layers) - (i + 1) + 1)
        BY <2>4
      <3>2. (i + 1) + n - 1 = n + i
        BY <1>a
      <3>3. after[n] = layers[(i + 1) + n - 1]
        BY <2>3, <3>1
      <3> QED
        BY <3>2, <3>3
    <2>6. Len(after) = Len(layers) - i
      <3>1. CASE i + 1 <= Len(layers)
        BY <2>3, <2>4, <3>1
      <3>2. CASE ~(i + 1 <= Len(layers))
        <4>1. i = Len(layers)
          BY <1>1, <1>a, <3>2
        <4>2. Len(layers) - i = 0
          BY <1>a, <4>1
        <4>3. Len(after) = 0
          BY <2>3, <3>2
        <4> QED
          BY <4>2, <4>3
      <3> QED
        BY <3>1, <3>2
    <2> QED
      BY <2>3, <2>5, <2>6
  <1>2a. Without(l) = before \o after
    BY <1>2
  <1> HIDE DEF before, after
  <1>3. Without(l) \in Seq(ALayer)
    BY <1>2a, <1>b, <1>c
  <1>d. Len(Without(l)) = Len(layers) - 1
    <2>1. Len(Without(l)) = Len(before) + Len(after)
      BY <1>2a, <1>b, <1>c, ConcatProperties
    <2>2. (i - 1) + (Len(layers) - i) = Len(layers) - 1
      BY <1>a
    <2> QED
      BY <1>b, <1>c, <2>1, <2>2
  <1>4. \A n \in DOMAIN Without(l) :
          /\ n < i => Without(l)[n] = layers[n]
          /\ n >= i => Without(l)[n] = layers[n + 1] /\ n + 1 \in DOMAIN layers
    <2> TAKE n \in DOMAIN Without(l)
    <2>1. n \in 1..(Len(layers) - 1)
      BY <1>3, <1>d, <1>a
    <2>2. ASSUME n < i PROVE Without(l)[n] = layers[n]
      BY <1>2a, <1>b, <1>c, <1>a, <2>1, <2>2, ConcatProperties
    <2>3. ASSUME n >= i PROVE Without(l)[n] = layers[n + 1] /\ n + 1 \in DOMAIN layers
      <3>1. n - (i - 1) \in 1..(Len(layers) - i) /\ n - (i - 1) + i = n + 1
        BY <1>1, <1>a, <2>1, <2>3
      <3>2. n \in 1..Len(before) + Len(after) /\ ~(n <= Len(before))
        BY <1>b, <1>c, <1>a, <2>1, <2>3
      <3>3. Without(l)[n] = after[n - Len(before)]
        BY <1>2a, <1>b, <1>c, <3>2, ConcatProperties
      <3>4. Without(l)[n] = layers[n - (i - 1) + i]
        BY <1>b, <1>c, <3>1, <3>3
      <3>5. n + 1 \in 1..Len(layers)
        BY <1>a, <2>1
      <3> QED
        BY <3>1, <3>4, <3>5
    <2> QED
      BY <2>2, <2>3
  <1>5. ToSet(Without(l)) \subseteq ToSet(layers)
    <2> SUFFICES ASSUME NEW n \in DOMAIN Without(l) PROVE \E k \in DOMAIN layers : Without(l)[n] = layers[k]
      BY DEF ToSet
    <2>1. n \in 1..Len(Without(l)) /\ Len(Without(l)) = Len(layers) - 1
      BY <1>3, <1>d
    <2>2. n \in Nat /\ i \in Nat /\ n + 1 \in Nat
      BY <1>a, <2>1
    <2>3. CASE n < i
      <3>1. n \in DOMAIN layers
        BY <1>1, <2>1, <2>3
      <3> QED
        BY <1>4, <2>3, <3>1
    <2>4. CASE n >= i
      BY <1>4, <2>4
    <2> QED
      BY <2>2, <2>3, <2>4
  <1>6. ASSUME NEW m, layers = <<m>> PROVE Without(l) = <<>>
    <2>1. Len(layers) = 1 /\ i = 1
      BY <1>1, <1>6
    <2>2. Len(Without(l)) = 0
      BY <1>d, <2>1
    <2> QED
      BY <1>3, <2>2, EmptySeq
  <1> QED
    BY <1>3, <1>5, <1>6

(* The elements of a finite set, one after the other.                       *)
LEMMA SetToSeqType ==
  ASSUME NEW S, IsFiniteSet(S)
  PROVE  /\ SetToSeq(S) \in Seq(S) /\ Len(SetToSeq(S)) \in Nat
         /\ S # {} => Len(SetToSeq(S)) > 0
  <1>1. Cardinality(S) \in Nat /\ ExistsBijection(1..Cardinality(S), S)
    BY FS_CardinalityType
  <1>2. PICK g \in [1..Cardinality(S) -> S] : \A a, b \in 1..Cardinality(S) : g[a] = g[b] => a = b
    BY <1>1 DEF ExistsBijection, Bijection, Injection, IsInjective
  <1>3. IsInjective(g)
    BY <1>2 DEF IsInjective
  <1>4. SetToSeq(S) \in [1..Cardinality(S) -> S]
    BY <1>3 DEF SetToSeq
  <1>5. SetToSeq(S) \in Seq(S) /\ Len(SetToSeq(S)) = Cardinality(S)
    BY <1>1, <1>4
  <1>6. S # {} => Cardinality(S) # 0
    BY FS_EmptySet
  <1> QED
    BY <1>1, <1>5, <1>6

LEMMA ItemsType ==
  ASSUME NEW S \in SUBSET Apps, NEW act \in {"install", "drop", "restart"}
  PROVE  /\ Items(S, act) \in Seq(Item) /\ (S # {} => Items(S, act) # <<>>)
         /\ \A i \in DOMAIN Items(S, act) : Items(S, act)[i].act = act
  <1>1. IsFiniteSet(S)
    BY PageAssumption, FS_Subset
  <1>2. SetToSeq(S) \in Seq(S) /\ Len(SetToSeq(S)) \in Nat
        /\ (S # {} => Len(SetToSeq(S)) > 0)
    BY <1>1, SetToSeqType
  <1>3. \A i \in 1..Len(SetToSeq(S)) : SetToSeq(S)[i] \in Apps
    BY <1>2, ElementOfSeq
  <1>4. Items(S, act) \in [1..Len(SetToSeq(S)) -> Item]
    BY <1>3 DEF Items, Item
  <1>5. \A i \in DOMAIN Items(S, act) : Items(S, act)[i].act = act
    BY DEF Items
  <1>6. Items(S, act) \in Seq(Item) /\ Len(Items(S, act)) = Len(SetToSeq(S))
    BY <1>2, <1>4
  <1> QED
    BY <1>2, <1>5, <1>6, EmptySeq

-----------------------------------------------------------------------------
LEMMA InitHolds == Init => IInv
  <1> SUFFICES ASSUME Init PROVE IInv
    OBVIOUS
  <1>1. /\ layers = <<>> /\ mixed = {} /\ progress = NoFlow
        /\ \A f \in Flows : flow[f] = Idle /\ flow[f].at = "idle"
    BY IdleAt DEF Init
  <1>0. /\ erase = FALSE /\ reached = FALSE /\ pending = [a \in Apps |-> "no"]
        /\ flow = [f \in Flows |-> Idle]
    BY DEF Init
  <1>b. <<>> \in Seq(ALayer)
    OBVIOUS
  <1>c. flow \in [Flows -> Chain \cup {Idle}] /\ pending \in [Apps -> {"no", "install", "remove"}]
    BY <1>0
  <1>2. Shape
    BY <1>0, <1>1, <1>b, <1>c DEF Shape
  <1>9. \A f \in Flows : flow[f].at \notin Active \cup {"ask"}
    BY <1>1 DEF Active
  <1>5. Todo /\ OkMeansOk
    BY <1>1, <1>9 DEF Todo, OkMeansOk
  <1>6. Calm
    BY <1>1, <1>9 DEF Calm
  <1>7. \A f \in Flows : ~HasDialog(f)
    BY <1>1 DEF HasDialog
  <1>3. Alone /\ AsTicked
    BY <1>7 DEF Alone, AsTicked
  <1>8. Handle
    BY <1>1, <1>9 DEF Handle
  <1>4. Clean /\ SaysWhatHappened
    BY <1>1 DEF Clean, SaysWhatHappened, Shown, ToSet
  <1> QED
    BY <1>2, <1>3, <1>4, <1>5, <1>6, <1>8 DEF IInv

(* What is chosen, known or told, and what others do, is none of it.        *)
LEMMA OthersHold ==
  ASSUME IInv, UNCHANGED <<flow, layers, erase, progress, reached, mixed>>,
         pending' \in [Apps -> {"no", "install", "remove"}]
  PROVE  IInv'
  BY DEF IInv, Shape, Todo, OkMeansOk, Calm, Alone, AsTicked, Handle, Clean,
     SaysWhatHappened, HasDialog, Shown

(* A chain goes on without the page.                                        *)
LEMMA ServerHolds ==
  ASSUME IInv, NEW f \in Flows, flow[f].at \in {"sent", "working"},
         NEW at \in Active, flow' = [flow EXCEPT ![f].at = at],
         UNCHANGED <<layers, erase, pending, progress, reached, mixed>>
  PROVE  IInv'
  <1>1. flow[f] \in Chain
    BY IdleAt DEF IInv, Shape
  <1>2. flow'[f] = [flow[f] EXCEPT !.at = at] /\ \A g \in Flows \ {f} : flow'[g] = flow[g]
    BY DEF IInv, Shape
  <1>3. /\ flow'[f] \in Chain /\ flow'[f].at = at /\ flow'[f].kind = flow[f].kind
        /\ flow'[f].todo = flow[f].todo /\ flow'[f].verb = flow[f].verb
        /\ flow'[f].ticked = flow[f].ticked /\ flow'[f].ok = flow[f].ok
        /\ flow'[f].failed = flow[f].failed
    BY <1>1, <1>2 DEF Chain
  <1>4. flow[f].at \in Active /\ flow[f].at \notin {"over", "ask", "idle"}
        /\ at \notin {"over", "ask", "idle"}
    BY DEF Active
  <1>5. Shape'
    BY <1>2, <1>3 DEF IInv, Shape
  <1>6. Todo' /\ OkMeansOk'
    BY <1>1, <1>2, <1>3, <1>4, IdleAt DEF IInv, Todo, OkMeansOk, Drops
  <1>7. \A g \in Flows : HasDialog(g)' <=> HasDialog(g)
    BY <1>2, <1>3, <1>4 DEF HasDialog
  <1>8. Calm'
    BY <1>2, <1>3, <1>4 DEF IInv, Calm
  <1>9. Alone' /\ AsTicked'
    BY <1>2, <1>3, <1>7 DEF IInv, Alone, AsTicked, Drops
  <1>10. Handle'
    BY <1>2, <1>3, <1>4 DEF IInv, Handle
  <1>11. Clean' /\ SaysWhatHappened'
    BY <1>2, <1>4 DEF IInv, Clean, SaysWhatHappened, Shown
  <1> QED
    BY <1>5, <1>6, <1>8, <1>9, <1>10, <1>11 DEF IInv

(* Who stays alone beside a question, a tick or a window of another.        *)
LEMMA BesideIs ==
  ASSUME NEW f \in Flows, Beside(f)
  PROVE  /\ mixed \subseteq mixed'
         /\ \A g \in Flows \ {f} : HasDialog(g) => g \in mixed' /\ f \in mixed'
         /\ (\A g \in Flows \ {f} : ~HasDialog(g)) => mixed' = mixed
  <1> DEFINE others == {g \in Flows \ {f} : HasDialog(g)}
  <1>1. mixed' = IF others = {} THEN mixed ELSE mixed \cup others \cup {f}
    BY DEF Beside
  <1> QED
    BY <1>1

(* Two are never alone with a dialog at once, whatever f has become.        *)
LEMMA AloneHolds ==
  ASSUME Alone, NEW f \in Flows, Beside(f), \A g \in Flows \ {f} : flow'[g] = flow[g]
  PROVE  Alone'
  <1>1. /\ mixed \subseteq mixed'
        /\ \A g \in Flows \ {f} : HasDialog(g) => g \in mixed' /\ f \in mixed'
    BY BesideIs
  <1>2. \A g \in Flows \ {f} : HasDialog(g)' <=> HasDialog(g)
    BY DEF HasDialog
  <1> SUFFICES ASSUME NEW g \in Flows, NEW h \in Flows, HasDialog(g)', HasDialog(h)', g # h
               PROVE  g \in mixed'
    BY DEF Alone
  <1>3. CASE g = f
    BY <1>1, <1>2, <1>3
  <1>4. CASE g # f
    BY <1>1, <1>2, <1>4
  <1> QED
    BY <1>3, <1>4

LEMMA AskHolds ==
  ASSUME IInv, NEW f \in Flows, NEW kind \in {"batch", "single", "media"}, NEW todo \in Seq(Item),
         todo # <<>>, kind = "media" => ~Drops(todo), NEW offers \in BOOLEAN,
         Ask(f, kind, todo, offers)
  PROVE  IInv'
  <1> DEFINE q == [at |-> "ask", kind |-> kind, todo |-> todo, ok |-> TRUE, verb |-> "none",
                   offers |-> offers, ticked |-> FALSE, failed |-> FALSE]
             l == Layer(f, "ask")
  <1>1. /\ flow' = [flow EXCEPT ![f] = q] /\ flow[f] = Idle
        /\ layers' = Append(layers, l) /\ erase' = FALSE /\ UNCHANGED <<pending, progress>>
        /\ reached' = (reached \/ layers # <<>>) /\ Beside(f)
    BY DEF Ask, UsePage
  <1>2. flow'[f] = q /\ \A g \in Flows \ {f} : flow'[g] = flow[g]
    BY <1>1 DEF IInv, Shape
  <1>3. q \in Chain
    BY DEF Chain
  <1>4. l \in ALayer /\ layers \in Seq(ALayer)
    BY DEF ALayer, Layer, IInv, Shape
  <1>5. /\ layers' \in Seq(ALayer) /\ ToSet(layers') = ToSet(layers) \cup {l}
        /\ layers = <<>> => layers' = <<l>>
    BY <1>1, <1>4, AppendShows
  <1>6. /\ mixed \subseteq mixed'
        /\ \A g \in Flows \ {f} : HasDialog(g) => g \in mixed' /\ f \in mixed'
        /\ (\A g \in Flows \ {f} : ~HasDialog(g)) => mixed' = mixed
    BY <1>1, BesideIs
  <1>7. Shape'
    BY <1>1, <1>3, <1>5 DEF IInv, Shape
  <1>8. Todo' /\ OkMeansOk'
    BY <1>2 DEF IInv, Todo, OkMeansOk, Active
  <1>9. Calm'
    <2> SUFFICES ASSUME ~reached' PROVE mixed' = {} /\ layers' = <<l>>
                                       /\ \A g \in Flows \ {f} : flow[g].at \notin Active \cup {"ask"}
                                                                 \/ (flow[g].kind \in {"media", "quick"} /\ flow[g].at # "ask")
      <3>1. \A g \in Flows \ {f} : g # f
        OBVIOUS
      <3> QED
        BY <1>2, <1>4 DEF Calm, Active
    <2>1. ~reached /\ layers = <<>> /\ mixed = {}
      BY <1>1 DEF IInv, Calm, Shape
    <2>2. \A g \in Flows : /\ flow[g].at # "ask"
                           /\ ~(flow[g].at \in Active /\ flow[g].kind \in {"batch", "single"})
      BY <2>1 DEF IInv, Calm
    <2>3. \A g \in Flows : ~HasDialog(g)
      BY <2>2, HasDialogIs DEF IInv
    <2>4. \A g \in Flows : flow[g].at \in Active => flow[g].kind \in {"media", "quick"}
      <3>1. \A g \in Flows : flow[g].at \in Active => flow[g] \in Chain
        BY IdleAt DEF IInv, Shape, Active
      <3> QED
        BY <2>2, <3>1 DEF Chain
    <2> QED
      BY <1>5, <1>6, <2>1, <2>2, <2>3, <2>4
  <1>10. Alone'
    BY <1>1, <1>2, AloneHolds DEF IInv
  <1>11. AsTicked'
    <2>1. \A g \in Flows \ {f} : HasDialog(g)' <=> HasDialog(g)
      BY <1>2 DEF HasDialog
    <2>2. \A g \in (Flows \ mixed') : HasDialog(g)' => g = f
      BY <1>6, <2>1
    <2>3. flow'[f].verb = "none" /\ (erase' <=> flow'[f].ticked)
      BY <1>1, <1>2
    <2> QED
      BY <2>2, <2>3 DEF AsTicked
  <1>12. Handle'
    BY <1>1, <1>2, <1>6, IdleAt DEF IInv, Handle, Active
  <1>13. \A g \in Flows : Shown(Layer(g, "done"))' => Shown(Layer(g, "done"))
    BY <1>5 DEF Shown, Layer
  <1>14. Clean' /\ SaysWhatHappened'
    BY <1>1, <1>2, <1>6, <1>13, IdleAt DEF IInv, Clean, SaysWhatHappened
  <1> QED
    BY <1>7, <1>8, <1>9, <1>10, <1>11, <1>12, <1>14 DEF IInv

LEMMA AsksHold ==
  ASSUME IInv, NEW f \in Flows, AskBatch(f) \/ AskMedia(f) \/ \E a \in Apps : AskRemove(f, a)
  PROVE  IInv'
  <1>2. CASE AskBatch(f)
    <2> DEFINE todo == Items(Queued("install"), "install") \o Items(Queued("remove"), "drop")
               offers == Queued("remove") \cap seen.apps # {}
    <2>1. /\ Items(Queued("install"), "install") \in Seq(Item)
          /\ Items(Queued("remove"), "drop") \in Seq(Item)
          /\ Queued("install") # {} => Items(Queued("install"), "install") # <<>>
          /\ Queued("remove") # {} => Items(Queued("remove"), "drop") # <<>>
      BY ItemsType DEF Queued
    <2>2. Queued("install") # {} \/ Queued("remove") # {}
      BY <1>2 DEF AskBatch, Bar, Queued, IInv, Shape
    <2>3. todo \in Seq(Item) /\ todo # <<>>
      BY <2>1, <2>2, ConcatProperties, ConcatSimplifications
    <2>4. Ask(f, "batch", todo, offers)
      BY <1>2 DEF AskBatch
    <2>5. offers \in BOOLEAN
      OBVIOUS
    <2> HIDE DEF todo, offers
    <2> QED
      BY <2>3, <2>4, <2>5, AskHolds
  <1>3. CASE AskMedia(f)
    <2>1. PICK apps \in SUBSET ((MediaSet \cap seen.apps) \ seen.have) :
            apps # {} /\ Ask(f, "media", Items(apps, "install"), FALSE)
      BY <1>3 DEF AskMedia
    <2>2. /\ Items(apps, "install") \in Seq(Item) /\ Items(apps, "install") # <<>>
          /\ \A i \in DOMAIN Items(apps, "install") : Items(apps, "install")[i].act = "install"
      BY <2>1, ItemsType, PageAssumption
    <2>3. ~Drops(Items(apps, "install"))
      BY <2>2 DEF Drops
    <2> QED
      BY <2>1, <2>2, <2>3, AskHolds
  <1>4. ASSUME NEW a \in Apps, AskRemove(f, a) PROVE IInv'
    <2>1. <<[id |-> a, act |-> "drop"]>> \in Seq(Item) /\ <<[id |-> a, act |-> "drop"]>> # <<>>
      BY DEF Item
    <2>2. Ask(f, "single", <<[id |-> a, act |-> "drop"]>>, TRUE)
      BY <1>4 DEF AskRemove
    <2> QED
      BY <2>1, <2>2, AskHolds
  <1> QED
    BY <1>2, <1>3, <1>4

LEMMA TickHolds == ASSUME IInv, NEW f \in Flows, Tick(f) PROVE IInv'
  <1> DEFINE q == [flow[f] EXCEPT !.ticked = ~flow[f].ticked]
  <1>1. /\ flow[f].at = "ask" /\ UNCHANGED <<layers, pending, progress>>
        /\ flow' = [flow EXCEPT ![f] = q] /\ erase' = ~flow[f].ticked
        /\ reached' = (reached \/ Last(layers) # Layer(f, "ask")) /\ Beside(f)
    BY DEF Tick, Use
  <1>2. flow'[f] = q /\ \A g \in Flows \ {f} : flow'[g] = flow[g]
    BY <1>1 DEF IInv, Shape
  <1>3. flow[f] \in Chain
    BY <1>1, IdleAt DEF IInv, Shape
  <1>4. /\ q \in Chain /\ q.at = "ask" /\ q.kind = flow[f].kind /\ q.todo = flow[f].todo
        /\ q.verb = flow[f].verb /\ q.ok = flow[f].ok /\ q.failed = flow[f].failed
        /\ q.ticked = ~flow[f].ticked
    BY <1>1, <1>3 DEF Chain
  <1>5. flow'[f].ticked <=> erase'
    BY <1>1, <1>2, <1>4
  <1> HIDE DEF q
  <1>6. /\ mixed \subseteq mixed'
        /\ \A g \in Flows \ {f} : HasDialog(g) => g \in mixed' /\ f \in mixed'
        /\ (\A g \in Flows \ {f} : ~HasDialog(g)) => mixed' = mixed
    BY <1>1, BesideIs
  <1>7. Shape'
    BY <1>1, <1>2, <1>3, <1>4 DEF IInv, Shape, Chain
  <1>8. Todo' /\ OkMeansOk'
    BY <1>1, <1>2, <1>3, <1>4, IdleAt DEF IInv, Todo, OkMeansOk, Active
  <1>9. Calm'
    <2> SUFFICES ASSUME ~reached' PROVE mixed' = mixed
      BY <1>1, <1>2, <1>4 DEF IInv, Calm, Active
    <2>1. layers = <<Layer(f, "ask")>>
      BY <1>1 DEF IInv, Calm
    <2>2. \A g \in Flows \ {f} : ~HasDialog(g)
      <3>1. \A g \in Flows \ {f} : layers # <<Layer(g, "ask")>> /\ layers # <<Layer(g, "running")>>
        BY <2>1 DEF Layer
      <3> QED
        BY <1>1, <3>1, HasDialogIs DEF IInv, Calm
    <2> QED
      BY <1>6, <2>2
  <1>10. Alone'
    BY <1>1, <1>2, AloneHolds DEF IInv
  <1>11. AsTicked'
    <2>1. \A g \in Flows \ {f} : HasDialog(g)' <=> HasDialog(g)
      BY <1>2 DEF HasDialog
    <2>2. \A g \in (Flows \ mixed') : HasDialog(g)' => g = f
      BY <1>6, <2>1
    <2>3. flow'[f].verb = "none"
      BY <1>1, <1>2, <1>4 DEF IInv, Todo
    <2> QED
      BY <1>5, <2>2, <2>3 DEF AsTicked
  <1>12. Handle'
    BY <1>1, <1>2, <1>4, <1>6 DEF IInv, Handle, Active
  <1>13. Clean' /\ SaysWhatHappened'
    BY <1>1, <1>2, <1>4, <1>6 DEF IInv, Clean, SaysWhatHappened, Shown
  <1> QED
    BY <1>7, <1>8, <1>9, <1>10, <1>11, <1>12, <1>13 DEF IInv

LEMMA CancelHolds == ASSUME IInv, NEW f \in Flows, Cancel(f) PROVE IInv'
  <1> DEFINE l == Layer(f, "ask")
  <1>1. /\ flow[f].at = "ask" /\ flow' = [flow EXCEPT ![f] = Idle] /\ mixed' = mixed \ {f}
        /\ layers' = Without(l) /\ Shown(l) /\ UNCHANGED <<erase, pending, progress, reached>>
    BY DEF Cancel
  <1>2. flow'[f] = Idle /\ \A g \in Flows \ {f} : flow'[g] = flow[g]
    BY <1>1 DEF IInv, Shape
  <1>3. l \in ALayer /\ layers \in Seq(ALayer)
    BY DEF ALayer, Layer, IInv, Shape
  <1>4. /\ layers' \in Seq(ALayer) /\ ToSet(layers') \subseteq ToSet(layers)
        /\ \A m : layers = <<m>> => layers' = <<>>
    BY <1>1, <1>3, WithoutShows
  <1>5. Shape'
    BY <1>1, <1>4 DEF IInv, Shape
  <1>6. Todo' /\ OkMeansOk'
    BY <1>2, IdleAt DEF IInv, Todo, OkMeansOk, Active
  <1>7. Calm'
    <2> SUFFICES ASSUME ~reached
                 PROVE  /\ mixed' = {} /\ layers' = <<>>
                        /\ \A g \in Flows \ {f} :
                             /\ flow[g].at # "ask"
                             /\ ~(flow[g].at \in Active /\ flow[g].kind \in {"batch", "single"})
      BY <1>1, <1>2, IdleAt DEF Calm, Active
    <2>1. layers = <<l>> /\ mixed = {}
      BY <1>1 DEF IInv, Calm
    <2>2. \A g \in Flows \ {f} : layers # <<Layer(g, "ask")>> /\ layers # <<Layer(g, "running")>>
      BY <2>1 DEF Layer
    <2> QED
      BY <1>1, <1>4, <2>1, <2>2 DEF IInv, Calm
  <1>8. \A g \in Flows : HasDialog(g)' => g # f /\ HasDialog(g)
    BY <1>2, IdleAt DEF HasDialog
  <1>9. Alone' /\ AsTicked'
    BY <1>1, <1>2, <1>8 DEF IInv, Alone, AsTicked, Drops
  <1>10. Handle'
    BY <1>1, <1>2, IdleAt DEF IInv, Handle, Active
  <1>11. \A g \in Flows : Shown(Layer(g, "done"))' => Shown(Layer(g, "done"))
    BY <1>4 DEF Shown, Layer
  <1>12. Clean' /\ SaysWhatHappened'
    BY <1>1, <1>2, <1>11, IdleAt DEF IInv, Clean, SaysWhatHappened
  <1> QED
    BY <1>5, <1>6, <1>7, <1>9, <1>10, <1>12 DEF IInv

(* Where a chain asks for its next action: what its verb then is.           *)
LEMMA RequestIs ==
  ASSUME NEW q \in Chain, q.todo # <<>>, erase \in BOOLEAN
  PROVE  /\ Request(q) \in Chain /\ Request(q).at = "sent"
         /\ Request(q).kind = q.kind /\ Request(q).todo = q.todo /\ Request(q).ok = q.ok
         /\ Request(q).failed = q.failed /\ Request(q).ticked = q.ticked
         /\ \/ Request(q).verb = q.verb
            \/ Drops(q.todo) /\ q.verb = "none" /\ Request(q).verb = IF erase THEN "purge" ELSE "remove"
  <1>1. q.todo \in Seq(Item) /\ Len(q.todo) \in Nat \ {0} /\ 1 \in DOMAIN q.todo
    BY EmptySeq, LenProperties DEF Chain
  <1>2. Head(q.todo) = q.todo[1]
    BY <1>1, HeadTailProperties
  <1>3. CASE Head(q.todo).act # "drop"
    BY <1>3 DEF Request, Chain, Active
  <1>4. CASE Head(q.todo).act = "drop"
    <2>1. Drops(q.todo)
      BY <1>1, <1>2, <1>4 DEF Drops
    <2>2. Request(q) = [q EXCEPT !.at = "sent", !.verb = Verb(q)]
      BY <1>4 DEF Request
    <2>3. Verb(q) = q.verb \/ (q.verb = "none" /\ Verb(q) = IF erase THEN "purge" ELSE "remove")
      BY DEF Verb
    <2>4. Verb(q) \in {"none", "purge", "remove"}
      BY <2>3 DEF Chain
    <2> HIDE DEF Verb
    <2> QED
      BY <2>1, <2>2, <2>3, <2>4 DEF Chain, Active
  <1> QED
    BY <1>3, <1>4

LEMMA WindowIs == \A kind : Window(kind) \in {"media", "running"}
  BY DEF Window

LEMMA AgreeHolds == ASSUME IInv, NEW f \in Flows, Agree(f) PROVE IInv'
  <1> DEFINE q == flow[f]
             l == Layer(f, "ask")
             w == Layer(f, Window(q.kind))
  <1>1. /\ q.at = "ask" /\ Shown(l) /\ flow' = [flow EXCEPT ![f] = Request(q)]
        /\ layers' = Append(Without(l), w) /\ progress' = f /\ UNCHANGED erase
        /\ pending' = IF q.kind = "batch" THEN [a \in Apps |-> "no"] ELSE pending
        /\ reached' = (reached \/ Last(layers) # l) /\ Beside(f)
    BY DEF Agree, Use
  <1>2. /\ flow'[f] = Request(q) /\ \A g \in Flows \ {f} : flow'[g] = flow[g]
    BY <1>1 DEF IInv, Shape
  <1>3. /\ q \in Chain /\ erase \in BOOLEAN /\ q.todo # <<>> /\ q.verb = "none" /\ q # Idle
        /\ q.kind # "quick"
        /\ q.kind = "media" => ~Drops(q.todo)
    BY <1>1, IdleAt DEF IInv, Shape, Todo
  <1>4. /\ Request(q) \in Chain /\ Request(q).at = "sent"
        /\ Request(q).kind = q.kind /\ Request(q).todo = q.todo /\ Request(q).ok = q.ok
        /\ Request(q).failed = q.failed /\ Request(q).ticked = q.ticked
        /\ \/ Request(q).verb = q.verb
           \/ Drops(q.todo) /\ q.verb = "none" /\ Request(q).verb = IF erase THEN "purge" ELSE "remove"
    BY <1>3, RequestIs
  <1>5. l \in ALayer /\ w \in ALayer /\ layers \in Seq(ALayer)
    BY WindowIs DEF ALayer, Layer, IInv, Shape
  <1>6. /\ Without(l) \in Seq(ALayer) /\ ToSet(Without(l)) \subseteq ToSet(layers)
        /\ \A m : layers = <<m>> => Without(l) = <<>>
    BY <1>1, <1>5, WithoutShows
  <1>7. /\ layers' \in Seq(ALayer) /\ ToSet(layers') = ToSet(Without(l)) \cup {w}
        /\ Without(l) = <<>> => layers' = <<w>>
    BY <1>1, <1>5, <1>6, AppendShows
  <1>8. /\ mixed \subseteq mixed'
        /\ \A g \in Flows \ {f} : HasDialog(g) => g \in mixed' /\ f \in mixed'
        /\ (\A g \in Flows \ {f} : ~HasDialog(g)) => mixed' = mixed
    BY <1>1, BesideIs
  <1>9. \A g \in Flows : HasDialog(g)' <=> HasDialog(g)
    BY <1>1, <1>2, <1>4 DEF HasDialog
  <1>10. Alone'
    BY <1>1, <1>2, AloneHolds DEF IInv
  <1> HIDE DEF q, w, Request
  <1>q. q = flow[f] /\ w = Layer(f, Window(q.kind))
    BY DEF q, w
  <1>11. Shape'
    <2>1. flow' \in [Flows -> Chain \cup {Idle}]
      BY <1>1, <1>4 DEF IInv, Shape
    <2>2. pending' \in [Apps -> {"no", "install", "remove"}] /\ reached' \in BOOLEAN
      BY <1>1 DEF IInv, Shape
    <2> QED
      BY <1>1, <1>3, <1>7, <2>1, <2>2 DEF Shape
  <1>12. Todo'
    <2>1. /\ flow'[f].at = "sent" /\ flow'[f].todo # <<>>
          /\ flow'[f].kind \in {"media", "quick"} => ~Drops(flow'[f].todo) /\ flow'[f].verb = "none"
      BY <1>2, <1>3, <1>4
    <2> QED
      BY <1>2, <2>1 DEF IInv, Todo
  <1>13. OkMeansOk'
    BY <1>1, <1>2, <1>3, <1>4, <1>q DEF IInv, OkMeansOk
  <1>14. Calm'
    <2> SUFFICES ASSUME ~reached'
                 PROVE  /\ mixed' = {} /\ layers' = <<w>>
                        /\ q.kind \in {"batch", "single"} => w = Layer(f, "running")
                        /\ \A g \in Flows \ {f} :
                             /\ flow[g].at # "ask"
                             /\ ~(flow[g].at \in Active /\ flow[g].kind \in {"batch", "single"})
      BY <1>2, <1>4, <1>5 DEF Calm
    <2>1. layers = <<l>> /\ mixed = {} /\ ~reached
      BY <1>1, <1>q DEF IInv, Calm
    <2>2. \A g \in Flows \ {f} : layers # <<Layer(g, "ask")>> /\ layers # <<Layer(g, "running")>>
      BY <2>1 DEF Layer
    <2>3. \A g \in Flows \ {f} :
            /\ flow[g].at # "ask"
            /\ ~(flow[g].at \in Active /\ flow[g].kind \in {"batch", "single"})
      BY <2>1, <2>2 DEF IInv, Calm
    <2>4. \A g \in Flows \ {f} : ~HasDialog(g)
      BY <2>3, HasDialogIs DEF IInv
    <2> QED
      BY <1>6, <1>7, <1>8, <1>q, <2>1, <2>3, <2>4 DEF Window
  <1>15. AsTicked'
    <2>1. \A g \in Flows \ mixed' : HasDialog(g)' => g = f /\ f \notin mixed /\ HasDialog(f)
      BY <1>8, <1>9
    <2>2. ASSUME f \notin mixed, HasDialog(f)
          PROVE  /\ flow'[f].verb = "none" /\ Drops(flow'[f].todo) => (erase' <=> flow'[f].ticked)
                 /\ flow'[f].verb # "none" => (flow'[f].verb = "purge" <=> flow'[f].ticked)
      <3>1. Drops(q.todo) => (erase <=> q.ticked)
        BY <1>3, <1>q, <2>2 DEF IInv, AsTicked
      <3>2. flow'[f].verb # "none" => Drops(q.todo) /\ (flow'[f].verb = "purge" <=> erase)
        BY <1>2, <1>3, <1>4
      <3>3. flow'[f].ticked = q.ticked /\ flow'[f].todo = q.todo /\ erase' = erase
        BY <1>1, <1>2, <1>4
      <3>4. flow'[f].verb # "none" => (flow'[f].verb = "purge" <=> q.ticked)
        BY <3>1, <3>2, Zenon
      <3> QED
        BY <3>1, <3>3, <3>4, Zenon
    <2> QED
      BY <2>1, <2>2 DEF AsTicked
  <1>16. Handle'
    <2>1. q.kind \in {"batch", "single", "media"}
      BY <1>3 DEF Chain
    <2>2. progress' \in Flows /\ flow'[progress'].at \in Active
          /\ flow'[progress'].kind \in {"batch", "single", "media"}
      BY <1>1, <1>2, <1>4, <2>1 DEF Active
    <2>3. ASSUME NEW g \in Flows \ mixed', flow'[g].at \in Active,
                 flow'[g].kind \in {"batch", "single"}
          PROVE  g = f
      <3> SUFFICES ASSUME g # f PROVE FALSE
        OBVIOUS
      <3>1. HasDialog(g)
        BY <1>2, <2>3, HasDialogIs DEF IInv
      <3> QED
        BY <1>8, <3>1
    <2> QED
      BY <1>1, <2>2, <2>3 DEF Handle
  <1>17. \A g \in Flows : Shown(Layer(g, "done"))' => Shown(Layer(g, "done"))
    BY <1>6, <1>7, <1>q, WindowIs DEF Shown, Layer
  <1>18. Clean'
    BY <1>2, <1>4, <1>17 DEF IInv, Clean
  <1>19. SaysWhatHappened'
    BY <1>1, <1>2, <1>8, <1>17, <1>q DEF IInv, Clean, SaysWhatHappened
  <1> QED
    BY <1>10, <1>11, <1>12, <1>13, <1>14, <1>15, <1>16, <1>18, <1>19 DEF IInv

(* What is done without a question: an erasing is confirmed behind a prompt,*)
(* and a restart has no window.                                             *)
LEMMA RunNowHolds == ASSUME IInv, NEW f \in Flows, NEW a \in Apps, RunNow(f, a) PROVE IInv'
  <1>1. PICK act \in {"install", "drop", "restart"} :
          /\ flow' = [flow EXCEPT ![f] =
               [at |-> "sent", kind |-> IF act = "restart" THEN "quick" ELSE "single",
                todo |-> <<[id |-> a, act |-> act]>>, ok |-> TRUE,
                verb |-> IF act = "drop" THEN "purge" ELSE "none",
                offers |-> FALSE, ticked |-> act = "drop", failed |-> FALSE]]
          /\ IF act = "restart" THEN UNCHANGED <<layers, progress, mixed>>
             ELSE /\ layers' = Append(layers, Layer(f, "running"))
                  /\ progress' = f /\ Beside(f)
    BY DEF RunNow
  <1> DEFINE todo == <<[id |-> a, act |-> act]>>
             kind == IF act = "restart" THEN "quick" ELSE "single"
             verb == IF act = "drop" THEN "purge" ELSE "none"
             ticked == act = "drop"
             q == [at |-> "sent", kind |-> kind, todo |-> todo, ok |-> TRUE, verb |-> verb,
                   offers |-> FALSE, ticked |-> ticked, failed |-> FALSE]
             l == Layer(f, "running")
  <1>2. flow[f] = Idle /\ reached' = (reached \/ layers # <<>>) /\ UNCHANGED <<erase, pending>>
    BY DEF RunNow, UsePage
  <1>3. todo \in Seq(Item) /\ todo # <<>> /\ (act # "drop" => ~Drops(todo))
    BY DEF Item, Drops
  <1>4. /\ kind \in {"quick", "single"} /\ (kind = "quick" <=> act = "restart")
        /\ verb \in {"none", "purge"} /\ (verb = "purge" <=> act = "drop")
        /\ ticked \in BOOLEAN /\ (ticked <=> act = "drop")
    OBVIOUS
  <1>5. flow' = [flow EXCEPT ![f] = q]
    BY <1>1
  <1> HIDE DEF todo, kind, verb, ticked
  <1>6. q \in Chain
    BY <1>3, <1>4 DEF Chain, Active
  <1>7. /\ q.at = "sent" /\ q.kind = kind /\ q.todo = todo /\ q.ok = TRUE /\ q.verb = verb
        /\ q.ticked = ticked /\ q.failed = FALSE
    OBVIOUS
  <1> HIDE DEF q
  <1>8. flow'[f] = q /\ \A g \in Flows \ {f} : flow'[g] = flow[g]
    BY <1>5 DEF IInv, Shape
  <1>9. l \in ALayer /\ layers \in Seq(ALayer)
    BY DEF ALayer, Layer, IInv, Shape
  <1>10. /\ layers' \in Seq(ALayer) /\ ToSet(layers') \subseteq ToSet(layers) \cup {l}
         /\ layers = <<>> => layers' = <<>> \/ layers' = <<l>>
         /\ layers = <<>> /\ act # "restart" => layers' = <<l>>
    <2>1. /\ Append(layers, l) \in Seq(ALayer) /\ ToSet(Append(layers, l)) = ToSet(layers) \cup {l}
          /\ layers = <<>> => Append(layers, l) = <<l>>
      BY <1>9, AppendShows
    <2> QED
      BY <1>1, <1>9, <2>1
  <1>11. /\ mixed \subseteq mixed'
         /\ act # "restart" => \A g \in Flows \ {f} : HasDialog(g) => g \in mixed' /\ f \in mixed'
         /\ (\A g \in Flows \ {f} : ~HasDialog(g)) => mixed' = mixed
    <2>1. CASE act = "restart"
      BY <1>1, <2>1
    <2>2. CASE act # "restart"
      BY <1>1, <2>2, BesideIs
    <2> QED
      BY <2>1, <2>2
  <1>12. Shape'
    BY <1>2, <1>5, <1>6, <1>10 DEF IInv, Shape
  <1>13. Todo' /\ OkMeansOk'
    BY <1>3, <1>4, <1>7, <1>8 DEF IInv, Todo, OkMeansOk
  <1>14. Calm'
    <2> SUFFICES ASSUME ~reached'
                 PROVE  /\ mixed' = {}
                        /\ layers' = <<>> \/ layers' = <<l>>
                        /\ kind = "single" => layers' = <<l>>
                        /\ \A g \in Flows \ {f} :
                             /\ flow[g].at # "ask"
                             /\ ~(flow[g].at \in Active /\ flow[g].kind \in {"batch", "single"})
      BY <1>4, <1>7, <1>8, <1>9 DEF Calm
    <2>1. ~reached /\ layers = <<>> /\ mixed = {}
      BY <1>2 DEF IInv, Calm, Shape
    <2>2. \A g \in Flows : /\ flow[g].at # "ask"
                           /\ ~(flow[g].at \in Active /\ flow[g].kind \in {"batch", "single"})
      BY <2>1 DEF IInv, Calm
    <2>3. \A g \in Flows : ~HasDialog(g)
      BY <2>2, HasDialogIs DEF IInv
    <2> QED
      BY <1>4, <1>10, <1>11, <2>1, <2>2, <2>3
  <1>15. HasDialog(f)' <=> act # "restart"
    BY <1>4, <1>7, <1>8 DEF HasDialog
  <1>16. \A g \in Flows \ {f} : HasDialog(g)' <=> HasDialog(g)
    BY <1>8 DEF HasDialog
  <1>17. ~HasDialog(f)
    BY <1>2, IdleAt DEF HasDialog
  <1>18. Alone'
    <2>1. CASE act = "restart"
      BY <1>11, <1>15, <1>16, <2>1 DEF IInv, Alone
    <2>2. CASE act # "restart"
      BY <1>1, <1>8, <2>2, AloneHolds DEF IInv
    <2> QED
      BY <2>1, <2>2
  <1>19. AsTicked'
    <2>1. ASSUME NEW g \in Flows \ mixed', HasDialog(g)', g # f
          PROVE  HasDialog(g) /\ g \notin mixed /\ flow'[g] = flow[g]
      BY <1>8, <1>11, <1>16, <2>1
    <2>2. /\ flow'[f].verb = "none" => ~Drops(flow'[f].todo)
          /\ flow'[f].verb # "none" => (flow'[f].verb = "purge" <=> flow'[f].ticked)
      <3>1. flow'[f].verb = verb /\ flow'[f].todo = todo /\ flow'[f].ticked = ticked
        BY <1>7, <1>8
      <3>2. verb # "none" => verb = "purge"
        BY <1>4
      <3> QED
        BY <1>3, <1>4, <3>1, <3>2, Zenon
    <2> QED
      BY <1>2, <2>1, <2>2 DEF IInv, AsTicked
  <1>20. Handle'
    <2>1. CASE act = "restart"
      BY <1>1, <1>2, <1>4, <1>7, <1>8, <1>11, <2>1, IdleAt DEF IInv, Handle, Active
    <2>2. CASE act # "restart"
      <3>1. progress' = f /\ flow'[f].at \in Active /\ flow'[f].kind = "single"
        BY <1>1, <1>4, <1>7, <1>8, <2>2 DEF Active
      <3>2. ASSUME NEW g \in Flows \ mixed', flow'[g].at \in Active,
                   flow'[g].kind \in {"batch", "single"}
            PROVE  g = f
        <4> SUFFICES ASSUME g # f PROVE FALSE
          OBVIOUS
        <4>1. HasDialog(g)
          BY <1>8, <3>2, HasDialogIs DEF IInv
        <4> QED
          BY <1>11, <2>2, <4>1
      <3> QED
        BY <3>1, <3>2 DEF Handle
    <2> QED
      BY <2>1, <2>2
  <1>21. \A g \in Flows : Shown(Layer(g, "done"))' => Shown(Layer(g, "done"))
    BY <1>10 DEF Shown, Layer
  <1>22. Clean'
    BY <1>7, <1>8, <1>21 DEF IInv, Clean
  <1>23. SaysWhatHappened'
    <2>1. ~Shown(Layer(f, "done"))
      BY <1>2, IdleAt DEF IInv, Clean
    <2> QED
      BY <1>8, <1>11, <1>21, <2>1 DEF IInv, SaysWhatHappened
  <1> QED
    BY <1>12, <1>13, <1>14, <1>18, <1>19, <1>20, <1>22, <1>23 DEF IInv

(* A chain goes on with what is left of it, or is over.                     *)
LEMMA NextItem ==
  ASSUME IInv, NEW f \in Flows, flow[f].at \in {"ok", "failed", "denied", "cut"},
         NEW q \in Chain, q.kind = flow[f].kind, q.todo = Tail(flow[f].todo),
         q.verb = flow[f].verb, q.ticked = flow[f].ticked, q.ok => ~q.failed, q.todo # <<>>,
         flow' = [flow EXCEPT ![f] = Request(q)],
         UNCHANGED <<layers, erase, pending, progress, reached, mixed>>
  PROVE  IInv'
  <1>1. /\ flow[f] \in Chain /\ flow[f].at \in Active /\ erase \in BOOLEAN
        /\ flow[f].at \notin {"ask", "over", "idle"}
    BY IdleAt DEF IInv, Shape, Active
  <1>2. flow'[f] = Request(q) /\ \A g \in Flows \ {f} : flow'[g] = flow[g]
    BY DEF IInv, Shape
  <1>3. Drops(q.todo) => Drops(flow[f].todo)
    <2>1. flow[f].todo \in Seq(Item) /\ flow[f].todo # <<>>
      BY <1>1 DEF Chain, IInv, Todo
    <2>2. \A i \in DOMAIN q.todo : i + 1 \in DOMAIN flow[f].todo /\ q.todo[i] = flow[f].todo[i + 1]
      BY <2>1
    <2> QED
      BY <2>2 DEF Drops
  <1>4. /\ Request(q) \in Chain /\ Request(q).at = "sent"
        /\ Request(q).kind = q.kind /\ Request(q).todo = q.todo /\ Request(q).ok = q.ok
        /\ Request(q).failed = q.failed /\ Request(q).ticked = q.ticked
        /\ \/ Request(q).verb = q.verb
           \/ Drops(q.todo) /\ q.verb = "none" /\ Request(q).verb = IF erase THEN "purge" ELSE "remove"
    BY <1>1, RequestIs
  <1> HIDE DEF Request
  <1>5. Shape'
    BY <1>4 DEF IInv, Shape
  <1>6. Todo'
    <2>1. q.kind \in {"media", "quick"} => ~Drops(q.todo) /\ Request(q).verb = "none"
      BY <1>1, <1>3, <1>4 DEF IInv, Todo
    <2>2. /\ flow'[f].at = "sent" /\ flow'[f].todo # <<>>
          /\ flow'[f].kind \in {"media", "quick"} => ~Drops(flow'[f].todo) /\ flow'[f].verb = "none"
      BY <1>2, <1>4, <2>1
    <2> QED
      BY <1>2, <2>2 DEF IInv, Todo
  <1>7. OkMeansOk'
    BY <1>2, <1>4 DEF IInv, OkMeansOk
  <1>8. Calm'
    BY <1>1, <1>2, <1>4 DEF IInv, Calm
  <1>9. \A g \in Flows : HasDialog(g)' <=> HasDialog(g)
    BY <1>1, <1>2, <1>4 DEF HasDialog
  <1>10. Alone'
    BY <1>9 DEF IInv, Alone
  <1>11. AsTicked'
    <2>1. ASSUME f \notin mixed, HasDialog(f)
          PROVE  /\ flow'[f].verb = "none" /\ Drops(flow'[f].todo) => (erase' <=> flow'[f].ticked)
                 /\ flow'[f].verb # "none" => (flow'[f].verb = "purge" <=> flow'[f].ticked)
      <3>1. /\ flow[f].verb = "none" /\ Drops(q.todo) => (erase <=> flow[f].ticked)
            /\ flow[f].verb # "none" => (flow[f].verb = "purge" <=> flow[f].ticked)
        BY <1>3, <2>1 DEF IInv, AsTicked
      <3>2. /\ flow'[f].verb = "none" => flow[f].verb = "none"
            /\ flow'[f].verb # "none" =>
                 \/ flow'[f].verb = flow[f].verb
                 \/ flow[f].verb = "none" /\ Drops(q.todo) /\ (flow'[f].verb = "purge" <=> erase)
        <4>1. /\ flow'[f].verb = Request(q).verb /\ q.verb = flow[f].verb
          BY <1>2
        <4>2. CASE Request(q).verb = q.verb
          BY <4>1, <4>2
        <4>3. CASE Drops(q.todo) /\ q.verb = "none"
                   /\ Request(q).verb = IF erase THEN "purge" ELSE "remove"
          BY <4>1, <4>3
        <4> QED
          BY <1>4, <4>2, <4>3
      <3>3. flow'[f].ticked = flow[f].ticked /\ flow'[f].todo = q.todo /\ erase' = erase
        BY <1>2, <1>4
      <3>4. CASE flow[f].verb = "none"
        <4>1. flow'[f].verb # "none" => Drops(q.todo) /\ (flow'[f].verb = "purge" <=> erase)
          BY <3>2, <3>4
        <4>2. Drops(q.todo) => (erase <=> flow[f].ticked)
          BY <3>1, <3>4
        <4>3. flow'[f].verb # "none" => (flow'[f].verb = "purge" <=> flow[f].ticked)
          BY <4>1, <4>2, Zenon
        <4>4. Drops(flow'[f].todo) => (erase' <=> flow'[f].ticked)
          BY <3>3, <4>2
        <4>5. flow'[f].verb # "none" => (flow'[f].verb = "purge" <=> flow'[f].ticked)
          BY <3>3, <4>3
        <4> QED
          BY <4>4, <4>5, Zenon
      <3>5. CASE flow[f].verb # "none"
        <4>1. flow'[f].verb = flow[f].verb
          BY <3>2, <3>5
        <4> QED
          BY <3>1, <3>3, <3>5, <4>1, Zenon
      <3> QED
        BY <3>4, <3>5
    <2> QED
      BY <1>2, <1>9, <2>1 DEF IInv, AsTicked
  <1>12. Handle'
    BY <1>1, <1>2, <1>4 DEF IInv, Handle, Active
  <1>13. Clean' /\ SaysWhatHappened'
    BY <1>1, <1>2, <1>4 DEF IInv, Clean, SaysWhatHappened, Shown
  <1> QED
    BY <1>5, <1>6, <1>7, <1>8, <1>10, <1>11, <1>12, <1>13 DEF IInv

(* The window the handle is of says how the chain ended; the others stay.   *)
LEMMA RelabelShows ==
  ASSUME layers \in Seq(ALayer), NEW what \in {"done", "wrong"},
         layers' = [i \in DOMAIN layers |->
                      IF layers[i] = Layer(progress, "running") THEN Layer(progress, what)
                      ELSE layers[i]]
  PROVE  /\ layers' \in Seq(ALayer)
         /\ \A m \in ToSet(layers') :
              \/ m \in ToSet(layers)
              \/ m = Layer(progress, what) /\ progress \in Flows
         /\ \A m \in ALayer : layers = <<m>> => \E l \in ALayer : layers' = <<l>>
  <1>1. /\ Len(layers) \in Nat /\ DOMAIN layers = 1..Len(layers)
        /\ \A i \in 1..Len(layers) : layers[i] \in ALayer
    BY ElementOfSeq, LenProperties
  <1>2. ASSUME NEW i \in DOMAIN layers
        PROVE  /\ layers'[i] \in ALayer
               /\ \/ layers'[i] = layers[i]
                  \/ layers'[i] = Layer(progress, what) /\ progress \in Flows
    <2>1. layers[i] \in ALayer
      BY <1>1
    <2>2. CASE layers[i] = Layer(progress, "running")
      <3>1. progress \in Flows
        BY <2>1, <2>2 DEF ALayer, Layer
      <3> QED
        BY <2>2, <3>1 DEF ALayer, Layer
    <2>3. CASE layers[i] # Layer(progress, "running")
      <3>1. layers'[i] = layers[i]
        BY <2>3
      <3> QED
        BY <2>1, <3>1
    <2> QED
      BY <2>2, <2>3
  <1>3. DOMAIN layers' = DOMAIN layers
    OBVIOUS
  <1>4. layers' \in [1..Len(layers) -> ALayer]
    BY <1>1, <1>2
  <1>5. layers' \in Seq(ALayer) /\ Len(layers') = Len(layers)
    BY <1>1, <1>4
  <1>6. \A m \in ToSet(layers') :
          \/ m \in ToSet(layers)
          \/ m = Layer(progress, what) /\ progress \in Flows
    BY <1>2, <1>3 DEF ToSet
  <1>7. ASSUME NEW m \in ALayer, layers = <<m>> PROVE \E l \in ALayer : layers' = <<l>>
    <2>1. Len(layers') = 1 /\ layers'[1] \in ALayer
      BY <1>1, <1>2, <1>5, <1>7
    <2>2. layers' = <<layers'[1]>>
      BY <1>5, <2>1
    <2> QED
      BY <2>1, <2>2
  <1> QED
    BY <1>5, <1>6, <1>7

(* The window that says Done is the chain's own, or that of one that was not*)
(* alone.                                                                   *)
LEMMA EndsIn ==
  ASSUME IInv, NEW f \in Flows, flow[f].at \in {"ok", "failed", "denied", "cut"},
         NEW q \in Chain, q.at = "over", q.kind = flow[f].kind, q.ok => ~q.failed,
         flow' = [flow EXCEPT ![f] = q], UNCHANGED <<erase, pending, reached, mixed>>,
         \/ UNCHANGED layers /\ progress' = NoFlow
         \/ UNCHANGED <<layers, progress>> /\ progress # f
         \/ q.kind \in {"batch", "single"} /\ ~Throws /\ CloseProgress(q.ok)
  PROVE  IInv'
  <1>1. /\ flow[f] \in Chain /\ flow[f].at \in Active /\ flow[f] # Idle
        /\ flow[f].at \notin {"over", "idle", "ask"}
    BY IdleAt DEF IInv, Shape, Active
  <1>2. flow'[f] = q /\ \A g \in Flows \ {f} : flow'[g] = flow[g]
    BY DEF IInv, Shape
  <1>3. ASSUME ~(UNCHANGED layers)
        PROVE  /\ q.kind \in {"batch", "single"} /\ ~Throws /\ progress' = NoFlow
               /\ layers' = [i \in DOMAIN layers |->
                               IF layers[i] = Layer(progress, "running")
                               THEN Layer(progress, Ended(q.ok)) ELSE layers[i]]
    BY <1>3 DEF CloseProgress
  <1>4. layers \in Seq(ALayer) /\ NoFlow \notin Flows
    BY PageAssumption DEF IInv, Shape
  <1>5. /\ layers' \in Seq(ALayer)
        /\ \A m \in ToSet(layers') :
             \/ m \in ToSet(layers)
             \/ /\ m = Layer(progress, Ended(q.ok)) /\ progress \in Flows
                /\ q.kind \in {"batch", "single"} /\ ~Throws
        /\ \A m \in ALayer : layers = <<m>> => \E l \in ALayer : layers' = <<l>>
        /\ layers = <<>> => layers' = <<>>
    <2>1. CASE UNCHANGED layers
      BY <1>4, <2>1
    <2>2. CASE ~(UNCHANGED layers)
      <3>1. Ended(q.ok) \in {"done", "wrong"}
        BY DEF Ended
      <3>2. /\ layers' \in Seq(ALayer)
            /\ \A m \in ToSet(layers') :
                 \/ m \in ToSet(layers)
                 \/ m = Layer(progress, Ended(q.ok)) /\ progress \in Flows
            /\ \A m \in ALayer : layers = <<m>> => \E l \in ALayer : layers' = <<l>>
        BY <1>3, <1>4, <2>2, <3>1, RelabelShows
      <3>3. layers = <<>> => layers' = <<>>
        BY <1>3, <2>2
      <3> QED
        BY <1>3, <2>2, <3>2, <3>3
    <2> QED
      BY <2>1, <2>2
  <1>6. progress' = NoFlow \/ (progress' = progress /\ progress # f /\ UNCHANGED layers)
    BY DEF CloseProgress
  <1>7. ASSUME NEW g \in Flows, Shown(Layer(g, "done"))'
        PROVE  \/ Shown(Layer(g, "done"))
               \/ /\ g = progress /\ q.ok
                  /\ q.kind \in {"batch", "single"} /\ ~Throws
    <2>1. Layer(g, "done") \in ToSet(layers')
      BY <1>7 DEF Shown
    <2>2. CASE Layer(g, "done") \in ToSet(layers)
      BY <2>2 DEF Shown
    <2>3. CASE Layer(g, "done") \notin ToSet(layers)
      <3>1. /\ Layer(g, "done") = Layer(progress, Ended(q.ok))
            /\ q.kind \in {"batch", "single"} /\ ~Throws
        BY <1>5, <2>1, <2>3
      <3>2. g = progress /\ Ended(q.ok) = "done"
        BY <3>1 DEF Layer
      <3> QED
        BY <3>1, <3>2 DEF Ended
    <2> QED
      BY <2>2, <2>3
  <1>8. ASSUME NEW g \in Flows, g = progress, ~Throws
        PROVE  flow[g].at \in Active /\ (g # f => flow'[g] = flow[g] /\ HasDialog(g))
    <2>1. /\ flow[g].at \in Active /\ flow[g].kind \in {"batch", "single", "media"}
      BY <1>4, <1>8 DEF IInv, Handle
    <2>2. flow[g].kind # "media"
      BY <1>4, <1>8 DEF Throws
    <2> QED
      BY <1>2, <2>1, <2>2, HasDialogIs DEF IInv
  <1>9. Shape'
    BY <1>5 DEF IInv, Shape
  <1>10. Todo' /\ OkMeansOk'
    <2>1. q.at \notin Active \cup {"ask"}
      BY DEF Active
    <2>2. Todo'
      BY <1>2, <2>1 DEF IInv, Todo, Drops
    <2> QED
      BY <1>2, <2>2 DEF IInv, OkMeansOk
  <1>11. Calm'
    <2> SUFFICES ASSUME ~reached
                 PROVE  /\ layers' = <<>> \/ \E l \in ALayer : layers' = <<l>>
                        /\ \A g \in Flows \ {f} :
                             /\ flow[g].at = "ask" => layers' = <<Layer(g, "ask")>>
                             /\ flow[g].at \in Active /\ flow[g].kind \in {"batch", "single"} =>
                                  layers' = <<Layer(g, "running")>>
      BY <1>2 DEF IInv, Calm, Active
    <2>1. layers' = <<>> \/ \E l \in ALayer : layers' = <<l>>
      BY <1>5 DEF IInv, Calm
    <2>2. CASE UNCHANGED layers
      BY <2>1, <2>2 DEF IInv, Calm
    <2>3. CASE ~(UNCHANGED layers)
      <3>1. layers = <<Layer(f, "running")>>
        BY <1>1, <1>3, <2>3 DEF IInv, Calm
      <3>2. \A g \in Flows \ {f} : layers # <<Layer(g, "ask")>> /\ layers # <<Layer(g, "running")>>
        BY <3>1 DEF Layer
      <3> QED
        BY <2>1, <3>2 DEF IInv, Calm
    <2> QED
      BY <2>2, <2>3
  <1>12. \A g \in Flows : HasDialog(g)' => g # f /\ HasDialog(g)
    BY <1>2 DEF HasDialog
  <1>13. Alone' /\ AsTicked'
    BY <1>2, <1>12 DEF IInv, Alone, AsTicked, Drops
  <1>14. Handle'
    <2>1. flow'[f].at \notin Active
      BY <1>2 DEF Active
    <2>2. progress' # NoFlow => progress' = progress /\ progress # f
      BY <1>6
    <2>3. ASSUME NEW g \in Flows \ mixed, flow'[g].at \in Active, flow'[g].kind \in {"batch", "single"}
          PROVE  progress' \in {g, NoFlow}
      <3>1. g # f
        BY <2>1, <2>3
      <3> QED
        BY <1>2, <1>6, <2>3, <3>1 DEF IInv, Handle
    <2> QED
      BY <1>2, <2>2, <2>3 DEF IInv, Handle
  <1>15. Clean'
    <2> SUFFICES ASSUME NEW g \in Flows, flow'[g].at \in {"idle", "ask"}, Shown(Layer(g, "done"))'
                 PROVE  FALSE
      BY DEF Clean
    <2>1. g # f /\ flow'[g] = flow[g]
      BY <1>2
    <2>2. ~Shown(Layer(g, "done"))
      BY <2>1 DEF IInv, Clean
    <2> QED
      BY <1>7, <1>8, <2>1, <2>2 DEF Active
  <1>16. SaysWhatHappened'
    <2> SUFFICES ASSUME NEW g \in Flows \ mixed, Shown(Layer(g, "done"))'
                 PROVE  flow'[g].at = "over" /\ ~flow'[g].failed
      BY DEF SaysWhatHappened
    <2>1. CASE Shown(Layer(g, "done"))
      <3>1. flow[g].at = "over" /\ ~flow[g].failed
        BY <2>1 DEF IInv, SaysWhatHappened
      <3> QED
        BY <1>1, <1>2, <3>1
    <2>2. CASE ~Shown(Layer(g, "done"))
      <3>1. /\ g = progress /\ q.ok
            /\ q.kind \in {"batch", "single"} /\ ~Throws
        BY <1>7, <2>2
      <3>2. CASE g = f
        BY <1>2, <3>1, <3>2
      <3>3. CASE g # f
        <4>1. HasDialog(g) /\ HasDialog(f)
          BY <1>1, <1>8, <3>1, <3>3, HasDialogIs DEF IInv
        <4>2. g \in mixed
          BY <3>3, <4>1 DEF IInv, Alone
        <4> QED
          BY <4>2
      <3> QED
        BY <3>2, <3>3
    <2> QED
      BY <2>1, <2>2
  <1> QED
    BY <1>9, <1>10, <1>11, <1>13, <1>14, <1>15, <1>16 DEF IInv

LEMMA SettleHolds == ASSUME IInv, NEW f \in Flows, Settle(f) PROVE IInv'
  <1> DEFINE ok == flow[f].at \in {"ok", "denied"}
             q == [flow[f] EXCEPT !.todo = Tail(@), !.ok = AllOk(flow[f], ok),
                                  !.failed = @ \/ flow[f].at \in {"failed", "cut"}]
  <1>1. flow[f].at \in {"ok", "failed", "denied", "cut"} /\ UNCHANGED <<erase, pending, reached, mixed>>
    BY DEF Settle, story
  <1>2. flow[f] \in Chain /\ flow[f].at \in Active /\ flow[f] # Idle
    BY <1>1, IdleAt DEF IInv, Shape, Active
  <1>3. flow[f].todo # <<>> /\ flow[f].todo \in Seq(Item)
    BY <1>2 DEF IInv, Todo, Chain
  <1>4. Tail(flow[f].todo) \in Seq(Item)
    BY <1>3, HeadTailProperties
  <1>5. /\ q \in Chain /\ q.at = flow[f].at /\ q.kind = flow[f].kind
        /\ q.todo = Tail(flow[f].todo) /\ q.verb = flow[f].verb /\ q.ticked = flow[f].ticked
    BY <1>2, <1>4 DEF Chain, AllOk
  <1>6. q.ok => ~q.failed
    <2>1. flow[f].ok => ~flow[f].failed
      BY <1>2 DEF IInv, OkMeansOk
    <2>2. q.ok = (ok /\ flow[f].ok) /\ q.failed = (flow[f].failed \/ flow[f].at \in {"failed", "cut"})
      BY <1>2 DEF Chain, AllOk
    <2>3. ok => ~(flow[f].at \in {"failed", "cut"})
      OBVIOUS
    <2> QED
      BY <2>1, <2>2, <2>3, Zenon
  <1>7. CASE q.todo # <<>>
    <2>1. flow' = [flow EXCEPT ![f] = Request(q)] /\ UNCHANGED <<layers, progress>>
      BY <1>7 DEF Settle
    <2> HIDE DEF q
    <2> QED
      BY <1>1, <1>5, <1>6, <1>7, <2>1, NextItem
  <1>8. CASE q.todo = <<>>
    <2> DEFINE over == [q EXCEPT !.at = "over"]
    <2>1. /\ flow' = [flow EXCEPT ![f] = over]
          /\ CASE flow[f].kind = "media" -> progress' = NoFlow /\ UNCHANGED layers
               [] flow[f].kind = "quick" -> UNCHANGED <<layers, progress>>
               [] OTHER -> CloseProgress(q.ok)
      BY <1>8 DEF Settle
    <2>2. /\ over \in Chain /\ over.at = "over" /\ over.kind = flow[f].kind
          /\ over.ok = q.ok /\ over.failed = q.failed
      BY <1>5 DEF Chain
    <2> HIDE DEF q, over
    <2>3. \/ UNCHANGED layers /\ progress' = NoFlow
          \/ UNCHANGED <<layers, progress>> /\ progress # f
          \/ over.kind \in {"batch", "single"} /\ ~Throws /\ CloseProgress(over.ok)
      <3>1. CASE flow[f].kind = "media"
        BY <2>1, <3>1
      <3>2. CASE flow[f].kind = "quick"
        <4>1. progress # f
          BY <3>2, PageAssumption DEF IInv, Handle
        <4> QED
          BY <2>1, <3>2, <4>1
      <3>3. CASE flow[f].kind \in {"batch", "single"}
        <4>1. CloseProgress(q.ok)
          BY <2>1, <3>3
        <4>2. CASE Throws
          BY <3>3, <4>1, <4>2 DEF Throws, CloseProgress
        <4>3. CASE ~Throws
          BY <2>2, <3>3, <4>1, <4>3
        <4> QED
          BY <4>2, <4>3
      <3> QED
        BY <1>2, <3>1, <3>2, <3>3 DEF Chain
    <2> QED
      BY <1>1, <1>6, <2>1, <2>2, <2>3, EndsIn
  <1> QED
    BY <1>7, <1>8

(* A window that is closed is of no chain that goes on and may remove.      *)
LEMMA CloseHolds ==
  ASSUME IInv, NEW f \in Flows, CloseMedia(f) \/ Close(f) PROVE IInv'
  <1>1. PICK what \in {"media", "done", "wrong"} :
          Shown(Layer(f, what)) /\ layers' = Without(Layer(f, what))
    BY DEF CloseMedia, Close
  <1>2. UNCHANGED <<flow, erase, pending, progress, reached, mixed>>
    BY DEF CloseMedia, Close, story
  <1>3. Layer(f, what) \in ALayer /\ layers \in Seq(ALayer)
    BY DEF ALayer, Layer, IInv, Shape
  <1>4. /\ layers' \in Seq(ALayer) /\ ToSet(layers') \subseteq ToSet(layers)
        /\ \A m : layers = <<m>> => layers' = <<>>
    BY <1>1, <1>3, WithoutShows
  <1>5. Shape'
    BY <1>2, <1>4 DEF IInv, Shape
  <1>6. Calm'
    <2> SUFFICES ASSUME ~reached
                 PROVE  /\ layers' = <<>>
                        /\ \A g \in Flows : layers # <<Layer(g, "ask")>> /\ layers # <<Layer(g, "running")>>
      BY <1>2 DEF IInv, Calm
    <2>1. layers # <<>>
      BY <1>1 DEF Shown, ToSet
    <2>2. PICK l \in ALayer : layers = <<l>>
      BY <2>1 DEF IInv, Calm
    <2>3. l = Layer(f, what)
      BY <1>1, <2>2 DEF Shown, ToSet
    <2> QED
      BY <1>4, <2>2, <2>3 DEF Layer
  <1>7. \A g \in Flows : HasDialog(g)' <=> HasDialog(g)
    BY <1>2 DEF HasDialog
  <1>8. \A g \in Flows : Shown(Layer(g, "done"))' => Shown(Layer(g, "done"))
    BY <1>4 DEF Shown, Layer
  <1>9. Todo' /\ OkMeansOk' /\ Alone' /\ AsTicked' /\ Handle'
    BY <1>2, <1>7 DEF IInv, Todo, OkMeansOk, Alone, AsTicked, Handle, Drops
  <1>10. Clean' /\ SaysWhatHappened'
    BY <1>2, <1>8 DEF IInv, Clean, SaysWhatHappened
  <1> QED
    BY <1>5, <1>6, <1>9, <1>10 DEF IInv

LEMMA ForgetHolds == ASSUME IInv, NEW f \in Flows, Forget(f) PROVE IInv'
  <1>1. /\ flow' = [flow EXCEPT ![f] = Idle] /\ flow[f].at = "over"
        /\ UNCHANGED <<layers, erase, pending, progress, reached>> /\ mixed' = mixed \ {f}
        /\ \A l \in ToSet(layers) : l.of # f
    BY DEF Forget
  <1>2. flow'[f] = Idle /\ \A g \in Flows \ {f} : flow'[g] = flow[g]
    BY <1>1 DEF IInv, Shape
  <1>3. flow'[f].at = "idle" /\ flow'[f].at \notin Active
    BY <1>2, IdleAt DEF Active
  <1>4. Shape'
    BY <1>1 DEF IInv, Shape
  <1>5. Todo' /\ OkMeansOk'
    BY <1>2, <1>3 DEF IInv, Todo, OkMeansOk, Drops
  <1>6. Calm'
    BY <1>1, <1>2, <1>3 DEF IInv, Calm
  <1>7. \A g \in Flows : HasDialog(g)' => g # f /\ HasDialog(g)
    BY <1>2, <1>3 DEF HasDialog
  <1>8. Alone' /\ AsTicked'
    BY <1>1, <1>2, <1>7 DEF IInv, Alone, AsTicked, Drops
  <1>9. Handle'
    <2>1. progress # f
      BY <1>1, PageAssumption DEF IInv, Handle, Active
    <2> QED
      BY <1>1, <1>2, <1>3, <2>1 DEF IInv, Handle
  <1>10. ~Shown(Layer(f, "done"))
    BY <1>1 DEF Shown, Layer
  <1>11. Clean' /\ SaysWhatHappened'
    BY <1>1, <1>2, <1>10 DEF IInv, Clean, SaysWhatHappened, Shown
  <1> QED
    BY <1>4, <1>5, <1>6, <1>8, <1>9, <1>11 DEF IInv

LEMMA StepHolds == IInv /\ [Next]_vars => IInv'
  <1> SUFFICES ASSUME IInv, [Next]_vars PROVE IInv'
    OBVIOUS
  <1>1. ASSUME NEW f \in Flows,
               \/ AskBatch(f) \/ AskMedia(f) \/ Tick(f) \/ Cancel(f) \/ Agree(f)
               \/ CloseMedia(f) \/ Close(f) \/ Settle(f) \/ Forget(f)
               \/ \E a \in Apps : AskRemove(f, a) \/ RunNow(f, a)
        PROVE  IInv'
    BY <1>1, AsksHold, TickHolds, CancelHolds, AgreeHolds, CloseHolds, SettleHolds,
       ForgetHolds, RunNowHolds
  <1>2. ASSUME NEW f \in Flows, Begin(f) \/ Finish(f) \/ Fail(f) \/ Cut(f) PROVE IInv'
    <2>1. /\ flow[f].at \in {"sent", "working"}
          /\ UNCHANGED <<layers, erase, pending, progress, reached, mixed>>
          /\ \E at \in {"denied", "failed", "working", "ok", "cut"} : flow' = [flow EXCEPT ![f].at = at]
      BY <1>2 DEF Begin, Finish, Fail, Cut, story
    <2> QED
      BY <2>1, ServerHolds DEF Active
  <1>3. CASE \/ Tell \/ SignIn \/ SessionEnds \/ Discard \/ UNCHANGED vars
             \/ \E a \in Apps : Queue(a) \/ Elsewhere(a)
             \/ \E i \in DOMAIN lists : AnswerAmiss(i)
    <2>1. UNCHANGED <<flow, layers, erase, progress, reached, mixed>>
      BY <1>3
         DEF Tell, Poll, Summary, Answer, AnswerAmiss, Land, SignIn, SessionEnds, Discard,
             Queue, Elsewhere, vars, story
    <2>2. pending' \in [Apps -> {"no", "install", "remove"}]
      BY <1>3
         DEF Tell, Poll, Summary, Answer, AnswerAmiss, Land, SignIn, SessionEnds, Discard,
             Queue, Elsewhere, vars, IInv, Shape, Wanted
    <2> QED
      BY <2>1, <2>2, OthersHold
  <1> QED
    BY <1>1, <1>2, <1>3 DEF Next, Serve, Page, User, Fault

(* A chain that no other dialog came beside erases data exactly if the box  *)
(* of its own dialog was ticked (app.js:6531), and only a user who reached  *)
(* behind a dialog has chains that were not alone; for any number of apps,  *)
(* chains and failures.                                                     *)
THEOREM BatchAlwaysAsReviewed == Spec => []BatchAsReviewed
  <1>1. IInv => BatchAsReviewed
    <2> SUFFICES ASSUME IInv PROVE BatchAsReviewed
      OBVIOUS
    <2>1. ASSUME NEW f \in Flows \ mixed, flow[f].at = "sent", flow[f].verb # "none"
          PROVE  flow[f].verb = "purge" <=> flow[f].ticked
      <3>1. flow[f].at \in Active /\ flow[f] \in Chain
        BY <2>1, IdleAt DEF IInv, Shape, Active
      <3>2. flow[f].kind \in {"batch", "single"}
        BY <2>1, <3>1 DEF IInv, Todo, Chain
      <3>3. HasDialog(f)
        BY <3>1, <3>2, HasDialogIs DEF IInv
      <3> QED
        BY <2>1, <3>3 DEF IInv, AsTicked
    <2>2. mixed # {} => reached
      BY DEF IInv, Calm
    <2> QED
      BY <2>1, <2>2 DEF BatchAsReviewed
  <1> QED
    BY <1>1, InitHolds, StepHolds, PTL DEF Spec

(* A dialog that says Done is of a chain that is over and none of whose     *)
(* actions failed or broke off (app.js:6540), if no other dialog came       *)
(* beside that chain's.                                                     *)
THEOREM AlwaysSaysWhatHappened == Spec => []SaysWhatHappened
  <1>1. IInv => SaysWhatHappened
    BY DEF IInv
  <1> QED
    BY <1>1, InitHolds, StepHolds, PTL DEF Spec

=============================================================================
