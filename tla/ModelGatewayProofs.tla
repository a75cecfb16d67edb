------------------------- MODULE ModelGatewayProofs -------------------------
(***************************************************************************)
(* Theorems about ModelGateway, for any calls, profiles, purposes,         *)
(* surfaces and configurations: whichever way a call comes to a provider,  *)
(* by selection, by a router or by any number of fallbacks, the policy     *)
(* permits it, and what was asked of it is on record.                      *)
(***************************************************************************)
EXTENDS ModelGateway, SequenceTheorems, WellFoundedInduction, TLAPS

-----------------------------------------------------------------------------
(* Stacks of at most two frames                                            *)

\* Where one or two frames are pushed and popped, the sequences are what they should be.
LEMMA Pairs ==
  ASSUME NEW p, NEW q
  PROVE  /\ <<p>> \o <<q>> = <<p, q>> /\ <<p>> \o <<>> = <<p>>
         /\ <<>> \o <<>> = <<>> /\ <<>> \o <<p>> = <<p>> /\ <<>> \o <<p, q>> = <<p, q>>
         /\ Front(<<p>>) = <<>> /\ Front(<<p, q>>) = <<p>>
         /\ Last(<<p>>) = p /\ Last(<<p, q>>) = q
         /\ Range(<<>>) = {} /\ Range(<<p>>) = {p} /\ Range(<<p, q>>) = {p, q}
         /\ <<p>> # <<>> /\ <<p, q>> # <<>>
<1> DEFINE S == {p, q}
<1>1. <<p>> \in Seq(S) /\ <<q>> \in Seq(S) /\ <<p, q>> \in Seq(S)
  OBVIOUS
<1>2. <<p>> \o <<q>> = <<p, q>>
  <2>1. <<p>> \o <<q>> \in Seq(S) /\ Len(<<p>> \o <<q>>) = 2 /\ Len(<<p, q>>) = 2
    BY <1>1
  <2>2. (<<p>> \o <<q>>)[1] = p /\ (<<p>> \o <<q>>)[2] = q
    BY <1>1
  <2>3. \A i \in 1..2 : (<<p>> \o <<q>>)[i] = <<p, q>>[i]
    BY <2>2
  <2> HIDE DEF S
  <2>4. QED
    BY <1>1, <2>1, <2>3, SeqEqual
<1>3. /\ <<p>> \o <<>> = <<p>> /\ <<>> \o <<>> = <<>>
      /\ <<>> \o <<p>> = <<p>> /\ <<>> \o <<p, q>> = <<p, q>>
  BY <1>1, ConcatEmptySeq, EmptySeq
<1>4. Front(<<p, q>>) = <<p>>
  <2>1. Front(<<p, q>>) \in Seq(S) /\ Len(Front(<<p, q>>)) = 1 /\ Front(<<p, q>>)[1] = p
    BY <1>1 DEF Front
  <2>2. QED
    BY <1>1, <2>1, SeqEqual
<1>5. Front(<<p>>) = <<>>
  BY DEF Front
<1>6. Last(<<p>>) = p /\ Last(<<p, q>>) = q
  BY DEF Last
<1>7. Range(<<>>) = {} /\ Range(<<p>>) = {p} /\ Range(<<p, q>>) = {p, q}
  BY DEF Range
<1>8. <<p>> # <<>> /\ <<p, q>> # <<>>
  OBVIOUS
<1>9. QED
  BY <1>2, <1>3, <1>4, <1>5, <1>6, <1>7, <1>8

\* The stacks a call can be in.
Stacks == {<<>>} \cup {<<p>> : p \in Profiles} \cup (Profiles \X Profiles)

LEMMA StackKinds ==
  /\ <<>> \in Stacks
  /\ \A p \in Profiles : <<p>> \in Stacks
  /\ \A p \in Profiles, q \in Profiles : <<p, q>> \in Stacks
  /\ \A s \in Stacks : \/ s = <<>>
                       \/ \E p \in Profiles : s = <<p>>
                       \/ \E p \in Profiles, q \in Profiles : s = <<p, q>>
<1>1. \A s : s \in Profiles \X Profiles <=> \E p \in Profiles, q \in Profiles : s = <<p, q>>
  OBVIOUS
<1>2. QED
  BY <1>1, Zenon DEF Stacks

\* They are what TypeOK says of frames.
LEMMA StacksAreFrames == Stacks \subseteq UNION {[1..n -> Profiles] : n \in 0..2}
<1> DEFINE Frames == UNION {[1..n -> Profiles] : n \in 0..2}
<1>1. \A n \in 0..2 : [1..n -> Profiles] \subseteq Frames
  OBVIOUS
<1>2. <<>> \in [1..0 -> Profiles]
  OBVIOUS
<1>3. ASSUME NEW p \in Profiles PROVE <<p>> \in [1..1 -> Profiles]
  OBVIOUS
<1>4. ASSUME NEW p \in Profiles, NEW q \in Profiles PROVE <<p, q>> \in [1..2 -> Profiles]
  OBVIOUS
<1> HIDE DEF Frames
<1>5. Stacks \subseteq Frames
  <2>1. [1..0 -> Profiles] \subseteq Frames /\ [1..1 -> Profiles] \subseteq Frames
        /\ [1..2 -> Profiles] \subseteq Frames
    BY <1>1
  <2>2. ASSUME NEW s \in Stacks PROVE s \in Frames
    <3>1. CASE s = <<>>
      BY <1>2, <2>1, <3>1
    <3>2. CASE \E p \in Profiles : s = <<p>>
      BY <1>3, <2>1, <3>2
    <3>3. CASE \E p \in Profiles, q \in Profiles : s = <<p, q>>
      BY <1>4, <2>1, <3>3
    <3>4. QED
      BY <2>2, <3>1, <3>2, <3>3, StackKinds
  <2>3. QED
    BY <2>2
<1>6. QED
  BY <1>5 DEF Frames

-----------------------------------------------------------------------------
(* Selection                                                               *)

\* A set of numbers has a least one.
LEMMA LeastExists ==
  ASSUME NEW S, S \subseteq Nat, S # {}
  PROVE  Min(S) \in S
<1>1. PICK n \in S : \A m \in S : ~(<<m, n>> \in OpToRel(<, Nat))
  BY NatLessThanWellFounded, WFMin
<1>2. ASSUME NEW m \in S PROVE n <= m
  <2>1. CASE m < n
    BY <1>1, <2>1 DEF OpToRel
  <2>2. QED
    BY <2>1
<1>3. QED
  BY <1>2 DEF Min

\* The first of a set in the order of the configuration is a profile of the set.
LEMMA FirstIsMember ==
  ASSUME gateway \in Gateways, NEW S
  PROVE  FirstOf(S) = None \/ FirstOf(S) \in S \cap Profiles
<1> DEFINE hits == {i \in DOMAIN gateway.order : gateway.order[i] \in S}
<1>1. DOMAIN gateway.order \subseteq Nat /\ \A i \in DOMAIN gateway.order : gateway.order[i] \in Profiles
  <2>1. gateway.order \in Seq(Profiles)
    BY GatewaysAssumption
  <2>2. QED
    BY <2>1
<1>2. CASE hits = {}
  BY <1>2 DEF FirstOf
<1>3. CASE hits # {}
  <2>1. Min(hits) \in hits
    BY <1>1, <1>3, LeastExists
  <2>2. QED
    BY <1>1, <1>3, <2>1 DEF FirstOf
<1>4. QED
  BY <1>2, <1>3

\* A profile that another falls back on is concrete: it routes to nothing.
Concrete == {p \in Profiles : gateway.profile[p].adapter # "router"}

LEMMA FallbackType ==
  ASSUME gateway \in Gateways, NEW p, NEW purpose
  PROVE  selectFallbackProfile(p, purpose) \in Concrete \cup {None}
<1>1. GroupOf(p) \subseteq Concrete
  BY DEF GroupOf, With, Concrete
<1>2. QED
  BY <1>1, FirstIsMember DEF selectFallbackProfile

\* What a call lands on was permitted, whatever was blocked before it.
LEMMA LandingIsPermitted ==
  ASSUME NEW p, NEW r
  PROVE  Landing(p, r) # None => Permitted(Landing(p, r), r.surface)
BY DEF Landing

LEMMA LandingType ==
  ASSUME gateway \in Gateways, NEW p, NEW r, NEW P, Concrete \subseteq P, p \in P \cup {None}
  PROVE  Landing(p, r) \in P \cup {None}
BY FallbackType DEF Landing

\* The dispatches that a call of a profile starts: at most its own and one of a router's candidate,
\* all permitted, and only its own if it is concrete.
LEMMA ReachType ==
  ASSUME gateway \in Gateways, NEW p \in Profiles \cup {None}, NEW r
  PROVE  /\ Reach(p, r) \in Stacks
         /\ \A q \in Range(Reach(p, r)) : Permitted(q, r.surface)
         /\ p \in Concrete \cup {None} =>
              Reach(p, r) = <<>> \/ \E q \in Profiles : Reach(p, r) = <<q>>
<1> DEFINE q == Landing(p, r)
           first == FirstOf(GroupOf(q))
           candidate == Landing(first, r)
<1>1. Concrete \subseteq Profiles
  BY DEF Concrete
<1>2. q \in Profiles \cup {None} /\ (p \in Concrete \cup {None} => q \in Concrete \cup {None})
  BY <1>1, LandingType
<1>3. first \in Profiles \cup {None}
  BY FirstIsMember
<1>4. candidate \in Profiles \cup {None}
  BY <1>1, <1>3, LandingType
<1>5. /\ q # None => Permitted(q, r.surface)
      /\ candidate # None => Permitted(candidate, r.surface)
  BY LandingIsPermitted
<1>6. \/ q = None /\ Reach(p, r) = <<>>
      \/ q # None /\ Reach(p, r) = <<q>>
      \/ q # None /\ candidate # None /\ q \notin Concrete /\ Reach(p, r) = <<q, candidate>>
  BY <1>2 DEF Reach, Concrete
<1> HIDE DEF q, first, candidate
<1>7. Reach(p, r) \in Stacks
  BY <1>2, <1>4, <1>6, StackKinds
<1>8. \A x \in Range(Reach(p, r)) : Permitted(x, r.surface)
  <2>1. CASE Reach(p, r) = <<>>
    BY <2>1, Pairs
  <2>2. CASE q # None /\ Reach(p, r) = <<q>>
    <3>1. Range(Reach(p, r)) = {q}
      BY <2>2, Pairs
    <3>2. QED
      BY <1>5, <2>2, <3>1
  <2>3. CASE q # None /\ candidate # None /\ Reach(p, r) = <<q, candidate>>
    <3>1. Range(<<q, candidate>>) = {q, candidate}
      BY Pairs
    <3>2. QED
      BY <1>5, <2>3, <3>1
  <2>4. QED
    BY <1>6, <2>1, <2>2, <2>3
<1>9. QED
  BY <1>2, <1>6, <1>7, <1>8

-----------------------------------------------------------------------------
(* The steps                                                               *)

Audited(c, p) == \E success \in BOOLEAN : [call |-> c, provider |-> p, success |-> success] \in audit
Succeeded(c) == \E x \in audit : x.call = c /\ x.success

\* What is known of a call: a stack has frames while it waits or fails and none before it begins
\* or once it has thrown; it has contacted the provider it waits for; a provider it contacted is in a
\* frame or on record; and it has a success on record when and only when it has returned.
CallSafe(c) ==
  /\ frames[c] \in Stacks
  /\ at[c] \in {"waiting", "failing"} => frames[c] # <<>>
  /\ at[c] \in {"idle", "thrown"} => frames[c] = <<>>
  /\ at[c] = "idle" => \A x \in contacted : x.call # c
  /\ at[c] = "waiting" => [call |-> c, provider |-> Last(frames[c])] \in contacted
  /\ \A x \in contacted : x.call = c =>
       \/ x.provider \in Range(frames[c]) /\ at[c] # "returned"
       \/ Audited(c, x.provider)
  /\ at[c] = "returned" => [call |-> c, provider |-> answered[c], success |-> TRUE] \in audit
  /\ at[c] # "returned" => ~Succeeded(c)

\* The frames need no type of their own.
Typed ==
  /\ gateway \in Gateways
  /\ request \in [Calls -> [purpose : Purposes, surface : Surfaces]]
  /\ at \in [Calls -> {"idle", "waiting", "failing", "returned", "thrown"}]
  /\ frames \in [Calls -> Stacks]
  /\ answered \in [Calls -> Profiles \cup {None}]
  /\ contacted \subseteq Contacts
  /\ late \subseteq contacted
  /\ audit \subseteq [call : Calls, provider : Profiles, success : BOOLEAN]

\* The inductive invariant.
IInv == Typed /\ PolicyRespected /\ \A c \in Calls : CallSafe(c)

LEMMA InitSafe == Init => IInv
<1> SUFFICES ASSUME Init PROVE IInv
  OBVIOUS
<1>1. Typed
  BY StackKinds, RequestsAssumption DEF Init, Typed, Contacts
<1>2. PolicyRespected
  BY DEF Init, PolicyRespected
<1>3. ASSUME NEW c \in Calls PROVE CallSafe(c)
  <2>1. at[c] = "idle" /\ frames[c] = <<>> /\ contacted = {} /\ audit = {}
    BY DEF Init
  <2>2. QED
    BY <2>1, StackKinds DEF CallSafe, Succeeded
<1>4. QED
  BY <1>1, <1>2, <1>3 DEF IInv

\* What callWithProfile does to a call whose stack was cut back to stack: it adds no frame and throws,
\* or dispatches and fails at once, or contacts a permitted provider in the innermost frame.
Moved(c, stack, r) ==
  \E new \in Stacks :
    /\ frames' = [frames EXCEPT ![c] = new]
    /\ Range(stack) \subseteq Range(new)
    /\ \/ /\ at' = [at EXCEPT ![c] = "waiting"]
          /\ new # <<>> /\ Last(new) \in Profiles /\ Last(new) \in Range(new)
          /\ Permitted(Last(new), r.surface)
          /\ contacted' = contacted \cup {[call |-> c, provider |-> Last(new)]}
       \/ at' = [at EXCEPT ![c] = "thrown"] /\ new = <<>> /\ contacted' = contacted
       \/ at' = [at EXCEPT ![c] = "failing"] /\ new # <<>> /\ contacted' = contacted

\* The last frame of a stack is one of its frames.
LEMMA LastInRange ==
  ASSUME NEW s \in Stacks, s # <<>>
  PROVE  Last(s) \in Range(s) /\ Last(s) \in Profiles /\ Front(s) \in Stacks
         /\ Range(s) = Range(Front(s)) \cup {Last(s)}
<1>1. CASE \E p \in Profiles : s = <<p>>
  <2>1. PICK p \in Profiles : s = <<p>>
    BY <1>1
  <2>2. QED
    BY <2>1, Pairs, StackKinds
<1>2. CASE \E p \in Profiles, q \in Profiles : s = <<p, q>>
  <2>1. PICK p \in Profiles, q \in Profiles : s = <<p, q>>
    BY <1>2
  <2>2. /\ Last(<<p, q>>) = q /\ Front(<<p, q>>) = <<p>>
        /\ Range(<<p, q>>) = {p, q} /\ Range(<<p>>) = {p}
    BY Pairs
  <2>3. QED
    BY <2>1, <2>2, StackKinds
<1>3. QED
  BY <1>1, <1>2, StackKinds

\* Below the last frame of a stack there is one frame or none.
LEMMA FrontOfStack ==
  ASSUME NEW s \in Stacks, s # <<>>
  PROVE  Front(s) = <<>> \/ \E z \in Profiles : Front(s) = <<z>>
<1>1. CASE \E p \in Profiles : s = <<p>>
  BY <1>1, Pairs
<1>2. CASE \E p \in Profiles, q \in Profiles : s = <<p, q>>
  <2>1. PICK p \in Profiles, q \in Profiles : s = <<p, q>>
    BY <1>2
  <2>2. Front(<<p, q>>) = <<p>>
    BY Pairs
  <2>3. QED
    BY <2>1, <2>2
<1>3. QED
  BY <1>1, <1>2, StackKinds

\* A router's frame takes one more, an empty stack up to two.
LEMMA DispatchMoves ==
  ASSUME gateway \in Gateways, NEW c \in Calls, NEW stack, NEW r, NEW p \in Profiles \cup {None},
         \/ stack = <<>>
         \/ (\E z \in Profiles : stack = <<z>>) /\ p \in Concrete \cup {None},
         Dispatch(c, stack, p, r)
  PROVE  Moved(c, stack, r)
<1> DEFINE reached == Reach(p, r)
           new == stack \o reached
           top == Last(reached)
<1>1. /\ reached \in Stacks /\ \A q \in Range(reached) : Permitted(q, r.surface)
      /\ p \in Concrete \cup {None} => reached = <<>> \/ \E q \in Profiles : reached = <<q>>
  BY ReachType
<1>2. /\ frames' = [frames EXCEPT ![c] = new]
      /\ \/ at' = [at EXCEPT ![c] = "waiting"] /\ reached # <<>>
            /\ contacted' = contacted \cup {[call |-> c, provider |-> top]}
         \/ at' = [at EXCEPT ![c] = "thrown"] /\ new = <<>> /\ contacted' = contacted
         \/ at' = [at EXCEPT ![c] = "failing"] /\ new # <<>> /\ contacted' = contacted
  BY DEF Dispatch
<1> HIDE DEF reached
<1>3. /\ new \in Stacks /\ Range(stack) \subseteq Range(new)
      /\ reached # <<>> => new # <<>> /\ Last(new) = top
  <2>1. CASE stack = <<>>
    <3>1. new = reached
      BY <1>1, <2>1, Pairs, StackKinds
    <3>2. QED
      BY <1>1, <2>1, <3>1, Pairs
  <2>2. CASE (\E z \in Profiles : stack = <<z>>) /\ p \in Concrete \cup {None}
    <3>1. PICK z \in Profiles : stack = <<z>>
      BY <2>2
    <3>2. CASE reached = <<>>
      BY <3>1, <3>2, Pairs, StackKinds
    <3>3. CASE \E q \in Profiles : reached = <<q>>
      <4>1. PICK q \in Profiles : reached = <<q>>
        BY <3>3
      <4>2. /\ <<z>> \o <<q>> = <<z, q>> /\ Last(<<z, q>>) = q /\ Last(<<q>>) = q
            /\ Range(<<z, q>>) = {z, q} /\ Range(<<z>>) = {z} /\ <<z, q>> # <<>>
        BY Pairs
      <4>3. QED
        BY <3>1, <4>1, <4>2, StackKinds
    <3>4. QED
      BY <1>1, <2>2, <3>2, <3>3
  <2>3. QED
    BY <2>1, <2>2
<1>4. reached # <<>> => top \in Profiles /\ top \in Range(reached)
  BY <1>1, LastInRange
<1>5. reached # <<>> => Last(new) \in Range(new)
  BY <1>3, LastInRange
<1> HIDE DEF new, top
<1>6. QED
  BY <1>1, <1>2, <1>3, <1>4, <1>5 DEF Moved

\* A step of call c leaves what is known of another call.
LEMMA OthersSafe ==
  ASSUME NEW x \in Calls, CallSafe(x), at'[x] = at[x], frames'[x] = frames[x],
         answered'[x] = answered[x],
         \A y : y.call = x => (y \in contacted' <=> y \in contacted),
         \A y : y.call = x => (y \in audit' <=> y \in audit)
  PROVE  CallSafe(x)'
<1>1. \A p : Audited(x, p)' <=> Audited(x, p)
  BY DEF Audited
<1>2. Succeeded(x)' <=> Succeeded(x)
  BY DEF Succeeded
<1>3. QED
  BY <1>1, <1>2 DEF CallSafe

\* A call that begins or falls back goes on safely, if all it contacted is on record but for what is
\* in the stack that is left, and was permitted for the request it is made with.
LEMMA MovedSafe ==
  ASSUME IInv, NEW c \in Calls, NEW r \in [purpose : Purposes, surface : Surfaces], NEW stack,
         Moved(c, stack, r), at[c] \in {"idle", "failing"},
         UNCHANGED <<gateway, answered, late>>, request' = [request EXCEPT ![c] = r],
         audit \subseteq audit', audit' \subseteq [call : Calls, provider : Profiles, success : BOOLEAN],
         \A y \in audit' \ audit : y.call = c /\ ~y.success,
         \A x \in contacted : x.call = c =>
           /\ x.provider \in Range(stack) \/ Audited(c, x.provider)'
           /\ Permitted(x.provider, r.surface)
  PROVE  IInv'
<1>1. PICK new \in Stacks :
        /\ frames' = [frames EXCEPT ![c] = new]
        /\ Range(stack) \subseteq Range(new)
        /\ \/ /\ at' = [at EXCEPT ![c] = "waiting"]
              /\ new # <<>> /\ Last(new) \in Profiles /\ Last(new) \in Range(new)
              /\ Permitted(Last(new), r.surface)
              /\ contacted' = contacted \cup {[call |-> c, provider |-> Last(new)]}
           \/ at' = [at EXCEPT ![c] = "thrown"] /\ new = <<>> /\ contacted' = contacted
           \/ at' = [at EXCEPT ![c] = "failing"] /\ new # <<>> /\ contacted' = contacted
  BY DEF Moved
<1>2. Typed /\ PolicyRespected /\ \A x \in Calls : CallSafe(x)
  BY DEF IInv
<1>3. /\ frames'[c] = new /\ \A x \in Calls \ {c} : frames'[x] = frames[x] /\ at'[x] = at[x]
      /\ at'[c] \in {"waiting", "thrown", "failing"}
      /\ request'[c] = r /\ \A x \in Calls \ {c} : request'[x] = request[x]
  BY <1>1, <1>2 DEF Typed
<1>4. contacted \subseteq contacted' /\ \A x \in contacted' \ contacted :
        x = [call |-> c, provider |-> Last(new)] /\ Last(new) \in Profiles \cap Range(new)
        /\ Permitted(Last(new), r.surface)
  BY <1>1
<1>5. Typed'
  <2>1. contacted' \subseteq Contacts /\ late' \subseteq contacted'
    BY <1>2, <1>4 DEF Typed, Contacts
  <2>2. /\ at' \in [Calls -> {"idle", "waiting", "failing", "returned", "thrown"}]
        /\ frames' \in [Calls -> Stacks]
    BY <1>1, <1>2 DEF Typed
  <2>3. QED
    BY <1>2, <2>1, <2>2 DEF Typed
<1>6. PolicyRespected'
  <2> SUFFICES ASSUME NEW x \in contacted' PROVE Permitted(x.provider, request'[x.call].surface)
    BY DEF PolicyRespected, Permitted
  <2>1. CASE x \in contacted /\ x.call = c
    BY <1>3, <2>1
  <2>2. CASE x \in contacted /\ x.call # c
    BY <1>2, <1>3, <2>2 DEF PolicyRespected, Typed, Contacts
  <2>3. CASE x \notin contacted
    BY <1>3, <1>4, <2>3
  <2>4. QED
    BY <2>1, <2>2, <2>3
<1>7. CallSafe(c)'
  <2>1. ~Succeeded(c)'
    BY <1>2 DEF CallSafe, Succeeded
  <2>2. \A x \in contacted' : x.call = c => x.provider \in Range(new) \/ Audited(c, x.provider)'
    BY <1>1, <1>4
  <2>3. /\ at'[c] \in {"waiting", "failing"} => new # <<>>
        /\ at'[c] = "thrown" => new = <<>>
        /\ at'[c] = "waiting" => [call |-> c, provider |-> Last(new)] \in contacted'
    BY <1>1, <1>2 DEF Typed
  <2>4. QED
    BY <1>3, <2>1, <2>2, <2>3 DEF CallSafe
<1>8. ASSUME NEW x \in Calls \ {c} PROVE CallSafe(x)'
  <2>1. \A y : y.call = x => (y \in contacted' <=> y \in contacted)
    BY <1>4
  <2>2. \A y : y.call = x => (y \in audit' <=> y \in audit)
    OBVIOUS
  <2>3. QED
    BY <1>2, <1>3, <2>1, <2>2, OthersSafe
<1>9. QED
  BY <1>5, <1>6, <1>7, <1>8 DEF IInv

\* A call begins: it has contacted nobody.
LEMMA BeginSafe ==
  ASSUME IInv, NEW c \in Calls, NEW r \in [purpose : Purposes, surface : Surfaces], Begin(c, r)
  PROVE  IInv'
<1>1. selectProfileForPurpose(r.purpose) \in Profiles \cup {None}
  BY FirstIsMember DEF selectProfileForPurpose, IInv, Typed
<1>2. Moved(c, <<>>, r)
  BY <1>1, DispatchMoves DEF Begin, IInv, Typed
<1>3. \A x \in contacted : x.call # c
  BY DEF Begin, IInv, CallSafe
<1>4. QED
  BY <1>2, <1>3, MovedSafe DEF Begin, IInv, Typed

\* A dispatch failed: its provider goes on record before the fallback is called.
LEMMA CatchSafe ==
  ASSUME IInv, NEW c \in Calls, Catch(c)
  PROVE  IInv'
<1> DEFINE fallback == selectFallbackProfile(Last(frames[c]), request[c].purpose)
           failure == [call |-> c, provider |-> Last(frames[c]), success |-> FALSE]
<1>1. /\ at[c] = "failing" /\ audit' = audit \cup {failure}
      /\ Dispatch(c, Front(frames[c]), fallback, request[c])
      /\ UNCHANGED <<gateway, request, answered, late>>
  BY DEF Catch, Failed
<1>2. Typed /\ PolicyRespected /\ CallSafe(c) /\ frames[c] \in Stacks /\ frames[c] # <<>>
  BY <1>1 DEF IInv, CallSafe
<1>3. /\ Last(frames[c]) \in Profiles
      /\ Range(frames[c]) = Range(Front(frames[c])) \cup {Last(frames[c])}
  BY <1>2, LastInRange
<1>4. Front(frames[c]) = <<>> \/ \E z \in Profiles : Front(frames[c]) = <<z>>
  BY <1>2, FrontOfStack
<1>5. fallback \in Concrete \cup {None} /\ Concrete \subseteq Profiles
  BY <1>2, FallbackType DEF Typed, Concrete
<1> HIDE DEF fallback
<1>6. Moved(c, Front(frames[c]), request[c])
  BY <1>1, <1>2, <1>4, <1>5, DispatchMoves DEF Typed
<1>7. /\ request[c] \in [purpose : Purposes, surface : Surfaces]
      /\ request' = [request EXCEPT ![c] = request[c]]
  BY <1>1, <1>2 DEF Typed
<1>8. failure \in [call : Calls, provider : Profiles, success : BOOLEAN]
  BY <1>3
<1>9. ASSUME NEW x \in contacted, x.call = c
      PROVE  /\ x.provider \in Range(Front(frames[c])) \/ Audited(c, x.provider)'
             /\ Permitted(x.provider, request[c].surface)
  <2>1. x.provider = Last(frames[c]) => Audited(c, x.provider)'
    BY <1>1 DEF Audited
  <2>2. Audited(c, x.provider) => Audited(c, x.provider)'
    BY <1>1 DEF Audited
  <2>3. QED
    BY <1>2, <1>3, <1>9, <2>1, <2>2 DEF CallSafe, PolicyRespected
<1>10. /\ audit \subseteq audit' /\ audit' \subseteq [call : Calls, provider : Profiles, success : BOOLEAN]
       /\ \A y \in audit' \ audit : y.call = c /\ ~y.success
  <2>1. failure.call = c /\ ~failure.success
    OBVIOUS
  <2> HIDE DEF failure
  <2>2. QED
    BY <1>1, <1>2, <1>8, <2>1 DEF Typed
<1> HIDE DEF failure
<1>11. QED
  BY <1>1, <1>6, <1>7, <1>9, <1>10, MovedSafe

\* The provider answers in time: every frame records its success.
LEMMA AnswerSafe ==
  ASSUME IInv, NEW c \in Calls, Answer(c)
  PROVE  IInv'
<1> DEFINE successes == {[call |-> c, provider |-> p, success |-> TRUE] : p \in Range(frames[c])}
           last == Last(frames[c])
<1>1. /\ at[c] = "waiting" /\ at' = [at EXCEPT ![c] = "returned"]
      /\ answered' = [answered EXCEPT ![c] = last] /\ audit' = audit \cup successes
      /\ UNCHANGED <<gateway, request, frames, contacted, late>>
  BY DEF Answer
<1>2. Typed /\ PolicyRespected /\ CallSafe(c) /\ frames[c] \in Stacks /\ frames[c] # <<>>
  BY <1>1 DEF IInv, CallSafe
<1>3. last \in Range(frames[c]) /\ last \in Profiles /\ Range(frames[c]) \subseteq Profiles
  <2>1. Front(frames[c]) = <<>> \/ \E z \in Profiles : Front(frames[c]) = <<z>>
    BY <1>2, FrontOfStack
  <2>2. Range(Front(frames[c])) \subseteq Profiles
    <3>1. \A z \in Profiles : Range(<<z>>) = {z}
      BY Pairs
    <3>2. Range(<<>>) = {}
      BY Pairs
    <3>3. QED
      BY <2>1, <3>1, <3>2
  <2>3. QED
    BY <1>2, <2>2, LastInRange
<1>4. /\ \A p \in Range(frames[c]) : [call |-> c, provider |-> p, success |-> TRUE] \in audit'
      /\ \A y \in audit' \ audit : y.call = c
      /\ audit \subseteq audit'
      /\ audit' \subseteq [call : Calls, provider : Profiles, success : BOOLEAN]
  <2>1. \A y \in successes : y.call = c /\ y \in [call : Calls, provider : Profiles, success : BOOLEAN]
    <3>1. ASSUME NEW p \in Range(frames[c])
          PROVE  LET y == [call |-> c, provider |-> p, success |-> TRUE] IN
                 y.call = c /\ y \in [call : Calls, provider : Profiles, success : BOOLEAN]
      BY <1>3
    <3>2. QED
      BY <3>1
  <2>2. \A p \in Range(frames[c]) : [call |-> c, provider |-> p, success |-> TRUE] \in successes
    OBVIOUS
  <2> HIDE DEF successes
  <2>3. QED
    BY <1>1, <1>2, <2>1, <2>2 DEF Typed
<1> HIDE DEF successes, last
<1>5. Typed'
  BY <1>1, <1>2, <1>3, <1>4 DEF Typed
<1>6. PolicyRespected'
  BY <1>1, <1>2 DEF PolicyRespected, Permitted
<1>7. CallSafe(c)'
  <2>1. at'[c] = "returned" /\ answered'[c] = last
    BY <1>1, <1>2 DEF Typed
  <2>2. [call |-> c, provider |-> last, success |-> TRUE] \in audit'
    BY <1>3, <1>4
  <2>3. \A x \in contacted : x.call = c => Audited(c, x.provider)'
    BY <1>2, <1>4 DEF CallSafe, Audited
  <2>4. QED
    BY <1>1, <1>2, <2>1, <2>2, <2>3 DEF CallSafe
<1>8. ASSUME NEW x \in Calls \ {c} PROVE CallSafe(x)'
  <2>1. \A y : y.call = x => (y \in audit' <=> y \in audit)
    BY <1>4
  <2>2. QED
    BY <1>1, <1>2, <2>1, OthersSafe DEF IInv, Typed
<1>9. QED
  BY <1>5, <1>6, <1>7, <1>8 DEF IInv

\* The provider rejects, or the timer fires and leaves its promise to settle late.
LEMMA FailureSafe ==
  ASSUME IInv, NEW c \in Calls, ProviderRejects(c) \/ TimesOut(c)
  PROVE  IInv'
<1>1. /\ at[c] = "waiting" /\ at' = [at EXCEPT ![c] = "failing"]
      /\ late' \subseteq late \cup {[call |-> c, provider |-> Last(frames[c])]}
      /\ UNCHANGED <<gateway, request, frames, answered, contacted, audit>>
  BY DEF ProviderRejects, TimesOut
<1>2. Typed /\ PolicyRespected /\ CallSafe(c)
  BY DEF IInv
<1>3. [call |-> c, provider |-> Last(frames[c])] \in contacted
  BY <1>1, <1>2 DEF CallSafe
<1>4. Typed'
  BY <1>1, <1>2, <1>3 DEF Typed
<1>5. PolicyRespected'
  BY <1>1, <1>2 DEF PolicyRespected, Permitted
<1>6. CallSafe(c)'
  BY <1>1, <1>2 DEF CallSafe, Typed, Audited, Succeeded
<1>7. ASSUME NEW x \in Calls \ {c} PROVE CallSafe(x)'
  BY <1>1, <1>2, OthersSafe DEF IInv, Typed
<1>8. QED
  BY <1>4, <1>5, <1>6, <1>7 DEF IInv

\* A promise that nobody listens to changes nothing that is known of a call.
LEMMA LateSafe ==
  ASSUME IInv, NEW y \in late, LateSettles(y)
  PROVE  IInv'
<1>1. late' \subseteq late /\ UNCHANGED <<gateway, request, at, frames, answered, contacted, audit>>
  BY DEF LateSettles
<1>2. Typed'
  BY <1>1 DEF IInv, Typed
<1>3. PolicyRespected'
  BY <1>1 DEF IInv, PolicyRespected, Permitted
<1>4. ASSUME NEW x \in Calls PROVE CallSafe(x)'
  BY <1>1, OthersSafe DEF IInv
<1>5. QED
  BY <1>2, <1>3, <1>4 DEF IInv

\* Every step keeps the inductive invariant.
LEMMA SafeNext == IInv /\ [Next]_vars => IInv'
<1> SUFFICES ASSUME IInv, [Next]_vars PROVE IInv'
  OBVIOUS
<1>1. CASE UNCHANGED vars
  <2>1. ASSUME NEW x \in Calls PROVE CallSafe(x)'
    BY <1>1, OthersSafe DEF IInv, vars
  <2>2. QED
    BY <1>1, <2>1 DEF IInv, vars, Typed, PolicyRespected, Permitted
<1>2. CASE Next
  BY <1>2, BeginSafe, CatchSafe, AnswerSafe, FailureSafe, LateSafe DEF Next, Settle
<1>3. QED
  BY <1>1, <1>2

-----------------------------------------------------------------------------
(* Theorems                                                                *)

LEMMA AlwaysSafe == Spec => []IInv
BY InitSafe, SafeNext, PTL DEF Spec

\* Every variable keeps its type, and no call has more than two profiles on its stack.
THEOREM TypeCorrect == Spec => []TypeOK
<1>1. IInv => TypeOK
  BY StacksAreFrames DEF IInv, Typed, TypeOK
<1>2. QED
  BY <1>1, AlwaysSafe, PTL

\* Whatever is configured and however often a call is routed or falls back, it only ever contacts
\* providers that the policy permits for its surface.
THEOREM OnlyPermittedProviders == Spec => []PolicyRespected
<1>1. IInv => PolicyRespected
  BY DEF IInv
<1>2. QED
  BY <1>1, AlwaysSafe, PTL

\* Every dispatch that is over is on record, and a success is on record only of a call that has
\* returned, and of the provider whose answer it returned.
THEOREM EveryCallIsAudited == Spec => []AuditAccounts
<1>1. ASSUME IInv PROVE AuditAccounts
  <2>1. ASSUME NEW x \in contacted,
               x.provider \notin Range(frames[x.call]) \/ at[x.call] \in {"returned", "thrown"}
        PROVE  Audited(x.call, x.provider)
    <3>1. x.call \in Calls /\ CallSafe(x.call)
      BY <1>1 DEF IInv, Typed, Contacts
    <3>2. Range(<<>>) = {}
      BY Pairs
    <3>3. QED
      BY <2>1, <3>1, <3>2 DEF CallSafe
  <2>2. ASSUME NEW c \in Calls
        PROVE  LET successes == {r \in audit : r.call = c /\ r.success} IN
               IF at[c] = "returned"
               THEN [call |-> c, provider |-> answered[c], success |-> TRUE] \in successes
               ELSE successes = {}
    BY <1>1 DEF IInv, CallSafe, Succeeded
  <2>3. QED
    BY <2>1, <2>2 DEF AuditAccounts, Audited
<1>2. QED
  BY <1>1, AlwaysSafe, PTL
=============================================================================
