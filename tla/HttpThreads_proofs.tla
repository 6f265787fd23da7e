---------------------------- MODULE HttpThreads_proofs ----------------------------
(***************************************************************************)
(* PerformedAtMost and NotBothWays are invariants of Adapter, and so are   *)
(* AdapterSound and ListIsWhole, for any number of threads, entities,      *)
(* retries and looks and any errors.                                       *)
(*                                                                         *)
(* The invariant speaks about one thread at a time: what is said of thread *)
(* t is a property of its record, of the calls on the wire and of how      *)
(* often its calls were carried out.  The list has an invariant of its own *)
(* (ListInv), and so have the shapes of the records (TypedInv).            *)
(*                                                                         *)
(* The second part is about the same threads at what they share before     *)
(* they get to the adapter: SharedSound is an invariant of ParserThreads.  *)
(*                                                                         *)
(* The third part is about the rules by which they read a sentence, of any *)
(* length and any words: RulesSound is an invariant of ParserThreads too.  *)
(* It follows the clauses of a sentence from step to step: as they were    *)
(* heard (Heard), completed by each other (Told), read one after the other *)
(* (Said, Fair) and sent to the places of those before them (SpokenOf).    *)
(***************************************************************************)
EXTENDS Adapter, ParserThreads, FiniteSetTheorems, SequenceTheorems, WellFoundedInduction, TLAPS

Fields == {"pc", "op", "entity", "telling", "n", "tries", "way", "seen", "at", "success"}

\* How often a call is made the same way.
Limit == IF channel = "gateway" THEN 1 ELSE Retries + 1

Of(calls, t, w) == {c \in calls : c.of = t /\ c.way = w}

Trying(k) == k.pc \in {"sent", "performed"}

\* What is said of thread t: k its record, calls those on the wire, p how often
\* its calls were carried out.
Counted(k, calls, p, t) ==
    /\ \A c \in calls : c.of = t => c.n <= k.n
    /\ \A w \in Ways : p[w] + Cardinality(Of(calls, t, w)) <= Limit
    /\ Trying(k) => k.tries <= Limit /\ k.n >= 1
                    /\ p[k.way] + Cardinality(Of(calls, t, k.way)) <= k.tries
    /\ k.way = "direct" =>
          /\ p["proxy"] = 0 /\ Of(calls, t, "proxy") = {}
          /\ p["direct"] + Cardinality(Of(calls, t, "direct")) <= k.n
    /\ k.way = "proxy" =>
          /\ k.n >= 2
          /\ k.n = 2 => p["direct"] = 0 /\ Of(calls, t, "direct") = {}
    /\ k.pc = "new" => k.n = 0 /\ k.tries = 0 /\ k.way = "direct" /\ k.op = "none"

\* A call that was, or may still be, answered as a success was carried out.
Backed(k, p) ==
    /\ /\ k.op = "call"
       /\ \/ k.pc \in {"performed", "polling", "found", "looked"}
          \/ k.pc = "done" /\ k.success
       => p["direct"] + p["proxy"] > 0
    /\ k.pc = "asked" => k.op = "list"

Shapes ==
    /\ channel \in {"gateway", "mcp"}
    /\ wire \subseteq Call /\ IsFiniteSet(wire)
    /\ DOMAIN threads = Threads
    /\ \A t \in Threads : /\ DOMAIN threads[t] = Fields
                          /\ threads[t].n \in Nat /\ threads[t].tries \in Nat
                          /\ threads[t].way \in Ways
    /\ performed \in [Threads -> [Ways -> Nat]]

AdapterInv ==
    /\ Shapes
    /\ \A t \in Threads : /\ Counted(threads[t], wire, performed[t], t)
                          /\ Backed(threads[t], performed[t])

-----------------------------------------------------------------------------
(***************************************************************************)
(* Counting the calls of a thread                                          *)
(***************************************************************************)
LEMMA Few ==
  ASSUME NEW W, IsFiniteSet(W), NEW t, NEW w
  PROVE  IsFiniteSet(Of(W, t, w)) /\ Cardinality(Of(W, t, w)) \in Nat
<1>1. Of(W, t, w) \subseteq W
  BY DEF Of
<1> QED BY <1>1, FS_Subset, FS_CardinalityType

LEMMA Fewer ==
  ASSUME NEW W, IsFiniteSet(W), NEW V \in SUBSET W, NEW t, NEW w
  PROVE  Cardinality(Of(V, t, w)) <= Cardinality(Of(W, t, w))
<1>1. Of(V, t, w) \subseteq Of(W, t, w)
  BY DEF Of
<1> QED BY <1>1, Few, FS_Subset

LEMMA OneLess ==
  ASSUME NEW W, IsFiniteSet(W), NEW c \in W
  PROVE  /\ Cardinality(Of(W \ {c}, c.of, c.way)) = Cardinality(Of(W, c.of, c.way)) - 1
         /\ \A t, w : t # c.of \/ w # c.way => Of(W \ {c}, t, w) = Of(W, t, w)
<1>1. Of(W \ {c}, c.of, c.way) = Of(W, c.of, c.way) \ {c} /\ c \in Of(W, c.of, c.way)
  BY DEF Of
<1>2. \A t, w : t # c.of \/ w # c.way => Of(W \ {c}, t, w) = Of(W, t, w)
  BY DEF Of
<1> QED BY <1>1, <1>2, Few, FS_RemoveElement

LEMMA OneMoreCall ==
  ASSUME NEW W, IsFiniteSet(W), NEW c
  PROVE  /\ IsFiniteSet(W \union {c})
         /\ Cardinality(Of(W \union {c}, c.of, c.way)) <= Cardinality(Of(W, c.of, c.way)) + 1
         /\ \A t, w : t # c.of \/ w # c.way => Of(W \union {c}, t, w) = Of(W, t, w)
<1>1. Of(W \union {c}, c.of, c.way) = Of(W, c.of, c.way) \union {c}
  BY DEF Of
<1>2. \A t, w : t # c.of \/ w # c.way => Of(W \union {c}, t, w) = Of(W, t, w)
  BY DEF Of
<1>3. IsFiniteSet(Of(W, c.of, c.way)) /\ Cardinality(Of(W, c.of, c.way)) \in Nat
  BY Few
<1>4. Cardinality(Of(W, c.of, c.way) \union {c}) <= Cardinality(Of(W, c.of, c.way)) + 1
  <2> DEFINE S == Of(W, c.of, c.way)
  <2> HIDE DEF S
  <2>1. IsFiniteSet(S) /\ Cardinality(S) \in Nat
    BY <1>3 DEF S
  <2>2. Cardinality(S \union {c}) = IF c \in S THEN Cardinality(S) ELSE Cardinality(S) + 1
    BY <2>1, FS_AddElement
  <2>3. Cardinality(S \union {c}) <= Cardinality(S) + 1
    BY <2>1, <2>2
  <2> QED BY <2>3 DEF S
<1>5. IsFiniteSet(W \union {c})
  BY FS_AddElement
<1> QED BY <1>1, <1>2, <1>4, <1>5

LEMMA Nobody ==
  ASSUME NEW S, IsFiniteSet(S)
  PROVE  Cardinality(S) \in Nat /\ (Cardinality(S) = 0 <=> S = {})
BY FS_CardinalityType, FS_EmptySet

-----------------------------------------------------------------------------
(***************************************************************************)
(* What happens to one thread                                              *)
(***************************************************************************)
LEMMA Limited == channel \in {"gateway", "mcp"} => Limit \in Nat /\ Limit >= 1
BY BoundsAssumption DEF Limit

\* Calls of it are dropped.
LEMMA CallsDropped ==
  ASSUME NEW W, IsFiniteSet(W), NEW V \in SUBSET W, NEW k, NEW t, NEW p \in [Ways -> Nat],
         k.n \in Nat, k.tries \in Nat, k.way \in Ways, channel \in {"gateway", "mcp"},
         Counted(k, W, p, t)
  PROVE  Counted(k, V, p, t)
<1>1. IsFiniteSet(V)
  BY FS_Subset
<1>2. \A w \in Ways : /\ Cardinality(Of(V, t, w)) <= Cardinality(Of(W, t, w))
                      /\ Cardinality(Of(V, t, w)) \in Nat /\ Cardinality(Of(W, t, w)) \in Nat
                      /\ p[w] \in Nat
  BY <1>1, Fewer, Few
<1>3. \A w \in Ways : Of(V, t, w) \subseteq Of(W, t, w)
  BY DEF Of
<1>4. "direct" \in Ways /\ "proxy" \in Ways
  BY DEF Ways
<1>5. \A w \in Ways : p[w] + Cardinality(Of(V, t, w)) <= p[w] + Cardinality(Of(W, t, w))
  BY <1>2
<1>6. \A w \in Ways, m \in Nat : p[w] + Cardinality(Of(W, t, w)) <= m
                                   => p[w] + Cardinality(Of(V, t, w)) <= m
  BY <1>2
<1>7. \A c \in V : c.of = t => c.n <= k.n
  BY DEF Counted
<1>8. \A w \in Ways : p[w] + Cardinality(Of(V, t, w)) <= Limit
  BY <1>6, Limited DEF Counted
<1>9. Trying(k) => k.tries <= Limit /\ k.n >= 1
                   /\ p[k.way] + Cardinality(Of(V, t, k.way)) <= k.tries
  BY <1>6 DEF Counted
<1>10. k.way = "direct" =>
          /\ p["proxy"] = 0 /\ Of(V, t, "proxy") = {}
          /\ p["direct"] + Cardinality(Of(V, t, "direct")) <= k.n
  BY <1>3, <1>4, <1>6 DEF Counted
<1>11. k.way = "proxy" =>
          /\ k.n >= 2
          /\ k.n = 2 => p["direct"] = 0 /\ Of(V, t, "direct") = {}
  BY <1>3, <1>4 DEF Counted
<1>12. k.pc = "new" => k.n = 0 /\ k.tries = 0 /\ k.way = "direct" /\ k.op = "none"
  BY DEF Counted
<1> QED BY <1>7, <1>8, <1>9, <1>10, <1>11, <1>12 DEF Counted

\* Calls of others come and go.
LEMMA CallsOfOthers ==
  ASSUME NEW W, NEW V, NEW k, NEW t, NEW p, Counted(k, W, p, t),
         \A w \in Ways : Of(V, t, w) = Of(W, t, w),
         \A c \in V : c.of = t => c \in W, k.way \in Ways
  PROVE  Counted(k, V, p, t)
<1>1. "direct" \in Ways /\ "proxy" \in Ways
  BY DEF Ways
<1> QED BY <1>1 DEF Counted

\* It goes on without a call.
LEMMA GoesOnQuietly ==
  ASSUME NEW W, NEW k, NEW m, NEW t, NEW p, Counted(k, W, p, t),
         m.n = k.n, m.way = k.way, m.pc # "new", Trying(m) => Trying(k) /\ m.tries = k.tries
  PROVE  Counted(m, W, p, t)
BY DEF Counted

\* It sends its next call the same way.
LEMMA SendsAgain ==
  ASSUME NEW W, IsFiniteSet(W), NEW k, NEW m, NEW t, NEW p \in [Ways -> Nat], Counted(k, W, p, t),
         W \subseteq Call,
         k.n \in Nat, k.tries \in Nat, k.way \in Ways, channel \in {"gateway", "mcp"},
         k.pc = "sent" \/ k.pc = "new", k.tries < Limit,
         m.pc = "sent", m.n = k.n + 1, m.tries = k.tries + 1, m.way = k.way,
         NEW c, c.of = t, c.n = k.n + 1, c.way = k.way
  PROVE  Counted(m, W \union {c}, p, t)
<1> DEFINE V == W \union {c}
<1>1. "direct" \in Ways /\ "proxy" \in Ways
  BY DEF Ways
<1>2. /\ Cardinality(Of(V, t, k.way)) <= Cardinality(Of(W, t, k.way)) + 1
      /\ \A w : w # k.way => Of(V, t, w) = Of(W, t, w)
      /\ IsFiniteSet(V)
  BY OneMoreCall
<1>3. \A w \in Ways : Cardinality(Of(V, t, w)) \in Nat /\ Cardinality(Of(W, t, w)) \in Nat
                      /\ p[w] \in Nat
  BY <1>2, Few
<1>4. Limit \in Nat /\ Limit >= 1
  BY Limited
<1>5. p[k.way] + Cardinality(Of(W, t, k.way)) <= k.tries
  <2>1. CASE k.pc = "sent"
    BY <2>1 DEF Counted, Trying
  <2>2. CASE k.pc = "new"
    <3>1. k.n = 0 /\ k.tries = 0 /\ k.way = "direct"
      BY <2>2 DEF Counted
    <3> QED BY <3>1 DEF Counted
  <2> QED BY <2>1, <2>2
<1>6. \A d \in V : d.of = t => d.n <= m.n
  <2>1. \A d \in W : d.of = t => d.n <= k.n /\ d.n \in Nat
    BY DEF Counted, Call
  <2> QED BY <2>1
<1> HIDE DEF V
<1>7. p[k.way] + Cardinality(Of(V, t, k.way)) <= k.tries + 1
  BY <1>2, <1>3, <1>5
<1>8. \A w \in Ways : p[w] + Cardinality(Of(V, t, w)) <= Limit
  <2>1. TAKE w \in Ways
  <2>2. CASE w = k.way
    BY <1>3, <1>4, <1>7, <2>2
  <2>3. CASE w # k.way
    BY <1>2, <2>3 DEF Counted
  <2> QED BY <2>2, <2>3
<1>9. m.tries <= Limit /\ m.n >= 1 /\ p[m.way] + Cardinality(Of(V, t, m.way)) <= m.tries
  BY <1>4, <1>7
<1>10. m.way = "direct" =>
          /\ p["proxy"] = 0 /\ Of(V, t, "proxy") = {}
          /\ p["direct"] + Cardinality(Of(V, t, "direct")) <= m.n
  <2> SUFFICES ASSUME k.way = "direct"
               PROVE  /\ p["proxy"] = 0 /\ Of(V, t, "proxy") = {}
                      /\ p["direct"] + Cardinality(Of(V, t, "direct")) <= k.n + 1
    OBVIOUS
  <2>1. p["proxy"] = 0 /\ Of(W, t, "proxy") = {}
        /\ p["direct"] + Cardinality(Of(W, t, "direct")) <= k.n
    BY DEF Counted
  <2> QED BY <1>1, <1>2, <1>3, <2>1
<1>11. m.way = "proxy" => m.n > 2
  <2>1. k.way = "proxy" => k.n >= 2
    BY DEF Counted
  <2> QED BY <2>1
<1>12. Counted(m, V, p, t)
  BY <1>6, <1>8, <1>9, <1>10, <1>11 DEF Counted
<1> QED BY <1>12 DEF V

\* Its call by the missing tool is answered; it calls by the proxy.
LEMMA GoesByProxy ==
  ASSUME NEW W, IsFiniteSet(W), NEW k, NEW m, NEW t, NEW p \in [Ways -> Nat], Counted(k, W, p, t),
         k.n \in Nat, k.tries \in Nat, k.way = "direct", channel \in {"gateway", "mcp"},
         k.pc = "sent", NEW d \in W, d.of = t, W \subseteq Call,
         m.pc = "sent", m.n = k.n + 1, m.tries = 1, m.way = "proxy",
         NEW c, c.of = t, c.n = k.n + 1, c.way = "proxy"
  PROVE  Counted(m, (W \ {d}) \union {c}, p, t)
<1> DEFINE U == W \ {d}
           V == U \union {c}
<1>1. "direct" \in Ways /\ "proxy" \in Ways /\ \A w \in Ways : w = "direct" \/ w = "proxy"
  BY DEF Ways
<1>2. IsFiniteSet(U)
  BY FS_RemoveElement
<1>3. p["proxy"] = 0 /\ Of(W, t, "proxy") = {}
      /\ p["direct"] + Cardinality(Of(W, t, "direct")) <= k.n
  BY DEF Counted
<1>4. d.way = "direct"
  <2>1. d.way \in Ways
    BY DEF Call
  <2> QED BY <1>1, <1>3, <2>1 DEF Of
<1>5. Cardinality(Of(U, t, "direct")) = Cardinality(Of(W, t, "direct")) - 1
  BY <1>4, OneLess
<1>6. Of(U, t, "proxy") = {}
  BY <1>3 DEF Of
<1>7. /\ Cardinality(Of(V, t, "proxy")) <= Cardinality(Of(U, t, "proxy")) + 1
      /\ Of(V, t, "direct") = Of(U, t, "direct") /\ IsFiniteSet(V)
  <2>1. /\ IsFiniteSet(U \union {c})
        /\ Cardinality(Of(U \union {c}, c.of, c.way)) <= Cardinality(Of(U, c.of, c.way)) + 1
        /\ \A u, w : u # c.of \/ w # c.way => Of(U \union {c}, u, w) = Of(U, u, w)
    BY <1>2, OneMoreCall
  <2> QED BY <2>1
<1>8. Cardinality(Of(V, t, "proxy")) <= 1
  BY <1>6, <1>7, FS_EmptySet
<1>9. \A w \in Ways : Cardinality(Of(V, t, w)) \in Nat /\ Cardinality(Of(W, t, w)) \in Nat
                      /\ Cardinality(Of(U, t, w)) \in Nat /\ p[w] \in Nat
                      /\ IsFiniteSet(Of(U, t, w))
  BY <1>2, <1>7, Few
<1>10. Limit \in Nat /\ Limit >= 1 /\ k.n >= 1
  BY Limited DEF Counted, Trying
<1>11. \A e \in V : e.of = t => e.n <= m.n
  <2>1. \A e \in W : e.of = t => e.n <= k.n /\ e.n \in Nat
    BY DEF Counted, Call
  <2> QED BY <2>1
<1>12. p["direct"] + Cardinality(Of(W, t, "direct")) <= Limit
  BY <1>1 DEF Counted
<1> HIDE DEF U, V
<1>13. \A w \in Ways : p[w] + Cardinality(Of(V, t, w)) <= Limit
  <2>1. p["direct"] + Cardinality(Of(V, t, "direct")) <= Limit
    BY <1>1, <1>5, <1>7, <1>9, <1>10, <1>12
  <2>2. p["proxy"] + Cardinality(Of(V, t, "proxy")) <= Limit
    BY <1>1, <1>3, <1>8, <1>9, <1>10
  <2> QED BY <1>1, <2>1, <2>2
<1>14. p["proxy"] + Cardinality(Of(V, t, "proxy")) <= 1
  BY <1>1, <1>3, <1>8, <1>9
<1>15. m.n >= 2
  BY <1>10
<1>16. m.n = 2 => p["direct"] = 0 /\ Of(V, t, "direct") = {}
  <2> SUFFICES ASSUME m.n = 2 PROVE p["direct"] = 0 /\ Of(V, t, "direct") = {}
    OBVIOUS
  <2>1. p["direct"] + Cardinality(Of(U, t, "direct")) <= 0
    BY <1>1, <1>3, <1>5, <1>9
  <2>2. p["direct"] = 0 /\ Cardinality(Of(U, t, "direct")) = 0
    BY <1>1, <1>9, <2>1
  <2> QED BY <1>1, <1>7, <1>9, <2>2, Nobody
<1>17. Counted(m, V, p, t)
  BY <1>10, <1>11, <1>13, <1>14, <1>15, <1>16 DEF Counted
<1> QED BY <1>17 DEF U, V

\* A call of it is carried out.
LEMMA IsPerformed ==
  ASSUME NEW W, IsFiniteSet(W), NEW k, NEW c \in W, NEW p \in [Ways -> Nat], NEW t, c.of = t,
         Counted(k, W, p, t), c.way \in Ways,
         k.n \in Nat, k.tries \in Nat, k.way \in Ways, channel \in {"gateway", "mcp"}
  PROVE  Counted(k, W \ {c}, [p EXCEPT ![c.way] = @ + 1], t)
<1> DEFINE V == W \ {c}
           q == [p EXCEPT ![c.way] = @ + 1]
<1>1. "direct" \in Ways /\ "proxy" \in Ways /\ \A w \in Ways : w = "direct" \/ w = "proxy"
  BY DEF Ways
<1>2. \A w \in Ways : q[w] = IF w = c.way THEN p[w] + 1 ELSE p[w]
  OBVIOUS
<1>3. /\ Cardinality(Of(V, t, c.way)) = Cardinality(Of(W, t, c.way)) - 1
      /\ \A w : w # c.way => Of(V, t, w) = Of(W, t, w)
  BY OneLess
<1>4. \A w \in Ways : Cardinality(Of(W, t, w)) \in Nat /\ p[w] \in Nat
  BY Few
<1>5. \A w \in Ways : q[w] + Cardinality(Of(V, t, w)) = p[w] + Cardinality(Of(W, t, w))
  <2>1. TAKE w \in Ways
  <2>2. CASE w = c.way
    <3>1. q[w] = p[w] + 1 /\ Cardinality(Of(V, t, w)) = Cardinality(Of(W, t, w)) - 1
      BY <1>2, <1>3, <2>2
    <3> HIDE DEF q, V
    <3> QED BY <1>4, <3>1
  <2>3. CASE w # c.way
    BY <1>2, <1>3, <2>3
  <2> QED BY <2>2, <2>3
<1>6. c \in Of(W, t, c.way)
  BY DEF Of
<1>7. \A d \in V : d.of = t => d.n <= k.n
  BY DEF Counted
<1>8. k.way = "direct" => c.way = "direct" /\ q["proxy"] = 0 /\ Of(V, t, "proxy") = {}
  BY <1>1, <1>2, <1>3, <1>6 DEF Counted
<1>9. k.way = "proxy" /\ k.n = 2 => q["direct"] = 0 /\ Of(V, t, "direct") = {}
  BY <1>1, <1>2, <1>3, <1>6 DEF Counted
<1>10. k.pc # "new"
  <2> SUFFICES ASSUME k.pc = "new" PROVE FALSE
    OBVIOUS
  <2>1. k.n = 0 /\ k.way = "direct"
    BY DEF Counted
  <2>2. Of(W, t, "proxy") = {} /\ p["direct"] + Cardinality(Of(W, t, "direct")) <= 0
    BY <2>1 DEF Counted
  <2>3. Cardinality(Of(W, t, "direct")) = 0
    BY <1>1, <1>4, <2>2
  <2>4. Of(W, t, "direct") = {}
    BY <2>3, Few, Nobody
  <2> QED BY <1>1, <1>6, <2>2, <2>4
<1> HIDE DEF V, q
<1>11. Counted(k, V, q, t)
  BY <1>1, <1>5, <1>7, <1>8, <1>9, <1>10 DEF Counted
<1> QED BY <1>11 DEF V, q

-----------------------------------------------------------------------------
(***************************************************************************)
(* The invariant and the steps                                             *)
(***************************************************************************)
LEMMA AdapterInit == Init => AdapterInv
<1> SUFFICES ASSUME Init PROVE AdapterInv
  OBVIOUS
<1>1. wire = {} /\ IsFiniteSet(wire) /\ \A t, w : Of(wire, t, w) = {}
  BY FS_EmptySet DEF Init, Of
<1>2. \A t \in Threads : /\ DOMAIN threads[t] = Fields
                         /\ threads[t].n = 0 /\ threads[t].tries = 0 /\ threads[t].way = "direct"
                         /\ threads[t].pc = "new" /\ threads[t].op = "none"
  BY DEF Init, Fields
<1>3. performed = [t \in Threads |-> [w \in Ways |-> 0]] /\ channel \in {"gateway", "mcp"}
      /\ DOMAIN threads = Threads
  BY DEF Init
<1>4. "direct" \in Ways /\ "proxy" \in Ways
  BY DEF Ways
<1>5. Shapes
  BY <1>1, <1>2, <1>3, <1>4 DEF Shapes
<1>6. \A t \in Threads : Counted(threads[t], wire, performed[t], t)
  <2> SUFFICES ASSUME NEW t \in Threads PROVE Counted(threads[t], wire, performed[t], t) OBVIOUS
  <2>1. \A w \in Ways : performed[t][w] = 0 /\ Cardinality(Of(wire, t, w)) = 0
    BY <1>1, <1>3, FS_EmptySet
  <2>2. Limit \in Nat /\ Limit >= 1 BY <1>3, Limited
  <2> QED BY <1>1, <1>2, <1>4, <2>1, <2>2 DEF Counted, Trying
<1>7. \A t \in Threads : Backed(threads[t], performed[t])
  BY <1>2 DEF Backed
<1> QED BY <1>5, <1>6, <1>7 DEF AdapterInv

\* A step of one thread, which leaves the calls of the others alone.
LEMMA OneMoves ==
  ASSUME AdapterInv, NEW t \in Threads, NEW m, Becomes(t, m), UNCHANGED <<channel, performed>>,
         DOMAIN m = Fields, m.n \in Nat, m.tries \in Nat, m.way \in Ways,
         wire' \subseteq Call, IsFiniteSet(wire'),
         \A c : c.of # t => (c \in wire' <=> c \in wire),
         Counted(m, wire', performed[t], t), Backed(m, performed[t])
  PROVE  AdapterInv'
<1>1. \A u \in Threads : threads'[u] = IF u = t THEN m ELSE threads[u]
  BY DEF AdapterInv, Shapes, Becomes
<1>2. Shapes'
  BY <1>1 DEF AdapterInv, Shapes, Becomes
<1>3. Limit' = Limit
  BY DEF Limit
<1>4. ASSUME NEW u \in Threads
      PROVE  Counted(threads'[u], wire', performed[u], u) /\ Backed(threads'[u], performed[u])
  <2>1. CASE u = t
    BY <1>1, <2>1
  <2>2. CASE u # t
    <3>1. \A w \in Ways : Of(wire', u, w) = Of(wire, u, w)
      BY <2>2 DEF Of
    <3>2. Counted(threads[u], wire, performed[u], u) /\ Backed(threads[u], performed[u])
          /\ threads[u].way \in Ways
      BY DEF AdapterInv, Shapes
    <3>3. \A c \in wire' : c.of = u => c \in wire
      BY <2>2
    <3>4. Counted(threads[u], wire', performed[u], u)
      BY <3>1, <3>2, <3>3, CallsOfOthers
    <3> QED BY <1>1, <2>2, <3>2, <3>4
  <2> QED BY <2>1, <2>2
<1>5. \A u \in Threads : Counted(threads[u], wire, performed[u], u)'
  BY <1>3, <1>4 DEF Counted
<1> QED BY <1>2, <1>4, <1>5 DEF AdapterInv, Backed

\* A thread goes on without a call.
LEMMA OneIsQuiet ==
  ASSUME AdapterInv, NEW t \in Threads, NEW m, Becomes(t, m), UNCHANGED <<channel, performed>>,
         DOMAIN m = Fields, m.n = threads[t].n, m.way = threads[t].way, m.tries \in Nat,
         m.pc # "new", Trying(m) => Trying(threads[t]) /\ m.tries = threads[t].tries,
         wire' \in SUBSET wire, \A c : c.of # t => (c \in wire' <=> c \in wire),
         Backed(m, performed[t])
  PROVE  AdapterInv'
<1>1. /\ IsFiniteSet(wire) /\ wire \subseteq Call /\ channel \in {"gateway", "mcp"}
      /\ threads[t].n \in Nat /\ threads[t].tries \in Nat /\ threads[t].way \in Ways
      /\ performed[t] \in [Ways -> Nat] /\ Counted(threads[t], wire, performed[t], t)
  BY DEF AdapterInv, Shapes
<1>2. Counted(threads[t], wire', performed[t], t)
  BY <1>1, CallsDropped
<1>3. Counted(m, wire', performed[t], t)
  BY <1>2, GoesOnQuietly
<1>4. wire' \subseteq Call /\ IsFiniteSet(wire')
  BY <1>1, FS_Subset
<1> QED BY <1>1, <1>3, <1>4, OneMoves

\* A thread whose request ends has no success it did not earn.
LEMMA OneEnds ==
  ASSUME AdapterInv, NEW t \in Threads, NEW b \in BOOLEAN, Ends(t, b),
         UNCHANGED <<channel, performed>>,
         wire' \in SUBSET wire, \A c : c.of # t => (c \in wire' <=> c \in wire),
         b /\ threads[t].op = "call" => threads[t].pc \in {"performed", "looked"}
  PROVE  AdapterInv'
<1> DEFINE m == [threads[t] EXCEPT !.pc = "done", !.tries = 0, !.seen = FALSE, !.at = 0,
                                   !.success = b]
<1>1. Becomes(t, m) /\ DOMAIN threads[t] = Fields /\ Backed(threads[t], performed[t])
  BY DEF Ends, AdapterInv, Shapes
<1>2. DOMAIN m = Fields /\ m.n = threads[t].n /\ m.way = threads[t].way /\ m.tries = 0
      /\ m.pc = "done" /\ m.op = threads[t].op /\ m.success = b
  BY <1>1 DEF Fields
<1> HIDE DEF m
<1>3. Backed(m, performed[t]) /\ ~Trying(m) /\ m.pc # "new" /\ m.tries \in Nat
  BY <1>1, <1>2 DEF Backed, Trying
<1> QED BY <1>1, <1>2, <1>3, OneIsQuiet

\* A call failed: its thread tries again, by the proxy, or no more.
LEMMA OneFails ==
  ASSUME AdapterInv, NEW t \in Threads, NEW error, NEW calls \in SUBSET wire, threads[t].pc = "sent",
         Fails(t, error, calls), UNCHANGED <<channel, performed>>,
         \A c : c.of # t => (c \in calls <=> c \in wire),
         MissingTool(error) /\ ErrorCode(error) # "UPSTREAM_TIMEOUT" =>
             \E d \in wire : d.of = t /\ calls = wire \ {d}
  PROVE  AdapterInv'
<1> DEFINE k == threads[t]
           new == [of |-> t, n |-> k.n + 1, way |-> k.way]
           again == [k EXCEPT !.pc = "sent", !.n = @ + 1, !.tries = @ + 1]
           other == [[k EXCEPT !.way = "proxy", !.tries = 0]
                        EXCEPT !.pc = "sent", !.n = @ + 1, !.tries = @ + 1]
           byproxy == [of |-> t, n |-> k.n + 1, way |-> "proxy"]
<1>1. /\ IsFiniteSet(wire) /\ wire \subseteq Call /\ channel \in {"gateway", "mcp"}
      /\ k.n \in Nat /\ k.tries \in Nat /\ k.way \in Ways /\ DOMAIN k = Fields
      /\ performed[t] \in [Ways -> Nat] /\ Counted(k, wire, performed[t], t)
      /\ "proxy" \in Ways
  BY DEF AdapterInv, Shapes, Ways
<1>2. IsFiniteSet(calls) /\ calls \subseteq Call
  BY <1>1, FS_Subset
<1>3. CASE TriesAgain(t, error)
  <2>1. Becomes(t, again) /\ wire' = calls \union {new}
    BY <1>3 DEF Fails, Send
  <2>2. k.tries < Limit
    BY <1>1, <1>3, BoundsAssumption DEF TriesAgain, Limit
  <2>3. DOMAIN again = Fields /\ again.n = k.n + 1 /\ again.tries = k.tries + 1
        /\ again.way = k.way /\ again.pc = "sent"
    BY <1>1 DEF Fields
  <2>4. new.of = t /\ new.n = k.n + 1 /\ new.way = k.way /\ new \in Call
    BY <1>1 DEF Call
  <2>5. Counted(k, calls, performed[t], t)
    BY <1>1, CallsDropped
  <2> HIDE DEF k, new, again
  <2>6. Counted(again, calls \union {new}, performed[t], t)
    BY <1>1, <1>2, <2>2, <2>3, <2>4, <2>5, SendsAgain DEF k
  <2>7. wire' \subseteq Call /\ IsFiniteSet(wire')
    BY <1>2, <2>1, <2>4, FS_AddElement
  <2>8. \A c : c.of # t => (c \in wire' <=> c \in wire)
    BY <2>1, <2>4
  <2>9. Backed(again, performed[t]) /\ again.n \in Nat /\ again.tries \in Nat
    BY <1>1, <2>3 DEF Backed
  <2> QED BY <1>1, <2>1, <2>3, <2>6, <2>7, <2>8, <2>9, OneMoves
<1>4. CASE ~TriesAgain(t, error) /\ channel = "mcp" /\ k.way = "direct" /\ MissingTool(error)
  <2>1. Becomes(t, other) /\ wire' = calls \union {[of |-> t, n |-> [k EXCEPT !.way = "proxy",
                                                       !.tries = 0].n + 1,
                                    way |-> [k EXCEPT !.way = "proxy", !.tries = 0].way]}
    BY <1>4 DEF Fails, Fail, Send
  <2>2. [k EXCEPT !.way = "proxy", !.tries = 0].n = k.n
        /\ [k EXCEPT !.way = "proxy", !.tries = 0].way = "proxy"
    BY <1>1 DEF Fields
  <2>3. wire' = calls \union {byproxy}
    BY <2>1, <2>2
  <2>4. DOMAIN other = Fields /\ other.n = k.n + 1 /\ other.tries = 1
        /\ other.way = "proxy" /\ other.pc = "sent"
    BY <1>1 DEF Fields
  <2>5. byproxy.of = t /\ byproxy.n = k.n + 1 /\ byproxy.way = "proxy" /\ byproxy \in Call
    BY <1>1 DEF Call
  <2>6. ErrorCode(error) # "UPSTREAM_TIMEOUT"
    BY <1>4 DEF MissingTool
  <2>7. PICK d \in wire : d.of = t /\ calls = wire \ {d}
    BY <1>4, <2>6
  <2> HIDE DEF k, byproxy, other
  <2>8. k.pc = "sent"
    BY DEF k
  <2>9. Counted(other, (wire \ {d}) \union {byproxy}, performed[t], t)
    BY <1>1, <1>4, <2>4, <2>5, <2>7, <2>8, GoesByProxy
  <2>10. wire' \subseteq Call /\ IsFiniteSet(wire')
    BY <1>2, <2>3, <2>5, FS_AddElement
  <2>11. \A c : c.of # t => (c \in wire' <=> c \in wire)
    BY <2>3, <2>5
  <2>12. Backed(other, performed[t]) /\ other.n \in Nat /\ other.tries \in Nat
    BY <1>1, <2>4 DEF Backed
  <2> QED BY <1>1, <2>1, <2>3, <2>4, <2>7, <2>9, <2>10, <2>11, <2>12, OneMoves
<1>5. CASE ~TriesAgain(t, error) /\ ~(channel = "mcp" /\ k.way = "direct" /\ MissingTool(error))
  <2>1. Ends(t, FALSE) /\ wire' = calls
    BY <1>5 DEF Fails, Fail
  <2> QED BY <2>1, OneEnds
<1> QED BY <1>3, <1>4, <1>5

\* A step that only touches the list.
LEMMA KeepAge ==
  ASSUME AdapterInv, UNCHANGED <<channel, wire, threads, performed>>
  PROVE  AdapterInv'
BY DEF AdapterInv, Shapes, Counted, Limit, Of

\* What is known of a thread before it moves.
LEMMA Known ==
  ASSUME AdapterInv, NEW t \in Threads
  PROVE  /\ DOMAIN threads[t] = Fields /\ threads[t].n \in Nat /\ threads[t].tries \in Nat
         /\ threads[t].way \in Ways /\ Backed(threads[t], performed[t])
         /\ Counted(threads[t], wire, performed[t], t)
         /\ (threads[t].pc = "new" => threads[t].op = "none")
BY DEF AdapterInv, Shapes, Counted

LEMMA KeepList ==
  ASSUME AdapterInv, NEW t \in Threads, List(t)
  PROVE  AdapterInv'
<1> DEFINE m == [threads[t] EXCEPT !.op = "list", !.pc = IF ListWillDo THEN "done" ELSE "asked"]
<1>1. Becomes(t, m) /\ UNCHANGED <<channel, wire, performed>>
  BY DEF List
<1>2. DOMAIN m = Fields /\ m.n = threads[t].n /\ m.way = threads[t].way
      /\ m.tries = threads[t].tries /\ m.pc \in {"done", "asked"} /\ m.op = "list"
  BY Known DEF Fields
<1> HIDE DEF m
<1>3. Backed(m, performed[t]) /\ ~Trying(m) /\ m.pc # "new" /\ m.tries \in Nat
  BY <1>2, Known DEF Backed, Trying
<1> QED BY <1>1, <1>2, <1>3, OneIsQuiet

LEMMA KeepDiscover ==
  ASSUME AdapterInv, NEW t \in Threads, Discover(t) \/ DiscoverFails(t)
  PROVE  AdapterInv'
<1>1. Ends(t, TRUE) /\ threads[t].pc = "asked" /\ UNCHANGED <<channel, wire, performed>>
  BY DEF Discover, DiscoverFails, At
<1>2. threads[t].op # "call"
  BY <1>1, Known DEF Backed
<1> QED BY <1>1, <1>2, OneEnds

LEMMA KeepCallService ==
  ASSUME AdapterInv, NEW t \in Threads, NEW e \in Entities, NEW b \in BOOLEAN,
         CallService(t, e, b)
  PROVE  AdapterInv'
<1> DEFINE k == threads[t]
           start == [k EXCEPT !.op = "call", !.entity = e, !.telling = b]
           m == [start EXCEPT !.pc = "sent", !.n = @ + 1, !.tries = @ + 1]
           c == [of |-> t, n |-> start.n + 1, way |-> start.way]
<1>1. Becomes(t, m) /\ wire' = wire \union {c} /\ k.pc = "new" /\ UNCHANGED <<channel, performed>>
  BY DEF CallService, Send, At
<1>2. DOMAIN m = Fields /\ m.n = k.n + 1 /\ m.tries = k.tries + 1 /\ m.way = k.way
      /\ m.pc = "sent" /\ start.n = k.n /\ start.way = k.way
  BY Known DEF Fields
<1>3. c.of = t /\ c.n = k.n + 1 /\ c.way = k.way /\ c \in Call
  BY <1>2, Known DEF Call
<1>4. k.tries < Limit /\ channel \in {"gateway", "mcp"}
  BY <1>1, Known, Limited DEF Counted, AdapterInv, Shapes
<1>5. IsFiniteSet(wire) /\ wire \subseteq Call /\ performed[t] \in [Ways -> Nat]
  BY DEF AdapterInv, Shapes
<1> HIDE DEF c, m, start
<1>6. k.n \in Nat /\ k.tries \in Nat /\ k.way \in Ways /\ Counted(k, wire, performed[t], t)
  BY Known
<1> HIDE DEF k
<1>7. Counted(m, wire \union {c}, performed[t], t)
  BY <1>1, <1>2, <1>3, <1>4, <1>5, <1>6, SendsAgain
<1>8. wire' \subseteq Call /\ IsFiniteSet(wire') /\ \A d : d.of # t => (d \in wire' <=> d \in wire)
  BY <1>1, <1>3, <1>5, FS_AddElement
<1>9. Backed(m, performed[t]) /\ m.n \in Nat /\ m.tries \in Nat /\ m.way \in Ways
  BY <1>2, <1>6 DEF Backed
<1> QED BY <1>1, <1>2, <1>7, <1>8, <1>9, OneMoves

LEMMA KeepPerform ==
  ASSUME AdapterInv, NEW c \in wire, Perform(c)
  PROVE  AdapterInv'
<1> DEFINE t == c.of
           k == threads[t]
           p == performed[t]
           q == [p EXCEPT ![c.way] = @ + 1]
           m == [k EXCEPT !.pc = "performed"]
<1>1. wire' = wire \ {c} /\ performed' = [performed EXCEPT ![t] = q] /\ channel' = channel
      /\ (UNCHANGED threads \/ (k.pc = "sent" /\ Becomes(t, m)))
  BY DEF Perform, Awaited, At
<1>2. /\ t \in Threads /\ c.way \in Ways /\ p \in [Ways -> Nat] /\ IsFiniteSet(wire)
      /\ channel \in {"gateway", "mcp"} /\ wire \subseteq Call
      /\ performed \in [Threads -> [Ways -> Nat]] /\ DOMAIN threads = Threads
  BY DEF AdapterInv, Shapes, Call
<1>3. k.n \in Nat /\ k.tries \in Nat /\ k.way \in Ways /\ Counted(k, wire, p, t) /\ Backed(k, p)
      /\ DOMAIN k = Fields
  BY <1>2, Known
<1>4. m.n = k.n /\ m.tries = k.tries /\ m.way = k.way /\ m.pc = "performed" /\ DOMAIN m = Fields
  BY <1>3 DEF Fields
<1>5. q \in [Ways -> Nat] /\ q["direct"] + q["proxy"] > 0
  <2>1. q \in [Ways -> Nat] /\ q[c.way] = p[c.way] + 1
        /\ \A w \in Ways : w # c.way => q[w] = p[w]
    BY <1>2
  <2>2. "direct" \in Ways /\ "proxy" \in Ways /\ (c.way = "direct" \/ c.way = "proxy")
    BY <1>2 DEF Ways
  <2> HIDE DEF q, p
  <2>3. p["direct"] \in Nat /\ p["proxy"] \in Nat
    BY <1>2, <2>2
  <2> QED BY <2>1, <2>2, <2>3
<1>6. Counted(k, wire \ {c}, q, t)
  <2> HIDE DEF k, p
  <2> QED BY <1>2, <1>3, IsPerformed
<1> HIDE DEF q, m
<1>7. k.pc = "sent" => Counted(m, wire \ {c}, q, t)
  BY <1>4, <1>6, GoesOnQuietly DEF Trying
<1>8. Backed(k, q) /\ Backed(m, q)
  BY <1>3, <1>4, <1>5 DEF Backed
<1>9. \A u \in Threads : /\ threads'[u] = threads[u] \/ (u = t /\ threads'[u] = m /\ k.pc = "sent")
                         /\ performed'[u] = IF u = t THEN q ELSE performed[u]
  BY <1>1, <1>2 DEF Becomes
<1>10. Shapes'
  <2>1. IsFiniteSet(wire') /\ wire' \subseteq Call
    BY <1>1, <1>2, FS_RemoveElement
  <2>2. performed' \in [Threads -> [Ways -> Nat]]
    BY <1>1, <1>2, <1>5
  <2>3. DOMAIN threads' = Threads
    BY <1>1, <1>2 DEF Becomes
  <2>4. \A u \in Threads : /\ DOMAIN threads'[u] = Fields
                           /\ threads'[u].n \in Nat /\ threads'[u].tries \in Nat
                           /\ threads'[u].way \in Ways
    BY <1>3, <1>4, <1>9, Known
  <2> QED BY <1>1, <1>2, <2>1, <2>2, <2>3, <2>4 DEF Shapes
<1>11. ASSUME NEW u \in Threads
       PROVE  Counted(threads'[u], wire', performed'[u], u) /\ Backed(threads'[u], performed'[u])
  <2>1. CASE u = t
    BY <1>1, <1>6, <1>7, <1>8, <1>9, <2>1
  <2>2. CASE u # t
    <3>1. threads'[u] = threads[u] /\ performed'[u] = performed[u]
      BY <1>9, <2>2
    <3>2. \A w \in Ways : Of(wire', u, w) = Of(wire, u, w)
      BY <1>1, <2>2 DEF Of
    <3>3. Counted(threads[u], wire', performed[u], u)
      BY <1>1, <3>2, Known, CallsOfOthers
    <3> QED BY <3>1, <3>3, Known
  <2> QED BY <2>1, <2>2
<1>12. \A u \in Threads : Counted(threads[u], wire, performed[u], u)'
  BY <1>1, <1>11 DEF Counted, Limit
<1> QED BY <1>10, <1>11, <1>12 DEF AdapterInv, Backed

LEMMA KeepDrop ==
  ASSUME AdapterInv, NEW c \in wire, Drop(c)
  PROVE  AdapterInv'
<1>1. wire' = wire \ {c} /\ UNCHANGED <<channel, threads, performed>>
  BY DEF Drop
<1>2. Shapes'
  BY <1>1, FS_RemoveElement DEF AdapterInv, Shapes
<1>3. ASSUME NEW u \in Threads
      PROVE  Counted(threads[u], wire', performed[u], u)
  <2>1. performed[u] \in [Ways -> Nat] /\ channel \in {"gateway", "mcp"} /\ IsFiniteSet(wire)
    BY DEF AdapterInv, Shapes
  <2> QED BY <1>1, <2>1, Known, CallsDropped
<1>4. \A u \in Threads : Counted(threads[u], wire, performed[u], u)'
  BY <1>1, <1>3 DEF Counted, Limit
<1> QED BY <1>1, <1>2, <1>4, Known DEF AdapterInv, Backed

LEMMA KeepRefuse ==
  ASSUME AdapterInv, NEW c \in wire, NEW error, Refuse(c, error)
  PROVE  AdapterInv'
<1>1. threads[c.of].pc = "sent" /\ UNCHANGED <<channel, performed>> /\ c.of \in Threads
  BY DEF Refuse, Awaited, At, AdapterInv, Shapes, Call
<1>2. CASE Fails(c.of, error, wire \ {c})
  BY <1>1, <1>2, OneFails
<1>3. CASE ErrorCode(error) = "UPSTREAM_TIMEOUT" /\ Fails(c.of, error, wire)
  BY <1>1, <1>3, OneFails
<1> QED BY <1>2, <1>3 DEF Refuse

\* A timeout or a broken connection says nothing of a tool.
LEMMA KeepTimeOut ==
  ASSUME AdapterInv, NEW t \in Threads, TimeOut(t) \/ LinkFails(t)
  PROVE  AdapterInv'
<1>1. PICK error : error.words = {} /\ Fails(t, error, wire)
  BY DEF TimeOut, LinkFails
<1>2. threads[t].pc = "sent" /\ UNCHANGED <<channel, performed>> /\ ~MissingTool(error)
  BY <1>1 DEF TimeOut, LinkFails, At, MissingTool
<1> QED BY <1>1, <1>2, OneFails

LEMMA KeepGoOn ==
  ASSUME AdapterInv, NEW t \in Threads, GoOn(t)
  PROVE  AdapterInv'
<1>1. threads[t].pc = "performed" /\ UNCHANGED <<channel, wire, performed>>
  BY DEF GoOn, At
<1>2. CASE Ends(t, TRUE)
  BY <1>1, <1>2, OneEnds
<1>3. CASE Becomes(t, [threads[t] EXCEPT !.pc = "polling", !.tries = 0])
  <2> DEFINE m == [threads[t] EXCEPT !.pc = "polling", !.tries = 0]
  <2>1. DOMAIN m = Fields /\ m.n = threads[t].n /\ m.way = threads[t].way /\ m.tries = 0
        /\ m.pc = "polling" /\ m.op = threads[t].op /\ Becomes(t, m)
    BY <1>3, Known DEF Fields
  <2> HIDE DEF m
  <2>2. Backed(m, performed[t]) /\ ~Trying(m)
    BY <1>1, <2>1, Known DEF Backed, Trying
  <2> QED BY <1>1, <2>1, <2>2, OneIsQuiet
<1> QED BY <1>2, <1>3 DEF GoOn

LEMMA KeepGetEntity ==
  ASSUME AdapterInv, NEW t \in Threads, NEW e \in Entities, GetEntity(t, e)
  PROVE  AdapterInv'
<1> DEFINE m == [threads[t] EXCEPT !.op = "get", !.entity = e, !.pc = "polling"]
<1>1. Becomes(t, m) /\ UNCHANGED <<channel, wire, performed>>
  BY DEF GetEntity
<1>2. DOMAIN m = Fields /\ m.n = threads[t].n /\ m.way = threads[t].way
      /\ m.tries = threads[t].tries /\ m.pc = "polling" /\ m.op = "get"
  BY Known DEF Fields
<1> HIDE DEF m
<1>3. Backed(m, performed[t]) /\ ~Trying(m) /\ m.pc # "new" /\ m.tries \in Nat
  BY <1>2, Known DEF Backed, Trying
<1> QED BY <1>1, <1>2, <1>3, OneIsQuiet

\* Between looks: what was carried out remains so.
LEMMA OneLooks ==
  ASSUME AdapterInv, NEW t \in Threads, NEW m, Becomes(t, m), UNCHANGED <<channel, wire, performed>>,
         threads[t].pc \in {"polling", "found", "looked"},
         m.pc \in {"polling", "found", "looked", "crashed"},
         DOMAIN m = Fields, m.n = threads[t].n, m.way = threads[t].way, m.op = threads[t].op,
         m.tries \in {threads[t].tries, threads[t].tries + 1}
  PROVE  AdapterInv'
<1>1. Backed(m, performed[t]) /\ ~Trying(m) /\ m.pc # "new" /\ m.tries \in Nat
  BY Known DEF Backed, Trying
<1> QED BY <1>1, OneIsQuiet

LEMMA KeepLook ==
  ASSUME AdapterInv, NEW t \in Threads, Look(t) \/ LookFails(t)
  PROVE  AdapterInv'
<1>1. threads[t].pc = "polling" /\ UNCHANGED <<channel, wire, performed>>
  BY DEF Look, LookFails, At
<1>2. CASE Look(t)
  <2> DEFINE m == [threads[t] EXCEPT !.pc = "found", !.seen = TRUE,
                                     !.at = Place(threads[t].entity), !.tries = @ + 1]
  <2>1. Becomes(t, m)
    BY <1>2 DEF Look
  <2>2. DOMAIN m = Fields /\ m.n = threads[t].n /\ m.way = threads[t].way
        /\ m.op = threads[t].op /\ m.tries = threads[t].tries + 1 /\ m.pc = "found"
    BY Known DEF Fields
  <2> HIDE DEF m
  <2> QED BY <1>1, <2>1, <2>2, OneLooks
<1>3. CASE LookFails(t)
  <2> DEFINE m == [threads[t] EXCEPT !.pc = "looked", !.tries = @ + 1]
  <2>1. Becomes(t, m)
    BY <1>3 DEF LookFails
  <2>2. DOMAIN m = Fields /\ m.n = threads[t].n /\ m.way = threads[t].way
        /\ m.op = threads[t].op /\ m.tries = threads[t].tries + 1 /\ m.pc = "looked"
    BY Known DEF Fields
  <2> HIDE DEF m
  <2> QED BY <1>1, <2>1, <2>2, OneLooks
<1> QED BY <1>2, <1>3

\* Moved only in where it is.
LEMMA OneTurns ==
  ASSUME AdapterInv, NEW t \in Threads, NEW step \in {"polling", "looked", "crashed"},
         Becomes(t, [threads[t] EXCEPT !.pc = step]), UNCHANGED <<channel, wire, performed>>,
         threads[t].pc \in {"polling", "found", "looked"}
  PROVE  AdapterInv'
<1> DEFINE m == [threads[t] EXCEPT !.pc = step]
<1>1. DOMAIN m = Fields /\ m.n = threads[t].n /\ m.way = threads[t].way
      /\ m.op = threads[t].op /\ m.tries = threads[t].tries /\ m.pc = step /\ Becomes(t, m)
  BY Known DEF Fields
<1> HIDE DEF m
<1> QED BY <1>1, OneLooks

LEMMA KeepStore ==
  ASSUME AdapterInv, NEW t \in Threads, Store(t)
  PROVE  AdapterInv'
BY OneTurns DEF Store, At

LEMMA KeepDecide ==
  ASSUME AdapterInv, NEW t \in Threads, Decide(t)
  PROVE  AdapterInv'
<1>1. threads[t].pc = "looked" /\ UNCHANGED <<channel, wire, performed>>
  BY DEF Decide, At
<1>2. CASE Becomes(t, [threads[t] EXCEPT !.pc = "polling"])
  BY <1>1, <1>2, OneTurns
<1>3. CASE Ends(t, threads[t].op = "call" \/ threads[t].seen)
  <2>1. PICK b : b = (threads[t].op = "call" \/ threads[t].seen)
    OBVIOUS
  <2>2. CASE b
    BY <1>1, <1>3, <2>1, <2>2, OneEnds
  <2>3. CASE ~b
    BY <1>1, <1>3, <2>1, <2>3, OneEnds
  <2> QED BY <2>2, <2>3
<1> QED BY <1>2, <1>3 DEF Decide

-----------------------------------------------------------------------------
(***************************************************************************)
(* The theorems                                                            *)
(***************************************************************************)
LEMMA AdapterStep == AdapterInv /\ [Next]_vars => AdapterInv'
<1> SUFFICES ASSUME AdapterInv, [Next]_vars PROVE AdapterInv'
  OBVIOUS
<1>1. CASE UNCHANGED vars \/ Age
  BY <1>1, KeepAge DEF vars, Age
<1>2. CASE \E c \in wire : Perform(c) \/ Drop(c) \/ \E error \in Errors : Refuse(c, error)
  BY <1>2, KeepPerform, KeepDrop, KeepRefuse
<1>3. CASE \E t \in Threads : List(t) \/ LinkFails(t) \/ Going(t)
  BY <1>3, KeepList, KeepDiscover, KeepTimeOut, KeepGoOn, KeepLook, KeepStore, KeepDecide DEF Going
<1>4. CASE \E t \in Threads, e \in Entities :
             GetEntity(t, e) \/ \E b \in BOOLEAN : CallService(t, e, b)
  BY <1>4, KeepGetEntity, KeepCallService
<1> QED BY <1>1, <1>2, <1>3, <1>4 DEF Next

LEMMA AdapterMeans == AdapterInv => PerformedAtMost /\ NotBothWays /\ SuccessIsPerformed
<1> SUFFICES ASSUME AdapterInv PROVE PerformedAtMost /\ NotBothWays /\ SuccessIsPerformed
  OBVIOUS
<1>1. ASSUME NEW t \in Threads
      PROVE  /\ \A w \in Ways : performed[t][w] <= Limit
             /\ performed[t]["direct"] > 0 /\ performed[t]["proxy"] > 0 => threads[t].n > 2
             /\ IsDone(t) /\ threads[t].success => Performed(t)
  <2>1. Counted(threads[t], wire, performed[t], t) /\ Backed(threads[t], performed[t])
        /\ threads[t].n \in Nat /\ threads[t].way \in Ways
        /\ IsFiniteSet(wire) /\ performed[t] \in [Ways -> Nat] /\ Limit \in Nat
    BY Limited DEF AdapterInv, Shapes
  <2>2. \A w \in Ways : Cardinality(Of(wire, t, w)) \in Nat
    BY <2>1, Few
  <2>3. \A w \in Ways : performed[t][w] <= Limit
    <3>1. \A w \in Ways : performed[t][w] + Cardinality(Of(wire, t, w)) <= Limit
      BY <2>1 DEF Counted
    <3>2. \A w \in Ways : performed[t][w] \in Nat
      BY <2>1
    <3> QED BY <2>1, <2>2, <3>1, <3>2
  <2>4. performed[t]["direct"] > 0 /\ performed[t]["proxy"] > 0 => threads[t].n > 2
    <3>1. threads[t].way = "direct" => ~(performed[t]["proxy"] > 0)
      BY <2>1 DEF Counted
    <3>2. threads[t].way = "proxy" => threads[t].n >= 2
                                      /\ (threads[t].n = 2 => ~(performed[t]["direct"] > 0))
      BY <2>1 DEF Counted
    <3>3. threads[t].way = "direct" \/ threads[t].way = "proxy"
      BY <2>1 DEF Ways
    <3> QED BY <2>1, <3>1, <3>2, <3>3
  <2>5. IsDone(t) /\ threads[t].success => Performed(t)
    BY <2>1 DEF IsDone, At, Performed, Backed
  <2> QED BY <2>3, <2>4, <2>5
<1>2. PerformedAtMost
  BY <1>1 DEF PerformedAtMost, Limit
<1>3. NotBothWays
  BY <1>1 DEF NotBothWays
<1>4. SuccessIsPerformed
  BY <1>1 DEF SuccessIsPerformed
<1> QED BY <1>2, <1>3, <1>4

\* AdapterInv is an invariant.
THEOREM AdapterInvariant == Spec => []AdapterInv
<1> QED BY AdapterInit, AdapterStep, PTL DEF Spec

\* PerformedAtMost: however late a call that was given up is carried out, the
\* gateway carries it out once at most and a tool as often as the retries allow.
THEOREM CallsAreBounded == Spec => []PerformedAtMost
<1> QED BY AdapterInvariant, AdapterMeans, PTL

\* NotBothWays: the proxy is asked for what the tool has refused, so that one
\* call is not carried out by both.
THEOREM OneWayOnly == Spec => []NotBothWays
<1> QED BY AdapterInvariant, AdapterMeans, PTL

\* SuccessIsPerformed: the adapter reports no success of a call nobody carried out.
THEOREM SuccessWasPerformed == Spec => []SuccessIsPerformed
<1> QED BY AdapterInvariant, AdapterMeans, PTL
-----------------------------------------------------------------------------
(***************************************************************************)
(* The shapes of the records and the number of the calls                   *)
(***************************************************************************)
\* The calls of a thread in number, and its looks.
InNumber(k) ==
    /\ k.n <= 2 * Limit
    /\ k.way = "direct" => k.n <= Limit
    /\ Trying(k) => IF k.way = "direct" THEN k.n <= k.tries ELSE k.n <= Limit + k.tries
    /\ k.pc = "polling" => k.tries = 0 \/ k.tries < MaxPolls

TypedInv ==
    /\ entities \in Seq(Entities)
    /\ fresh \in BOOLEAN /\ refreshed \in BOOLEAN /\ torn \in BOOLEAN
    /\ threads \in [Threads -> Thread]
    /\ \A t \in Threads : InNumber(threads[t])

Most == Max({Retries + 1, MaxPolls})

LEMMA MostIsMost == Most \in Nat /\ Most >= Retries + 1 /\ Most >= MaxPolls /\ Most >= 1
<1> DEFINE S == {Retries + 1, MaxPolls}
<1>1. \E x \in S : \A y \in S : x >= y
  <2>1. Retries + 1 \in Int /\ MaxPolls \in Int
    BY BoundsAssumption
  <2>2. CASE Retries + 1 >= MaxPolls
    BY <2>1, <2>2
  <2>3. CASE MaxPolls >= Retries + 1
    BY <2>1, <2>3
  <2> QED BY <2>1, <2>2, <2>3
<1>2. Most \in S /\ \A y \in S : Most >= y
  BY <1>1 DEF Most, Max
<1> QED BY <1>2, BoundsAssumption

LEMMA LimitIsSmall == channel \in {"gateway", "mcp"} => Limit \in Nat /\ Limit >= 1
                                                        /\ Limit <= Retries + 1 /\ Limit <= Most
BY BoundsAssumption, MostIsMost DEF Limit

\* One thread's record changes.
LEMMA OneTyped ==
  ASSUME TypedInv, NEW t \in Threads, NEW m \in Thread, InNumber(m), Becomes(t, m),
         channel' = channel, entities' \in Seq(Entities),
         fresh' \in BOOLEAN, refreshed' \in BOOLEAN, torn' \in BOOLEAN
  PROVE  TypedInv'
<1>1. threads' \in [Threads -> Thread]
  BY DEF TypedInv, Becomes
<1>2. \A u \in Threads : threads'[u] = m \/ threads'[u] = threads[u]
  BY DEF TypedInv, Becomes
<1>3. \A u \in Threads : InNumber(threads'[u])
  BY <1>2 DEF TypedInv
<1>4. \A u \in Threads : InNumber(threads[u])'
  BY <1>3 DEF InNumber, Limit
<1> QED BY <1>1, <1>4 DEF TypedInv

\* A thread's record and what is known of it.
LEMMA TypedKnown ==
  ASSUME AdapterInv, TypedInv, NEW t \in Threads
  PROVE  /\ threads[t] \in Thread /\ InNumber(threads[t]) /\ threads[t].n \in Nat
         /\ threads[t].tries \in 0 .. Most /\ threads[t].way \in Ways
         /\ (threads[t].pc = "new" => threads[t].n = 0 /\ threads[t].tries = 0
                                      /\ threads[t].way = "direct")
         /\ channel \in {"gateway", "mcp"}
BY DEF TypedInv, AdapterInv, Shapes, Thread, Counted, Most

LEMMA OneSends ==
  ASSUME TypedInv, NEW t \in Threads, NEW k \in Thread, k.tries < Limit, NEW calls,
         channel \in {"gateway", "mcp"}, Send(t, k, calls), UNCHANGED <<channel, cache>>,
         IF k.way = "direct" THEN k.n <= k.tries ELSE k.n <= Limit + k.tries
  PROVE  TypedInv'
<1> DEFINE m == [k EXCEPT !.pc = "sent", !.n = @ + 1, !.tries = @ + 1]
<1>1. Becomes(t, m)
  BY DEF Send
<1>2. k.n \in Nat /\ k.tries \in Nat /\ k.way \in Ways /\ k.tries \in 0 .. Most
  BY DEF Thread, Most, Max
<1>3. k.tries + 1 \in 0 .. Most
  BY <1>2, LimitIsSmall, MostIsMost
<1>4. m \in Thread
  <2>1. PICK a \in Nat, b \in 0 .. Most : a = k.n + 1 /\ b = k.tries + 1
    BY <1>2, <1>3
  <2>2. [k EXCEPT !.pc = "sent", !.n = a, !.tries = b] \in Thread
    BY DEF Thread, Most
  <2>3. m = [k EXCEPT !.pc = "sent", !.n = a, !.tries = b]
    BY <2>1
  <2> QED BY <2>2, <2>3
<1>5. m.n = k.n + 1 /\ m.tries = k.tries + 1 /\ m.way = k.way /\ m.pc = "sent"
  BY DEF Thread
<1> HIDE DEF m
<1>6. m.way = "direct" => m.n <= m.tries /\ m.n <= Limit
  BY <1>2, <1>5, LimitIsSmall
<1>7. m.way # "direct" => m.n <= Limit + m.tries
  BY <1>2, <1>5, LimitIsSmall
<1>8. m.n <= 2 * Limit
  <2>1. k.n <= Limit + k.tries
    BY <1>2, LimitIsSmall
  <2> QED BY <1>2, <1>5, <2>1, LimitIsSmall
<1>9. InNumber(m)
  BY <1>5, <1>6, <1>7, <1>8 DEF InNumber
<1> QED BY <1>1, <1>4, <1>9, OneTyped DEF TypedInv, cache

LEMMA OneEndsTyped ==
  ASSUME AdapterInv, TypedInv, NEW t \in Threads, NEW b \in BOOLEAN, Ends(t, b),
         channel' = channel, entities' \in Seq(Entities),
         fresh' \in BOOLEAN, refreshed' \in BOOLEAN, torn' \in BOOLEAN
  PROVE  TypedInv'
<1> DEFINE m == [threads[t] EXCEPT !.pc = "done", !.tries = 0, !.seen = FALSE, !.at = 0,
                                   !.success = b]
<1>1. Becomes(t, m)
  BY DEF Ends
<1>2. 0 \in 0 .. Most
  BY MostIsMost
<1>3. m \in Thread
  BY <1>2, TypedKnown DEF Thread, Most
<1>4. m.n = threads[t].n /\ m.way = threads[t].way /\ m.pc = "done"
  BY TypedKnown DEF Thread
<1> HIDE DEF m
<1>5. InNumber(m)
  BY <1>4, TypedKnown DEF InNumber, Trying
<1> QED BY <1>1, <1>3, <1>5, OneTyped

LEMMA FailsTyped ==
  ASSUME AdapterInv, TypedInv, NEW t \in Threads, NEW error, NEW calls, threads[t].pc = "sent",
         Fails(t, error, calls), UNCHANGED <<channel, cache>>
  PROVE  TypedInv'
<1> DEFINE k == threads[t]
           j == [k EXCEPT !.way = "proxy", !.tries = 0]
<1>1. k \in Thread /\ k.n \in Nat /\ k.tries \in Nat /\ k.way \in Ways
      /\ channel \in {"gateway", "mcp"} /\ InNumber(k)
  BY TypedKnown, MostIsMost
<1>2. Trying(k)
  BY DEF Trying
<1>3. CASE TriesAgain(t, error)
  <2>1. Send(t, k, calls)
    BY <1>3 DEF Fails
  <2>2. k.tries < Limit
    BY <1>1, <1>3, BoundsAssumption DEF TriesAgain, Limit
  <2>3. IF k.way = "direct" THEN k.n <= k.tries ELSE k.n <= Limit + k.tries
    BY <1>1, <1>2 DEF InNumber
  <2> HIDE DEF k
  <2> QED BY <1>1, <2>1, <2>2, <2>3, OneSends
<1>4. CASE ~TriesAgain(t, error) /\ channel = "mcp" /\ k.way = "direct" /\ MissingTool(error)
  <2>1. Send(t, j, calls)
    BY <1>4 DEF Fails, Fail
  <2>2. 0 \in 0 .. Most /\ "proxy" \in Ways
    BY MostIsMost DEF Ways
  <2>3. j \in Thread
    BY <1>1, <2>2 DEF Thread, Most
  <2>4. j.tries = 0 /\ j.way = "proxy" /\ j.n = k.n
    BY <1>1 DEF Thread
  <2>5. k.n <= Limit
    BY <1>1, <1>4 DEF InNumber
  <2> HIDE DEF j, k
  <2>6. j.tries < Limit /\ j.n <= Limit + j.tries
    BY <1>1, <2>4, <2>5, LimitIsSmall
  <2> QED BY <1>1, <2>1, <2>3, <2>4, <2>6, OneSends
<1>5. CASE ~TriesAgain(t, error) /\ ~(channel = "mcp" /\ k.way = "direct" /\ MissingTool(error))
  <2>1. Ends(t, FALSE)
    BY <1>5 DEF Fails, Fail
  <2> QED BY <2>1, OneEndsTyped DEF TypedInv, cache
<1> QED BY <1>3, <1>4, <1>5

\* A step of a thread that sends nothing.
LEMMA OneStays ==
  ASSUME AdapterInv, TypedInv, NEW t \in Threads, NEW m \in Thread, Becomes(t, m),
         channel' = channel, m.n = threads[t].n, m.way = threads[t].way,
         Trying(m) => Trying(threads[t]) /\ m.tries = threads[t].tries,
         m.pc = "polling" => m.tries = 0 \/ m.tries < MaxPolls,
         entities' \in Seq(Entities),
         fresh' \in BOOLEAN, refreshed' \in BOOLEAN, torn' \in BOOLEAN
  PROVE  TypedInv'
<1>1. InNumber(m)
  BY TypedKnown DEF InNumber
<1> QED BY <1>1, OneTyped

LEMMA SameList ==
  ASSUME TypedInv, UNCHANGED cache
  PROVE  /\ entities' \in Seq(Entities)
         /\ fresh' \in BOOLEAN /\ refreshed' \in BOOLEAN /\ torn' \in BOOLEAN
BY DEF TypedInv, cache

-----------------------------------------------------------------------------
(***************************************************************************)
(* The list of entities                                                    *)
(***************************************************************************)
LEMMA Enumeration ==
  ASSUME NEW S, IsFiniteSet(S)
  PROVE  /\ SetToSeq(S) \in Seq(S)
         /\ \A e \in S : \E i \in 1 .. Len(SetToSeq(S)) :
               SetToSeq(S)[i] = e /\ \A j \in 1 .. Len(SetToSeq(S)) : SetToSeq(S)[j] = e => j = i
<1> DEFINE n == Cardinality(S)
           s == SetToSeq(S)
<1>1. n \in Nat /\ ExistsBijection(1 .. n, S)
  BY FS_CardinalityType
<1>2. \E f \in [1 .. n -> S] : IsInjective(f)
  BY <1>1 DEF ExistsBijection, Bijection, Injection
<1>3. s \in [1 .. n -> S] /\ IsInjective(s)
  BY <1>2 DEF SetToSeq
<1>4. s \in Injection(1 .. n, S)
  BY <1>3 DEF Injection
<1>5. Cardinality(1 .. n) = n
  BY <1>1, FS_Interval
<1>6. s \in Surjection(1 .. n, S)
  BY <1>4, <1>5, FS_Injection
<1>7. s \in Seq(S) /\ Len(s) = n
  BY <1>1, <1>3
<1> HIDE DEF n, s
<1>8. \A e \in S : \E i \in 1 .. n : s[i] = e
  BY <1>6 DEF Surjection
<1>9. \A i, j \in 1 .. n : s[i] = s[j] => i = j
  BY <1>3 DEF IsInjective
<1>10. \A e \in S : \E i \in 1 .. n : s[i] = e /\ \A j \in 1 .. n : s[j] = e => j = i
  BY <1>8, <1>9
<1> QED BY <1>7, <1>10 DEF s

-----------------------------------------------------------------------------
(***************************************************************************)
(* The steps, and the list beside them                                     *)
(***************************************************************************)
Once(s, e) ==
    \E i \in 1 .. Len(s) : s[i] = e /\ \A j \in 1 .. Len(s) : s[j] = e => j = i

\* Only the gateway's discovery counts.
ListInv ==
    /\ refreshed => channel = "gateway"
    /\ refreshed /\ ~torn => \A e \in Listed : Once(entities, e)

LEMMA ListedIsOnce == SetToSeq(Listed) \in Seq(Entities) /\ \A e \in Listed : Once(SetToSeq(Listed), e)
<1>1. SetToSeq(Listed) \in Seq(Listed) /\ \A e \in Listed : Once(SetToSeq(Listed), e)
  BY ListedAssumption, Enumeration DEF Once
<1>2. Seq(Listed) \subseteq Seq(Entities)
  BY ListedAssumption
<1> QED BY <1>1, <1>2

\* What Place finds: the first, or none.
LEMMA Placed ==
  ASSUME NEW e, entities \in Seq(Entities)
  PROVE  \/ Place(e) \in 1 .. Len(entities) /\ entities[Place(e)] = e
         \/ Place(e) = 0 /\ \A i \in 1 .. Len(entities) : entities[i] # e
<1> DEFINE places == {i \in 1 .. Len(entities) : entities[i] = e}
<1>1. CASE places = {}
  BY <1>1 DEF Place
<1>2. CASE places # {}
  <2>1. places \in SUBSET Nat
    OBVIOUS
  <2>3. \E i \in places : \A j \in places : i <= j
    <3> HIDE DEF places
    <3>1. PICK i \in places : \A j \in places : ~(<<j, i>> \in OpToRel(<, Nat))
      BY <1>2, <2>1, NatLessThanWellFounded, WFMin
    <3>2. \A j \in places : ~(j < i)
      BY <2>1, <3>1 DEF OpToRel
    <3> QED BY <2>1, <3>2
  <2>2. Place(e) \in places
    BY <1>2, <2>3 DEF Place
  <2> QED BY <2>2
<1> QED BY <1>1, <1>2

LEMMA ListUnchanged ==
  ASSUME ListInv, UNCHANGED channel, UNCHANGED cache
  PROVE  ListInv'
BY DEF ListInv, cache, Once

LEMMA FreshensAge ==
  ASSUME TypedInv, ListInv, Age
  PROVE  TypedInv' /\ ListInv'
<1>1. UNCHANGED <<channel, entities, refreshed, torn, threads>> /\ fresh' = FALSE
  BY DEF Age
<1>2. \A t \in Threads : InNumber(threads[t])'
  BY <1>1 DEF TypedInv, InNumber, Limit
<1>3. ListInv'
  BY <1>1 DEF ListInv, Once
<1> QED BY <1>1, <1>2, <1>3 DEF TypedInv

LEMMA ListsList ==
  ASSUME AdapterInv, TypedInv, NEW t \in Threads, List(t)
  PROVE  TypedInv'
<1>1. PICK step \in {"done", "asked"} : Becomes(t, [threads[t] EXCEPT !.op = "list", !.pc = step])
  BY DEF List
<1> DEFINE m == [threads[t] EXCEPT !.op = "list", !.pc = step]
<1>2. m \in Thread
  BY TypedKnown DEF Thread
<1>3. m.n = threads[t].n /\ m.way = threads[t].way /\ m.pc = step
  BY TypedKnown DEF Thread
<1>4. UNCHANGED channel /\ UNCHANGED cache
  BY DEF List
<1> HIDE DEF m
<1>5. Becomes(t, m)
  BY <1>1 DEF m
<1> QED BY <1>2, <1>3, <1>4, <1>5, SameList, OneStays DEF Trying

LEMMA DiscoversAll ==
  ASSUME AdapterInv, TypedInv, ListInv, NEW t \in Threads, Discover(t)
  PROVE  TypedInv' /\ ListInv'
<1>1. Ends(t, TRUE) /\ channel' = channel
  BY DEF Discover
<1>2. CASE channel = "gateway"
  <2>1. entities' = SetToSeq(Listed) /\ fresh' = TRUE /\ refreshed' = TRUE /\ torn' = FALSE
    BY <1>2 DEF Discover, Replaced
  <2>2. entities' \in Seq(Entities) /\ \A e \in Listed : Once(entities', e)
    BY <2>1, ListedIsOnce
  <2>3. TypedInv'
    BY <1>1, <2>1, <2>2, OneEndsTyped
  <2> QED BY <1>1, <1>2, <2>1, <2>2, <2>3 DEF ListInv, Once
<1>3. CASE channel # "gateway"
  <2>1. UNCHANGED <<fresh, refreshed, torn>>
    BY <1>3 DEF Discover
  <2>2. PICK found \in SUBSET Entities : IsFiniteSet(found) /\ entities' = SetToSeq(found)
    BY <1>3 DEF Discover
  <2>3. SetToSeq(found) \in Seq(found)
    BY <2>2, Enumeration
  <2>4. entities' \in Seq(Entities)
    BY <2>2, <2>3
  <2>5. TypedInv'
    BY <1>1, <2>1, <2>4, OneEndsTyped DEF TypedInv
  <2>6. ~refreshed'
    BY <1>3, <2>1 DEF ListInv
  <2> QED BY <2>5, <2>6 DEF ListInv
<1> QED BY <1>2, <1>3

LEMMA CallsOnce ==
  ASSUME AdapterInv, TypedInv, NEW t \in Threads, NEW e \in Entities, NEW b \in BOOLEAN,
         CallService(t, e, b)
  PROVE  TypedInv'
<1> DEFINE k == [threads[t] EXCEPT !.op = "call", !.entity = e, !.telling = b]
<1>1. Send(t, k, wire) /\ threads[t].pc = "new" /\ UNCHANGED channel /\ UNCHANGED cache
  BY DEF CallService, At
<1>2. k \in Thread
  BY TypedKnown DEF Thread
<1>3. k.n = 0 /\ k.tries = 0 /\ k.way = "direct" /\ channel \in {"gateway", "mcp"}
  BY <1>1, TypedKnown DEF Thread
<1> HIDE DEF k
<1>4. k.tries < Limit /\ k.n <= k.tries
  BY <1>3, LimitIsSmall
<1> QED BY <1>1, <1>2, <1>3, <1>4, OneSends

LEMMA PerformsTyped ==
  ASSUME AdapterInv, TypedInv, NEW c \in wire, Perform(c)
  PROVE  TypedInv'
<1> DEFINE t == c.of
           m == [threads[t] EXCEPT !.pc = "performed"]
<1>1. UNCHANGED channel /\ UNCHANGED cache
      /\ (UNCHANGED threads \/ (threads[t].pc = "sent" /\ Becomes(t, m)))
  BY DEF Perform, Awaited, At
<1>2. t \in Threads
  BY DEF AdapterInv, Shapes, Call
<1>3. CASE UNCHANGED threads
  BY <1>1, <1>3 DEF TypedInv, InNumber, Limit, cache
<1>4. CASE threads[t].pc = "sent" /\ Becomes(t, m)
  <2>1. m \in Thread
    BY <1>2, TypedKnown DEF Thread
  <2>2. m.n = threads[t].n /\ m.way = threads[t].way /\ m.pc = "performed"
        /\ m.tries = threads[t].tries
    BY <1>2, TypedKnown DEF Thread
  <2> HIDE DEF m, t
  <2> QED BY <1>1, <1>2, <1>4, <2>1, <2>2, SameList, OneStays DEF Trying
<1> QED BY <1>1, <1>3, <1>4

LEMMA RefusesTyped ==
  ASSUME AdapterInv, TypedInv, NEW c \in wire, NEW error, Refuse(c, error)
  PROVE  TypedInv'
<1>1. threads[c.of].pc = "sent" /\ UNCHANGED channel /\ UNCHANGED cache /\ c.of \in Threads
  BY DEF Refuse, Awaited, At, AdapterInv, Shapes, Call
<1> QED BY <1>1, FailsTyped DEF Refuse

LEMMA TimesOutTyped ==
  ASSUME AdapterInv, TypedInv, NEW t \in Threads, TimeOut(t) \/ LinkFails(t)
  PROVE  TypedInv'
<1>1. PICK error : Fails(t, error, wire)
  BY DEF TimeOut, LinkFails
<1> QED BY <1>1, FailsTyped DEF TimeOut, LinkFails, At

LEMMA GoesOnTyped ==
  ASSUME AdapterInv, TypedInv, NEW t \in Threads, GoOn(t)
  PROVE  TypedInv'
<1>1. UNCHANGED channel /\ UNCHANGED cache
  BY DEF GoOn
<1>2. CASE Ends(t, TRUE)
  BY <1>1, <1>2, SameList, OneEndsTyped
<1>3. CASE Becomes(t, [threads[t] EXCEPT !.pc = "polling", !.tries = 0])
  <2> DEFINE m == [threads[t] EXCEPT !.pc = "polling", !.tries = 0]
  <2>1. 0 \in 0 .. Most
    BY MostIsMost
  <2>2. m \in Thread
    BY <2>1, TypedKnown DEF Thread, Most
  <2>3. m.n = threads[t].n /\ m.way = threads[t].way /\ m.pc = "polling" /\ m.tries = 0
    BY TypedKnown DEF Thread
  <2> HIDE DEF m
  <2>4. Becomes(t, m)
    BY <1>3 DEF m
  <2> QED BY <1>1, <2>2, <2>3, <2>4, SameList, OneStays DEF Trying
<1> QED BY <1>2, <1>3 DEF GoOn

LEMMA GetsTyped ==
  ASSUME AdapterInv, TypedInv, NEW t \in Threads, NEW e \in Entities, GetEntity(t, e)
  PROVE  TypedInv'
<1> DEFINE m == [threads[t] EXCEPT !.op = "get", !.entity = e, !.pc = "polling"]
<1>1. UNCHANGED channel /\ UNCHANGED cache /\ Becomes(t, m) /\ threads[t].pc = "new"
  BY DEF GetEntity, At
<1>2. m \in Thread
  BY TypedKnown DEF Thread
<1>3. m.n = threads[t].n /\ m.way = threads[t].way /\ m.pc = "polling" /\ m.tries = 0
  BY <1>1, TypedKnown DEF Thread
<1> HIDE DEF m
<1> QED BY <1>1, <1>2, <1>3, SameList, OneStays DEF Trying

LEMMA LooksTyped ==
  ASSUME AdapterInv, TypedInv, NEW t \in Threads, Look(t) \/ LookFails(t)
  PROVE  TypedInv'
<1> DEFINE k == threads[t]
           at == Place(k.entity)
<1>1. k.pc = "polling" /\ UNCHANGED channel /\ UNCHANGED cache
  BY DEF Look, LookFails, At
<1>2. k \in Thread /\ k.tries \in 0 .. Most /\ (k.tries = 0 \/ k.tries < MaxPolls)
  BY <1>1, TypedKnown DEF InNumber
<1>3. k.tries + 1 \in 0 .. Most
  BY <1>2, MostIsMost, BoundsAssumption
<1>4. at \in Nat
  <2>1. Len(entities) \in Nat
    BY DEF TypedInv
  <2>2. at = 0 \/ at \in 1 .. Len(entities)
    BY Placed DEF TypedInv
  <2> HIDE DEF at
  <2> QED BY <2>1, <2>2
<1>5. PICK b \in 0 .. Most : b = k.tries + 1
  BY <1>3
<1>6. CASE Look(t)
  <2> DEFINE m == [k EXCEPT !.pc = "found", !.seen = TRUE, !.at = at, !.tries = b]
  <2>1. Becomes(t, m)
    BY <1>5, <1>6 DEF Look
  <2> HIDE DEF at
  <2>2. m \in Thread
    BY <1>2, <1>4 DEF Thread, Most
  <2>3. m.n = k.n /\ m.way = k.way /\ m.pc = "found"
    BY <1>2 DEF Thread
  <2> HIDE DEF m
  <2> QED BY <1>1, <2>1, <2>2, <2>3, SameList, OneStays DEF Trying
<1>7. CASE LookFails(t)
  <2> DEFINE m == [k EXCEPT !.pc = "looked", !.tries = b]
  <2>1. Becomes(t, m)
    BY <1>5, <1>7 DEF LookFails
  <2>2. m \in Thread
    BY <1>2 DEF Thread, Most
  <2>3. m.n = k.n /\ m.way = k.way /\ m.pc = "looked"
    BY <1>2 DEF Thread
  <2> HIDE DEF m
  <2> QED BY <1>1, <2>1, <2>2, <2>3, SameList, OneStays DEF Trying
<1> QED BY <1>6, <1>7

\* Moved only in where it is.
LEMMA TurnsTyped ==
  ASSUME AdapterInv, TypedInv, NEW t \in Threads, NEW step \in {"polling", "looked", "crashed"},
         Becomes(t, [threads[t] EXCEPT !.pc = step]), UNCHANGED channel,
         step = "polling" => MayPoll(t),
         entities' \in Seq(Entities),
         fresh' \in BOOLEAN, refreshed' \in BOOLEAN, torn' \in BOOLEAN
  PROVE  TypedInv'
<1> DEFINE m == [threads[t] EXCEPT !.pc = step]
<1>1. m \in Thread
  BY TypedKnown DEF Thread
<1>2. m.n = threads[t].n /\ m.way = threads[t].way /\ m.pc = step /\ m.tries = threads[t].tries
  BY TypedKnown DEF Thread
<1> HIDE DEF m
<1>3. Becomes(t, m)
  BY DEF m
<1> QED BY <1>1, <1>2, <1>3, OneStays DEF Trying, MayPoll

\* A state is stored: where the entity is, or at the end when it is nowhere.
LEMMA StoresWhole ==
  ASSUME AdapterInv, TypedInv, ListInv, NEW t \in Threads, Store(t)
  PROVE  TypedInv' /\ ListInv'
<1> DEFINE e == threads[t].entity
           at == threads[t].at
<1>1. UNCHANGED channel /\ e \in Entities /\ at \in Nat /\ entities \in Seq(Entities)
      /\ Len(entities) \in Nat
  BY TypedKnown DEF Store, Thread, TypedInv
<1>2. CASE at > Len(entities)
  <2>1. Becomes(t, [threads[t] EXCEPT !.pc = "crashed"]) /\ UNCHANGED cache
    BY <1>2 DEF Store
  <2> QED BY <1>1, <2>1, SameList, TurnsTyped, ListUnchanged
<1>3. CASE ~(at > Len(entities))
  <2>1. /\ Becomes(t, [threads[t] EXCEPT !.pc = "looked"])
        /\ entities' = IF at = 0 THEN Append(entities, e) ELSE [entities EXCEPT ![at] = e]
        /\ torn' = (torn \/ at # Place(e)) /\ fresh' = TRUE /\ refreshed' = refreshed
    BY <1>3 DEF Store
  <2> HIDE DEF e, at
  <2>2. at # 0 => at \in 1 .. Len(entities)
    BY <1>1, <1>3
  <2>3. entities' \in Seq(Entities)
    BY <1>1, <2>1, <2>2
  <2>4. torn' \in BOOLEAN /\ refreshed' \in BOOLEAN
    BY <2>1 DEF TypedInv
  <2>5. TypedInv'
    BY <1>1, <2>1, <2>3, <2>4, TurnsTyped
  <2>6. ASSUME refreshed, ~torn', NEW d \in Listed PROVE Once(entities', d)
    <3>1. at = Place(e) /\ Once(entities, d)
      BY <2>1, <2>6 DEF ListInv
    <3>2. CASE at = 0
      <4>1. \A i \in 1 .. Len(entities) : entities[i] # e
        <5>1. Place(e) = 0 /\ ~(0 \in 1 .. Len(entities))
          BY <1>1, <3>1, <3>2
        <5> QED BY <1>1, <5>1, Placed
      <4>2. PICK i \in 1 .. Len(entities) :
                 entities[i] = d /\ \A j \in 1 .. Len(entities) : entities[j] = d => j = i
        BY <3>1 DEF Once
      <4>3. d # e
        BY <4>1, <4>2
      <4>4. Len(entities') = Len(entities) + 1 /\ entities'[Len(entities) + 1] = e
            /\ \A j \in 1 .. Len(entities) : entities'[j] = entities[j]
        BY <1>1, <2>1, <3>2
      <4>5. i \in 1 .. Len(entities') /\ entities'[i] = d
        BY <1>1, <4>2, <4>4
      <4>6. \A j \in 1 .. Len(entities') : j \in 1 .. Len(entities) \/ j = Len(entities) + 1
        BY <1>1, <4>4
      <4>7. \A j \in 1 .. Len(entities') : entities'[j] = d => j = i
        BY <4>2, <4>3, <4>4, <4>6
      <4> QED BY <4>5, <4>7 DEF Once
    <3>3. CASE at # 0
      <4>1. at \in 1 .. Len(entities) /\ entities[at] = e
        BY <1>1, <2>2, <3>1, <3>3, Placed
      <4>2. entities' = entities
        BY <1>1, <2>1, <3>3, <4>1
      <4> QED BY <3>1, <4>2
    <3> QED BY <3>2, <3>3
  <2>7. ListInv'
    BY <1>1, <2>1, <2>6 DEF ListInv, Once
  <2> QED BY <2>5, <2>7
<1> QED BY <1>2, <1>3

LEMMA DecidesTyped ==
  ASSUME AdapterInv, TypedInv, NEW t \in Threads, Decide(t)
  PROVE  TypedInv'
<1>1. UNCHANGED channel /\ UNCHANGED cache
  BY DEF Decide
<1>2. CASE MayPoll(t) /\ Becomes(t, [threads[t] EXCEPT !.pc = "polling"])
  BY <1>1, <1>2, SameList, TurnsTyped
<1>3. CASE Ends(t, threads[t].op = "call" \/ threads[t].seen)
  <2>1. (threads[t].op = "call" \/ threads[t].seen) \in BOOLEAN
    BY TypedKnown DEF Thread
  <2>2. PICK b \in BOOLEAN : Ends(t, b)
    BY <1>3, <2>1
  <2> QED BY <1>1, <2>2, SameList, OneEndsTyped
<1> QED BY <1>2, <1>3 DEF Decide

-----------------------------------------------------------------------------
(***************************************************************************)
(* The theorems about the records and the list                             *)
(***************************************************************************)
WholeInv == AdapterInv /\ TypedInv /\ ListInv

LEMMA WholeInit == Init => TypedInv /\ ListInv
<1> SUFFICES ASSUME Init PROVE TypedInv /\ ListInv
  OBVIOUS
<1> DEFINE k == [pc |-> "new", op |-> "none", entity |-> CHOOSE e \in Entities : TRUE,
                 telling |-> FALSE, n |-> 0, tries |-> 0, way |-> "direct",
                 seen |-> FALSE, at |-> 0, success |-> FALSE]
<1>1. threads = [t \in Threads |-> k] /\ entities = <<>> /\ fresh = FALSE /\ refreshed = FALSE
      /\ torn = FALSE /\ channel \in {"gateway", "mcp"}
  BY DEF Init
<1>2. (CHOOSE e \in Entities : TRUE) \in Entities
  BY ListedAssumption
<1>3. 0 \in 0 .. Most /\ "direct" \in Ways
  BY MostIsMost DEF Ways
<1>4. k \in Thread
  BY <1>2, <1>3 DEF Thread, Most
<1>5. InNumber(k)
  BY <1>1, LimitIsSmall DEF InNumber, Trying
<1> HIDE DEF k
<1>6. threads \in [Threads -> Thread] /\ \A t \in Threads : InNumber(threads[t])
  BY <1>1, <1>4, <1>5
<1>7. entities \in Seq(Entities) /\ ListInv
  BY <1>1 DEF ListInv
<1> QED BY <1>1, <1>6, <1>7 DEF TypedInv

LEMMA WholeStep == WholeInv /\ [Next]_vars => WholeInv'
<1> SUFFICES ASSUME WholeInv, [Next]_vars PROVE TypedInv' /\ ListInv'
  BY AdapterStep DEF WholeInv
<1> USE DEF WholeInv
<1>1. CASE UNCHANGED vars
  BY <1>1 DEF vars, cache, TypedInv, InNumber, Limit, ListInv, Once
<1>2. CASE Age
  BY <1>2, FreshensAge
<1>3. ASSUME NEW c \in wire, Perform(c) \/ Drop(c) \/ \E error \in Errors : Refuse(c, error)
      PROVE  TypedInv' /\ ListInv'
  <2>1. UNCHANGED channel /\ UNCHANGED cache
    BY <1>3 DEF Perform, Drop, Refuse
  <2>2. Drop(c) => TypedInv'
    BY <2>1 DEF Drop, TypedInv, InNumber, Limit, cache
  <2> QED BY <1>3, <2>1, <2>2, ListUnchanged, PerformsTyped, RefusesTyped
<1>4. ASSUME NEW t \in Threads, List(t) \/ LinkFails(t) \/ DiscoverFails(t) \/ TimeOut(t)
                                \/ GoOn(t) \/ Look(t) \/ LookFails(t) \/ Decide(t)
      PROVE  TypedInv' /\ ListInv'
  <2>1. UNCHANGED channel /\ UNCHANGED cache
    BY <1>4 DEF List, LinkFails, DiscoverFails, TimeOut, GoOn, Look, LookFails, Decide
  <2>2. DiscoverFails(t) => TypedInv'
    BY <2>1, SameList, OneEndsTyped DEF DiscoverFails
  <2>3. TypedInv'
    BY <1>4, <2>2, ListsList, TimesOutTyped, GoesOnTyped, LooksTyped, DecidesTyped
  <2> QED BY <2>1, <2>3, ListUnchanged
<1>5. ASSUME NEW t \in Threads, NEW e \in Entities,
             GetEntity(t, e) \/ \E b \in BOOLEAN : CallService(t, e, b)
      PROVE  TypedInv' /\ ListInv'
  <2>1. UNCHANGED channel /\ UNCHANGED cache
    BY <1>5 DEF GetEntity, CallService
  <2> QED BY <1>5, <2>1, ListUnchanged, GetsTyped, CallsOnce
<1>6. ASSUME NEW t \in Threads, Discover(t) \/ Store(t) PROVE TypedInv' /\ ListInv'
  BY <1>6, DiscoversAll, StoresWhole
<1> QED BY <1>1, <1>2, <1>3, <1>4, <1>5, <1>6 DEF Next, Going

LEMMA WholeMeans == WholeInv => AdapterSound /\ ListIsWhole
<1> SUFFICES ASSUME WholeInv PROVE AdapterSound /\ ListIsWhole
  OBVIOUS
<1>1. \A t \in Threads : threads[t].n <= 2 * (Retries + 1)
  <2>1. TAKE t \in Threads
  <2>2. threads[t].n \in Nat /\ threads[t].n <= 2 * Limit /\ channel \in {"gateway", "mcp"}
    BY TypedKnown DEF WholeInv, InNumber
  <2>3. Limit \in Nat /\ Limit <= Retries + 1
    BY <2>2, LimitIsSmall
  <2> QED BY <2>2, <2>3, BoundsAssumption
<1>2. TypeOK
  BY <1>1 DEF TypeOK, WholeInv, TypedInv, AdapterInv, Shapes
<1>3. AdapterSound
  BY <1>2, AdapterMeans DEF AdapterSound, WholeInv
<1>4. ASSUME refreshed, ~torn, NEW e \in Listed
      PROVE  Cardinality({i \in 1 .. Len(entities) : entities[i] = e}) = 1
  <2>1. PICK i \in 1 .. Len(entities) :
             entities[i] = e /\ \A j \in 1 .. Len(entities) : entities[j] = e => j = i
    BY <1>4 DEF WholeInv, ListInv, Once
  <2>2. {j \in 1 .. Len(entities) : entities[j] = e} = {i}
    BY <2>1
  <2> QED BY <2>2, FS_Singleton
<1> QED BY <1>3, <1>4 DEF ListIsWhole

\* AdapterSound: whatever the threads do beside each other, their records and the
\* list keep their shape, the calls of one request stay within twice the retries
\* and one, and a success was carried out.
THEOREM AdapterIsSound == Spec => []AdapterSound
<1>1. Init => WholeInv
  BY AdapterInit, WholeInit DEF WholeInv
<1> QED BY <1>1, WholeStep, WholeMeans, PTL DEF Spec

\* ListIsWhole: once a discovery has succeeded, each entity it shows is in the list
\* once, however the threads go on storing states, until one is stored into a
\* list that was replaced under it.
THEOREM ListStaysWhole == Spec => []ListIsWhole
<1>1. Init => WholeInv
  BY AdapterInit, WholeInit DEF WholeInv
<1> QED BY <1>1, WholeStep, WholeMeans, PTL DEF Spec
-----------------------------------------------------------------------------
(***************************************************************************)
(* The cache of parsed sentences and the topic of hard examples: how many  *)
(* threads are at a step bounds how many entries, and events, there are.   *)
(***************************************************************************)
Publishing == {"check", "measure", "delete"}
Steps == Ended \union {"look", "fetch", "drop", "touch", "parse", "room", "evict", "insert",
                       "settle", "answered"} \union Publishing

\* How many threads are at one of these steps.
Count(f, S) == Cardinality({t \in Threads : f[t] \in S})

LEMMA CountIsNat ==
  ASSUME NEW f, NEW S
  PROVE  /\ IsFiniteSet({t \in Threads : f[t] \in S})
         /\ Count(f, S) \in Nat /\ Count(f, S) <= Cardinality(Threads)
         /\ \A t \in Threads : f[t] \in S => Count(f, S) >= 1
<1> DEFINE A == {t \in Threads : f[t] \in S}
<1>1. A \in SUBSET Threads OBVIOUS
<1>2. IsFiniteSet(Threads) BY SharedBounds
<1>3. IsFiniteSet(A) /\ Cardinality(A) <= Cardinality(Threads) BY ONLY <1>1, <1>2, FS_Subset
<1>4. Cardinality(A) \in Nat BY ONLY <1>3, FS_CardinalityType
<1>5. Cardinality(A) = 0 <=> A = {} BY ONLY <1>3, FS_EmptySet
<1>6. \A t \in Threads : f[t] \in S => Cardinality(A) >= 1 BY <1>4, <1>5
<1> QED BY <1>3, <1>4, <1>6 DEF Count

\* What an OrderedDict is without the entry at one place.
LEMMA RemovedAt ==
  ASSUME NEW S, NEW s \in Seq(S), NEW k \in 1 .. Len(s)
  PROVE  /\ RemoveAt(s, k) \in Seq(S) /\ Len(RemoveAt(s, k)) = Len(s) - 1
         /\ \A i \in 1 .. Len(s) - 1 : RemoveAt(s, k)[i] = IF i < k THEN s[i] ELSE s[i + 1]
<1> DEFINE a == SubSeq(s, 1, k - 1)
           b == SubSeq(s, k + 1, Len(s))
<1>1. Len(s) \in Nat /\ \A i \in 1 .. Len(s) : s[i] \in S OBVIOUS
<1>2. /\ a \in Seq(S) /\ Len(a) = k - 1
      /\ \A i \in 1 .. k - 1 : a[i] = s[i]
  BY <1>1, SubSeqProperties
<1>3. /\ b \in Seq(S) /\ Len(b) = IF k + 1 <= Len(s) THEN Len(s) - (k + 1) + 1 ELSE 0
      /\ \A i \in 1 .. Len(s) - (k + 1) + 1 : b[i] = s[k + 1 + i - 1]
  BY <1>1, SubSeqProperties
<1>4. Len(b) = Len(s) - k /\ \A i \in 1 .. Len(s) - k : b[i] = s[k + i]
  BY <1>1, <1>3
<1> HIDE DEF a, b
<1>5. /\ a \o b \in Seq(S) /\ Len(a \o b) = Len(a) + Len(b)
      /\ \A i \in 1 .. Len(a) + Len(b) : (a \o b)[i] = IF i <= Len(a) THEN a[i] ELSE b[i - Len(a)]
  BY ONLY <1>2, <1>3, ConcatProperties
<1>6. RemoveAt(s, k) = a \o b BY DEF RemoveAt, a, b
<1>7. Len(a \o b) = Len(s) - 1 BY <1>1, <1>2, <1>4, <1>5
<1>8. ASSUME NEW i \in 1 .. Len(s) - 1
      PROVE  (a \o b)[i] = IF i < k THEN s[i] ELSE s[i + 1]
  <2>1. i \in 1 .. Len(a) + Len(b) BY <1>1, <1>2, <1>4
  <2>2. CASE i < k
    BY <1>1, <1>2, <1>5, <2>1, <2>2
  <2>3. CASE ~(i < k)
    <3>1. i - Len(a) \in 1 .. Len(s) - k /\ k + (i - Len(a)) = i + 1 BY <1>1, <1>2, <2>3
    <3>2. (a \o b)[i] = b[i - Len(a)] BY <1>1, <1>2, <1>5, <2>1, <2>3
    <3> QED BY <1>4, <2>3, <3>1, <3>2
  <2> QED BY <2>2, <2>3
<1> QED BY <1>5, <1>6, <1>7, <1>8

\* What is left of a list of events without some of the oldest.
LEMMA WithoutOldest ==
  ASSUME NEW s \in Seq(Nat), NEW m \in Nat, NEW r, r = SubSeq(s, m + 1, Len(s))
  PROVE  /\ r \in Seq(Nat) /\ Len(r) = IF m <= Len(s) THEN Len(s) - m ELSE 0
         /\ \A i \in 1 .. Len(r) : r[i] = s[Len(s) - Len(r) + i]
<1>1. Len(s) \in Nat /\ \A i \in 1 .. Len(s) : s[i] \in Nat OBVIOUS
<1>2. /\ m + 1 \in Int /\ Len(s) \in Int
      /\ \A i \in m + 1 .. Len(s) : s[i] \in Nat
  BY <1>1
<1>3. r \in Seq(Nat) /\ Len(r) = IF m + 1 <= Len(s) THEN Len(s) - (m + 1) + 1 ELSE 0
  BY <1>2, SubSeqProperties
<1>4. \A i \in 1 .. Len(s) - (m + 1) + 1 : r[i] = s[m + 1 + i - 1]
  BY <1>2, SubSeqProperties
<1>5. Len(r) = IF m <= Len(s) THEN Len(s) - m ELSE 0
  BY ONLY <1>1, <1>3, m \in Nat
<1>6. ASSUME NEW i \in 1 .. Len(r) PROVE r[i] = s[Len(s) - Len(r) + i]
  <2>1. Len(r) = Len(s) - m BY <1>1, <1>5
  <2>2. /\ i \in 1 .. Len(s) - (m + 1) + 1
        /\ m + 1 + i - 1 = Len(s) - Len(r) + i
    <3>1. i \in Int /\ 1 <= i /\ i <= Len(s) - m BY <1>1, <2>1
    <3>2. i \in 1 .. Len(s) - (m + 1) + 1 BY <1>1, <3>1
    <3>3. Len(s) - (Len(s) - m) + i = m + i BY <1>1, <3>1
    <3>4. m + 1 + i - 1 = m + i BY <3>1
    <3>5. Len(s) - Len(r) + i = Len(s) - (Len(s) - m) + i BY ONLY <2>1, Zenon
    <3> QED BY ONLY <3>2, <3>3, <3>4, <3>5, Zenon
  <2>3. r[i] = s[m + 1 + i - 1] BY <1>4, <2>2
  <2> QED BY <2>2, <2>3
<1> QED BY <1>3, <1>5, <1>6

LEMMA DeletedFirst ==
  ASSUME NEW s \in Seq(Nat), NEW n \in Int, NEW r, r = WithoutFirst(s, n)
  PROVE  /\ r \in Seq(Nat)
         /\ n >= 0 => Len(r) = IF n <= Len(s) THEN Len(s) - n ELSE 0
         /\ n < 0 => Len(r) = IF Len(s) <= -n THEN Len(s) ELSE -n
         /\ \A i \in 1 .. Len(r) : r[i] = s[Len(s) - Len(r) + i]
<1>1. Len(s) \in Nat OBVIOUS
<1>2. PICK m : m = IF n >= 0 THEN n ELSE Max({0, Len(s) + n}) OBVIOUS
<1>3. Max({0, Len(s) + n}) = IF Len(s) + n >= 0 THEN Len(s) + n ELSE 0
  BY <1>1 DEF Max
<1>4. /\ m \in Nat /\ (n >= 0 => m = n)
      /\ (n < 0 => m = IF Len(s) + n >= 0 THEN Len(s) + n ELSE 0)
  <2>1. CASE n >= 0 BY <1>1, <1>2, <2>1
  <2>2. CASE n < 0
    <3>1. m = Max({0, Len(s) + n}) BY <1>2, <2>2
    <3> QED BY <1>1, <1>3, <2>2, <3>1
  <2> QED BY <2>1, <2>2
<1>5. r = SubSeq(s, m + 1, Len(s)) BY <1>2 DEF WithoutFirst
<1>0. m \in Nat BY <1>4
<1>6. /\ r \in Seq(Nat) /\ Len(r) = IF m <= Len(s) THEN Len(s) - m ELSE 0
      /\ \A i \in 1 .. Len(r) : r[i] = s[Len(s) - Len(r) + i]
  BY <1>0, <1>5, WithoutOldest
<1>7. n >= 0 => Len(r) = IF n <= Len(s) THEN Len(s) - n ELSE 0
  BY <1>4, <1>6
<1>8. ASSUME n < 0 PROVE Len(r) = IF Len(s) <= -n THEN Len(s) ELSE -n
  <2>1. CASE Len(s) <= -n
    <3>1. m = 0 BY <1>1, <1>4, <1>8, <2>1
    <3> QED BY <1>1, <1>6, <2>1, <3>1
  <2>2. CASE ~(Len(s) <= -n)
    <3>1. m = Len(s) + n /\ m <= Len(s) BY <1>1, <1>4, <1>8, <2>2
    <3>2. Len(r) = Len(s) - m BY <1>6, <3>1
    <3> QED BY <1>1, <2>2, <3>1, <3>2
  <2> QED BY <2>1, <2>2
<1> QED BY <1>6, <1>7, <1>8
-----------------------------------------------------------------------------
(***************************************************************************)
(* The cache as a sequence: each sentence once, with its own parse.        *)
(***************************************************************************)
Texts == (UNION {p.texts \union ToSet(p.warm) : p \in Parties}) \union {<<>>}
Results == {Parse(s) : s \in Texts} \union {<<>>}
CachedEntry == [text : Texts, commands : Results, stale : BOOLEAN]

TextsOf(q) == {q[i].text : i \in DOMAIN q}

SoundCache(q) ==
  /\ \A i, j \in DOMAIN q : q[i].text = q[j].text => i = j
  /\ \A i \in DOMAIN q : q[i].commands = Parse(q[i].text)

LEMMA TakenOut ==
  ASSUME NEW q \in Seq(CachedEntry), SoundCache(q), NEW k \in 1 .. Len(q), NEW r, r = RemoveAt(q, k)
  PROVE  /\ r \in Seq(CachedEntry) /\ SoundCache(r) /\ Len(r) = Len(q) - 1
         /\ TextsOf(r) = TextsOf(q) \ {q[k].text}
<1>1. /\ r \in Seq(CachedEntry) /\ Len(r) = Len(q) - 1
      /\ \A i \in 1 .. Len(q) - 1 : r[i] = IF i < k THEN q[i] ELSE q[i + 1]
  BY RemovedAt
<1>2. DOMAIN q = 1 .. Len(q) /\ DOMAIN r = 1 .. Len(q) - 1 /\ Len(q) \in Nat BY <1>1
<1> DEFINE from(i) == IF i < k THEN i ELSE i + 1
<1>3. \A i \in DOMAIN r : from(i) \in DOMAIN q /\ from(i) # k /\ r[i] = q[from(i)]
  BY <1>1, <1>2
<1>4. \A i, j \in DOMAIN r : from(i) = from(j) => i = j BY <1>2
<1>5. \A j \in DOMAIN q : j # k => \E i \in DOMAIN r : from(i) = j
  <2>1. ASSUME NEW j \in DOMAIN q, j < k PROVE j \in DOMAIN r /\ from(j) = j
    BY <1>2, <2>1
  <2>2. ASSUME NEW j \in DOMAIN q, j > k PROVE j - 1 \in DOMAIN r /\ from(j - 1) = j
    BY <1>2, <2>2
  <2> QED BY <1>2, <2>1, <2>2
<1> HIDE DEF from
<1>6. SoundCache(r) BY <1>3, <1>4 DEF SoundCache
<1>7. TextsOf(r) = TextsOf(q) \ {q[k].text}
  <2>1. \A j \in DOMAIN q : q[j].text = q[k].text <=> j = k BY <1>2 DEF SoundCache
  <2>2. \A x : x \in TextsOf(r) <=> \E i \in DOMAIN r : x = r[i].text BY DEF TextsOf
  <2>3. \A x : x \in TextsOf(q) <=> \E j \in DOMAIN q : x = q[j].text BY DEF TextsOf
  <2>4. \A x : x \in TextsOf(r) => x \in TextsOf(q) /\ x # q[k].text
    BY <1>3, <2>1, <2>2, <2>3
  <2>5. \A x : x \in TextsOf(q) /\ x # q[k].text => x \in TextsOf(r)
    BY <1>3, <1>5, <2>1, <2>2, <2>3
  <2> QED BY <2>4, <2>5
<1> QED BY <1>1, <1>6, <1>7

LEMMA PutLast ==
  ASSUME NEW q \in Seq(CachedEntry), SoundCache(q), NEW e \in CachedEntry,
         e.text \notin TextsOf(q), e.commands = Parse(e.text), NEW r, r = Append(q, e)
  PROVE  /\ r \in Seq(CachedEntry) /\ SoundCache(r) /\ Len(r) = Len(q) + 1
         /\ TextsOf(r) = TextsOf(q) \union {e.text}
<1>1. /\ r \in Seq(CachedEntry) /\ Len(r) = Len(q) + 1 /\ Len(q) \in Nat
      /\ \A i \in 1 .. Len(q) : r[i] = q[i]
      /\ r[Len(q) + 1] = e
  BY AppendProperties
<1>2. DOMAIN q = 1 .. Len(q) /\ DOMAIN r = 1 .. Len(q) \union {Len(q) + 1} BY <1>1
<1>3. \A i \in DOMAIN q : q[i].text # e.text BY DEF TextsOf
<1>4. SoundCache(r) BY <1>1, <1>2, <1>3 DEF SoundCache
<1>5. \A x : x \in TextsOf(r) <=> x \in TextsOf(q) \/ x = e.text BY <1>1, <1>2 DEF TextsOf
<1> QED BY <1>1, <1>4, <1>5

LEMMA PutAgain ==
  ASSUME NEW q \in Seq(CachedEntry), SoundCache(q), NEW e \in CachedEntry,
         e.commands = Parse(e.text),
         NEW r, r = [i \in DOMAIN q |-> IF q[i].text = e.text THEN e ELSE q[i]]
  PROVE  /\ r \in Seq(CachedEntry) /\ SoundCache(r) /\ Len(r) = Len(q)
         /\ TextsOf(r) = TextsOf(q)
<1>1. DOMAIN q = 1 .. Len(q) /\ Len(q) \in Nat /\ \A i \in DOMAIN q : q[i] \in CachedEntry OBVIOUS
<1>2. DOMAIN r = DOMAIN q /\ \A i \in DOMAIN q : r[i] \in CachedEntry BY <1>1
<1>3. r \in Seq(CachedEntry) /\ Len(r) = Len(q) BY <1>1, <1>2
<1>4. \A i \in DOMAIN q : r[i].text = q[i].text BY <1>1
<1>5. \A i \in DOMAIN q : r[i].commands = Parse(r[i].text) BY <1>1, <1>2 DEF SoundCache
<1> QED BY <1>2, <1>3, <1>4, <1>5 DEF SoundCache, TextsOf

LEMMA GrownStale ==
  ASSUME NEW q \in Seq(CachedEntry), SoundCache(q), NEW k \in DOMAIN q,
         NEW r, r = [q EXCEPT ![k].stale = TRUE]
  PROVE  /\ r \in Seq(CachedEntry) /\ SoundCache(r) /\ Len(r) = Len(q)
         /\ TextsOf(r) = TextsOf(q)
<1>1. DOMAIN q = 1 .. Len(q) /\ Len(q) \in Nat /\ \A i \in DOMAIN q : q[i] \in CachedEntry OBVIOUS
<1>2. ASSUME NEW e \in CachedEntry
      PROVE  /\ [e EXCEPT !.stale = TRUE] \in CachedEntry
             /\ [e EXCEPT !.stale = TRUE].text = e.text
             /\ [e EXCEPT !.stale = TRUE].commands = e.commands
  BY DEF CachedEntry
<1>3. DOMAIN r = DOMAIN q /\ \A i \in DOMAIN q : r[i] = IF i = k THEN [q[i] EXCEPT !.stale = TRUE] ELSE q[i]
  BY <1>1
<1>4. \A i \in DOMAIN q : r[i] \in CachedEntry /\ r[i].text = q[i].text /\ r[i].commands = q[i].commands
  BY <1>1, <1>2, <1>3
<1>5. r \in Seq(CachedEntry) /\ Len(r) = Len(q) BY <1>1, <1>3, <1>4
<1> QED BY <1>3, <1>4, <1>5 DEF SoundCache, TextsOf
-----------------------------------------------------------------------------
(***************************************************************************)
(* The inductive invariant.                                                *)
(***************************************************************************)
Typed ==
  /\ party \in Parties /\ pc \in [Threads -> Steps]
  /\ text \in [Threads -> Texts] /\ answer \in [Threads -> Results]
  /\ parsed \in Seq(CachedEntry) /\ staled \in 0 .. MaxStale /\ robbed \subseteq Threads
  /\ bucket \in Seq(Nat) /\ said \in Nat /\ cut \in [Threads -> Int]

\* From where on a thread has its own answer.
Knowing == {"touch", "room", "evict", "insert", "settle", "answered", "done"} \union Publishing

\* Whoever has looked a sentence up, or put it in, finds it unless it was taken out.
Missing(t) ==
  /\ pc[t] \in {"fetch", "drop", "touch", "settle"} => text[t] \in Cached \/ t \in robbed
  /\ pc[t] = "raised" => t \in robbed

\* Who may still take an entry out: one each.
Taking == {"idle", "look", "fetch", "drop", "evict"}

CacheInv ==
  /\ SoundCache(parsed)
  /\ \A t \in Threads : pc[t] \in Knowing => answer[t] = Parse(text[t])
  /\ \A t \in Threads : Missing(t)
  /\ Len(parsed) + Count(pc, {"insert"}) < MaxSize + Cardinality(Threads)
  /\ (\E t \in Threads : pc[t] = "evict") => Count(pc, Taking) <= Len(parsed)

\* Publishers that are going to bring the topic down by one event at least.
Over == {t \in Threads : pc[t] \in {"check", "measure"} \/ (pc[t] = "delete" /\ cut[t] >= 1)}

TopicInv ==
  /\ \A i \in DOMAIN bucket : bucket[i] = said - Len(bucket) + i
  /\ Len(bucket) <= MaxEvents + Cardinality(Over) /\ Len(bucket) <= said
  /\ Count(pc, Publishing) <= said - MaxEvents

\* How many of three publications may still be followed by a deletion.
Left == 3 - (said - MaxEvents) + Count(pc, Publishing)

\* The first deletion leaves the topic full, the second takes three events at most,
\* and so does the third, unless it spares some.
SparesNewest ==
  /\ Len(bucket) >= 1
  /\ Left >= 1 => Len(bucket) >= MaxEvents - 3
  /\ Left >= 2 => Len(bucket) >= MaxEvents
  /\ \A t \in Threads : pc[t] = "delete" =>
        /\ cut[t] <= 3
        /\ Left >= 2 => cut[t] >= 0
        /\ Left >= 3 => Len(bucket) >= MaxEvents + cut[t]

NewestInv == MaxEvents >= 7 /\ said <= MaxEvents + 3 => SparesNewest

SharedInv == Typed /\ CacheInv /\ TopicInv /\ NewestInv
-----------------------------------------------------------------------------
Moves(t, to) == t \in Threads /\ to \in Steps /\ pc' = [pc EXCEPT ![t] = to]

LEMMA PlacesCounted ==
  ASSUME pc \in [Threads -> Steps], NEW t, NEW to, Moves(t, to), NEW S
  PROVE  /\ Count(pc, S) \in Nat /\ Count(pc', S) \in Nat
         /\ Count(pc', S) <= Cardinality(Threads)
         /\ Count(pc', S) = Count(pc, S) - (IF pc[t] \in S THEN 1 ELSE 0) + (IF to \in S THEN 1 ELSE 0)
         /\ pc[t] \in S => Count(pc, S) >= 1
<1> DEFINE A == {u \in Threads : pc[u] \in S}
           B == {u \in Threads : pc'[u] \in S}
<1>1. t \in Threads /\ \A u \in Threads : pc'[u] = IF u = t THEN to ELSE pc[u] BY DEF Moves
<1>2. IsFiniteSet(A) /\ Cardinality(A) \in Nat BY CountIsNat DEF Count
<1>3. IsFiniteSet(A \ {t}) /\ Cardinality(A \ {t}) = Cardinality(A) - (IF t \in A THEN 1 ELSE 0)
  BY ONLY <1>2, FS_RemoveElement
<1>4. Cardinality((A \ {t}) \union {t}) = Cardinality(A \ {t}) + 1
  BY ONLY <1>3, FS_AddElement
<1>5. t \in A <=> pc[t] \in S BY <1>1
<1>6. B = IF to \in S THEN (A \ {t}) \union {t} ELSE A \ {t} BY <1>1
<1>7. /\ Count(pc, S) = Cardinality(A) /\ Count(pc', S) = Cardinality(B)
      /\ Count(pc', S) \in Nat /\ Count(pc', S) <= Cardinality(Threads)
      /\ pc[t] \in S => Count(pc, S) >= 1
  BY <1>1, CountIsNat DEF Count
<1> HIDE DEF A, B
<1>8. CASE to \in S BY <1>2, <1>3, <1>4, <1>5, <1>6, <1>7, <1>8
<1>9. CASE to \notin S BY <1>2, <1>3, <1>5, <1>6, <1>7, <1>9
<1> QED BY <1>8, <1>9

LEMMA InitShared ==
  ASSUME SharedInit
  PROVE  SharedInv
<1>1. /\ party \in Parties /\ pc = [t \in Threads |-> "idle"]
      /\ text = [t \in Threads |-> <<>>] /\ answer = [t \in Threads |-> <<>>]
      /\ cut = [t \in Threads |-> 0] /\ staled = 0 /\ robbed = {}
      /\ parsed = [i \in DOMAIN party.warm |-> Entry(party.warm[i])]
      /\ said = MaxEvents /\ bucket = [i \in 1 .. MaxEvents |-> i]
  BY DEF SharedInit
<1>2. /\ MaxSize \in Nat /\ MaxEvents \in Nat \ {0} /\ MaxStale \in Nat
      /\ IsFiniteSet(Threads) /\ Threads # {} /\ MaxSize >= Cardinality(Threads)
  BY SharedBounds
<1>3. Cardinality(Threads) \in Nat /\ Cardinality(Threads) >= 1
  <2>1. Cardinality(Threads) \in Nat /\ Cardinality(Threads) # 0
    BY ONLY <1>2, FS_CardinalityType, FS_EmptySet
  <2> QED BY <2>1
<1> DEFINE w == party.warm
<1>4. /\ w \in Seq(ToSet(w)) /\ Len(w) <= MaxSize /\ \A i, j \in DOMAIN w : w[i] = w[j] => i = j
  BY <1>1, PartiesAssumption
<1>5. ToSet(w) \subseteq Texts BY <1>1 DEF Texts
<1>6. DOMAIN w = 1 .. Len(w) /\ Len(w) \in Nat /\ \A i \in DOMAIN w : w[i] \in Texts
  BY <1>4, <1>5
<1> HIDE DEF w
<1>7. parsed = [i \in DOMAIN w |-> Entry(w[i])] BY <1>1 DEF w
<1>8. \A i \in DOMAIN w : /\ parsed[i] \in CachedEntry /\ parsed[i].text = w[i]
                          /\ parsed[i].commands = Parse(w[i])
  BY <1>6, <1>7 DEF Entry, CachedEntry, Results
<1>9. parsed \in Seq(CachedEntry) /\ Len(parsed) = Len(w) /\ DOMAIN parsed = DOMAIN w
  BY <1>6, <1>7, <1>8
<1>10. bucket \in Seq(Nat) /\ Len(bucket) = MaxEvents BY <1>1, <1>2
<1>11. Typed
  <2>1. <<>> \in Texts /\ <<>> \in Results BY Zenon DEF Texts, Results
  <2>4. "idle" \in Steps BY DEF Steps, Ended
  <2>2. /\ pc \in [Threads -> Steps] /\ text \in [Threads -> Texts] /\ answer \in [Threads -> Results]
        /\ cut \in [Threads -> Int]
    BY <1>1, <2>1, <2>4
  <2>3. staled \in 0 .. MaxStale /\ robbed \subseteq Threads /\ said \in Nat BY <1>1, <1>2
  <2> QED BY <1>1, <1>9, <1>10, <2>2, <2>3 DEF Typed
<1>12. SoundCache(parsed) BY <1>4, <1>8, <1>9 DEF SoundCache
<1>13. \A S : "idle" \notin S => Count(pc, S) = 0
  <2> SUFFICES ASSUME NEW S, "idle" \notin S PROVE Count(pc, S) = 0 OBVIOUS
  <2>1. {t \in Threads : pc[t] \in S} = {} BY <1>1
  <2> QED BY <2>1, FS_EmptySet DEF Count
<1>14. Count(pc, {"insert"}) = 0 /\ Count(pc, Publishing) = 0 BY <1>13 DEF Publishing
<1>15. Over = {} BY <1>1 DEF Over
<1>16. Cardinality(Over) = 0 BY <1>15, FS_EmptySet
<1>17. CacheInv
  <2>1. \A t \in Threads : pc[t] = "idle" BY <1>1
  <2>2. \A t \in Threads : pc[t] \notin Knowing /\ Missing(t) /\ pc[t] # "evict"
    BY <2>1 DEF Knowing, Publishing, Missing
  <2>3. Len(parsed) + Count(pc, {"insert"}) < MaxSize + Cardinality(Threads)
    BY <1>2, <1>3, <1>4, <1>6, <1>9, <1>14 DEF w
  <2> QED BY <1>12, <2>2, <2>3 DEF CacheInv
<1>18. TopicInv BY <1>1, <1>2, <1>10, <1>14, <1>16 DEF TopicInv
<1>19. NewestInv BY <1>1, <1>2, <1>10, <1>14 DEF NewestInv, SparesNewest, Left
<1> QED BY <1>11, <1>17, <1>18, <1>19 DEF SharedInv
-----------------------------------------------------------------------------
(***************************************************************************)
(* What one half of the threads' work leaves of the other.                 *)
(***************************************************************************)
LEMMA TopicUntouched ==
  ASSUME SharedInv, UNCHANGED ofBus,
         \/ UNCHANGED pc
         \/ \E t, to : Moves(t, to) /\ pc[t] \notin Publishing /\ to \notin Publishing
  PROVE  TopicInv' /\ NewestInv'
<1>1. \A t \in Threads : pc'[t] \in Publishing \/ pc[t] \in Publishing => pc'[t] = pc[t]
  BY DEF Moves, SharedInv, Typed
<1>2. bucket' = bucket /\ said' = said /\ cut' = cut BY DEF ofBus
<1>3. \A t \in Threads : pc'[t] \in Publishing <=> pc[t] \in Publishing BY <1>1
<1>4. Count(pc, Publishing)' = Count(pc, Publishing) BY <1>3 DEF Count
<1>5. Over' = Over BY <1>1, <1>2 DEF Over, Publishing
<1>6. \A t \in Threads : pc'[t] = "delete" <=> pc[t] = "delete" BY <1>1 DEF Publishing
<1>7. Left' = Left BY <1>2, <1>4 DEF Left
<1>8. TopicInv' BY <1>2, <1>4, <1>5 DEF SharedInv, TopicInv
<1>9. NewestInv' BY <1>2, <1>6, <1>7 DEF SharedInv, NewestInv, SparesNewest
<1> QED BY <1>8, <1>9

LEMMA CacheUntouched ==
  ASSUME SharedInv, UNCHANGED <<party, text, answer, ofCache>>,
         NEW t, NEW to, Moves(t, to),
         pc[t] \in {"answered"} \union Publishing, to \in {"done"} \union Publishing
  PROVE  CacheInv'
<1>1. /\ text' = text /\ answer' = answer /\ parsed' = parsed /\ robbed' = robbed
      /\ pc \in [Threads -> Steps] /\ t \in Threads /\ pc' = [pc EXCEPT ![t] = to]
  BY DEF ofCache, SharedInv, Typed, Moves
<1>2. Count(pc', {"insert"}) = Count(pc, {"insert"}) /\ Count(pc', Taking) = Count(pc, Taking)
  <2>1. \A u \in Threads : /\ pc'[u] \in {"insert"} <=> pc[u] \in {"insert"}
                           /\ pc'[u] \in Taking <=> pc[u] \in Taking
    BY <1>1 DEF Publishing, Taking
  <2> QED BY <2>1 DEF Count
<1>3. \A u \in Threads : Missing(u)' BY <1>1 DEF SharedInv, CacheInv, Missing, Cached, Publishing
<1>4. \A u \in Threads : pc'[u] \in Knowing => pc[u] \in Knowing BY <1>1 DEF Knowing
<1>5. \A u \in Threads : pc'[u] = "evict" => pc[u] = "evict" BY <1>1 DEF Publishing
<1> QED BY <1>1, <1>2, <1>3, <1>4, <1>5 DEF SharedInv, CacheInv
-----------------------------------------------------------------------------
(***************************************************************************)
(* publish                                                                 *)
(***************************************************************************)
LEMMA OverCounted ==
  ASSUME NEW t \in Threads
  PROVE  /\ Cardinality(Over) \in Nat
         /\ Over' = Over \union {t} =>
               Cardinality(Over') = Cardinality(Over) + (IF t \in Over THEN 0 ELSE 1)
         /\ Over' = Over \ {t} =>
               Cardinality(Over') = Cardinality(Over) - (IF t \in Over THEN 1 ELSE 0)
         /\ Over' = Over => Cardinality(Over') = Cardinality(Over)
<1>1. Over \in SUBSET Threads BY DEF Over
<1>2. IsFiniteSet(Threads) BY SharedBounds
<1>3. IsFiniteSet(Over) BY ONLY <1>1, <1>2, FS_Subset
<1>4. Cardinality(Over) \in Nat BY ONLY <1>3, FS_CardinalityType
<1>5. Cardinality(Over \union {t}) = IF t \in Over THEN Cardinality(Over) ELSE Cardinality(Over) + 1
  BY ONLY <1>3, FS_AddElement
<1>6. Cardinality(Over \ {t}) = IF t \in Over THEN Cardinality(Over) - 1 ELSE Cardinality(Over)
  BY ONLY <1>3, FS_RemoveElement
<1>7. Over' = Over \union {t} => Cardinality(Over') = Cardinality(Over \union {t}) OBVIOUS
<1>8. Over' = Over \ {t} => Cardinality(Over') = Cardinality(Over \ {t}) OBVIOUS
<1> QED BY <1>4, <1>5, <1>6, <1>7, <1>8

\* The facts the steps of a publisher begin with.
LEMMA TopicFacts ==
  ASSUME SharedInv
  PROVE  /\ pc \in [Threads -> Steps] /\ bucket \in Seq(Nat) /\ Len(bucket) \in Nat
         /\ said \in Nat /\ cut \in [Threads -> Int] /\ MaxEvents \in Nat /\ MaxEvents >= 1
         /\ \A i \in 1 .. Len(bucket) : bucket[i] = said - Len(bucket) + i
         /\ Len(bucket) <= MaxEvents + Cardinality(Over) /\ Len(bucket) <= said
         /\ Count(pc, Publishing) <= said - MaxEvents
<1>1. bucket \in Seq(Nat) BY DEF SharedInv, Typed
<1>2. Len(bucket) \in Nat /\ DOMAIN bucket = 1 .. Len(bucket) BY <1>1
<1>3. MaxEvents \in Nat /\ MaxEvents >= 1 BY SharedBounds
<1> QED BY <1>1, <1>2, <1>3 DEF SharedInv, Typed, TopicInv

LEMMA PublishingCounted ==
  ASSUME SharedInv, NEW t, NEW to, Moves(t, to)
  PROVE  /\ Count(pc, Publishing) \in Nat /\ Count(pc', Publishing) \in Nat
         /\ Count(pc', Publishing) = Count(pc, Publishing)
                - (IF pc[t] \in Publishing THEN 1 ELSE 0) + (IF to \in Publishing THEN 1 ELSE 0)
         /\ pc[t] \in Publishing => Count(pc, Publishing) >= 1
BY PlacesCounted, TopicFacts

\* More events, no new deletion.
LEMMA StillSpares ==
  ASSUME SharedInv, SparesNewest, Len(bucket') \in Nat, Len(bucket') >= Len(bucket),
         Left \in Int, Left' \in Int, Left' <= Left, cut' = cut,
         \A t \in Threads : pc'[t] = "delete" => pc[t] = "delete"
  PROVE  SparesNewest'
<1> DEFINE b == Len(bucket)
           c == Len(bucket')
           m == Left
           n == Left'
<1>1. /\ b \in Nat /\ c \in Nat /\ c >= b /\ m \in Int /\ n \in Int /\ n <= m /\ MaxEvents \in Nat
      /\ cut \in [Threads -> Int]
  BY TopicFacts
<1>2. /\ b >= 1 /\ (m >= 1 => b >= MaxEvents - 3) /\ (m >= 2 => b >= MaxEvents)
      /\ \A t \in Threads : pc[t] = "delete" =>
            cut[t] <= 3 /\ (m >= 2 => cut[t] >= 0) /\ (m >= 3 => b >= MaxEvents + cut[t])
  BY DEF SparesNewest
<1> HIDE DEF b, c, m, n
<1>3. c >= 1 /\ (n >= 1 => c >= MaxEvents - 3) /\ (n >= 2 => c >= MaxEvents)
  BY ONLY <1>1, <1>2
<1>4. ASSUME NEW t \in Threads, pc'[t] = "delete"
      PROVE  cut[t] <= 3 /\ (n >= 2 => cut[t] >= 0) /\ (n >= 3 => c >= MaxEvents + cut[t])
  <2>1. cut[t] \in Int /\ cut[t] <= 3 /\ (m >= 2 => cut[t] >= 0) /\ (m >= 3 => b >= MaxEvents + cut[t])
    BY <1>1, <1>2, <1>4
  <2> QED BY ONLY <1>1, <2>1
<1> QED BY <1>3, <1>4 DEF SparesNewest, b, c, m, n

LEMMA PublishTopic ==
  ASSUME SharedInv, NEW t \in Threads, Publish(t)
  PROVE  TopicInv' /\ NewestInv'
<1>1. /\ pc[t] = "answered" /\ Moves(t, "check") /\ said' = said + 1 /\ cut' = cut
      /\ bucket' = Append(bucket, said + 1)
  BY DEF Publish, Stands, To, Moves, Steps, Publishing
<1>2. /\ Count(pc, Publishing) \in Nat /\ Count(pc', Publishing) = Count(pc, Publishing) + 1
  <2>1. pc[t] \notin Publishing /\ "check" \in Publishing BY <1>1 DEF Publishing
  <2> QED BY <1>1, <2>1, PublishingCounted
<1>3. /\ Len(bucket') = Len(bucket) + 1 /\ DOMAIN bucket' = 1 .. Len(bucket) + 1
      /\ \A i \in 1 .. Len(bucket) : bucket'[i] = bucket[i]
      /\ bucket'[Len(bucket) + 1] = said + 1
  BY <1>1, TopicFacts, AppendProperties
<1>4. \A i \in DOMAIN bucket' : bucket'[i] = said' - Len(bucket') + i
  <2>1. \A i \in 1 .. Len(bucket) : bucket'[i] = said' - Len(bucket') + i
    BY <1>1, <1>3, TopicFacts
  <2>2. said + 1 = said' - Len(bucket') + (Len(bucket) + 1) BY <1>1, <1>3, TopicFacts
  <2>3. DOMAIN bucket' = 1 .. Len(bucket) \union {Len(bucket) + 1} BY <1>3, TopicFacts
  <2> QED BY <1>3, <2>1, <2>2, <2>3
<1>5. Over' = Over \union {t} /\ t \notin Over
  BY <1>1, TopicFacts DEF Over, Moves
<1>6. Cardinality(Over') = Cardinality(Over) + 1 /\ Cardinality(Over) \in Nat
  BY <1>5, TopicFacts, OverCounted
<1>7. TopicInv'
  <2>1. Len(bucket') <= MaxEvents + Cardinality(Over') BY <1>3, <1>6, TopicFacts
  <2>2. Len(bucket') <= said' BY <1>1, <1>3, TopicFacts
  <2>3. Count(pc', Publishing) <= said' - MaxEvents BY <1>1, <1>2, TopicFacts
  <2> QED BY ONLY <1>4, <2>1, <2>2, <2>3 DEF TopicInv
<1>8. Left' = Left /\ Left \in Int
  BY <1>1, <1>2, TopicFacts DEF Left
<1>9. \A u \in Threads : pc'[u] = "delete" => pc[u] = "delete" BY <1>1, TopicFacts DEF Moves
<1>10. NewestInv'
  <2> SUFFICES ASSUME MaxEvents >= 7, said' <= MaxEvents + 3
               PROVE  SparesNewest'
    BY DEF NewestInv
  <2>1. SparesNewest BY <1>1, TopicFacts DEF SharedInv, NewestInv
  <2>2. Len(bucket') >= Len(bucket) BY <1>3, TopicFacts
  <2>3. Len(bucket') \in Nat BY <1>3, TopicFacts
  <2> QED BY <1>1, <1>8, <1>9, <2>1, <2>2, <2>3, StillSpares
<1> QED BY <1>7, <1>10

\* The step of a publisher that ends without a deletion.
LEMMA CheckTopic ==
  ASSUME SharedInv, NEW t \in Threads, Check(t)
  PROVE  TopicInv' /\ NewestInv'
<1>1. /\ pc[t] = "check" /\ said' = said /\ cut' = cut /\ bucket' = bucket
  BY DEF Check, Stands, ofBus
<1>2. CASE Len(bucket) > MaxEvents
  <2>1. Moves(t, "measure") BY <1>2 DEF Check, To, Moves, Steps, Publishing
  <2>2. Count(pc', Publishing) = Count(pc, Publishing)
    <3>1. Count(pc, Publishing) \in Nat /\ Count(pc', Publishing) = Count(pc, Publishing) - 1 + 1
      <4>1. pc[t] \in Publishing /\ "measure" \in Publishing BY <1>1 DEF Publishing
      <4> QED BY <2>1, <4>1, PublishingCounted
    <3> QED BY <3>1
  <2>3. Over' = Over BY <1>1, <2>1, TopicFacts DEF Over, Moves
  <2>4. \A u \in Threads : pc'[u] = "delete" => pc[u] = "delete" BY <2>1, TopicFacts DEF Moves
  <2>5. Left' = Left BY <1>1, <2>2 DEF Left
  <2> QED BY <1>1, <2>2, <2>3, <2>4, <2>5 DEF SharedInv, TopicInv, NewestInv, SparesNewest
<1>3. CASE ~(Len(bucket) > MaxEvents)
  <2>1. Moves(t, "done") BY <1>3 DEF Check, To, Moves, Steps, Ended
  <2>2. Count(pc, Publishing) \in Nat /\ Count(pc', Publishing) = Count(pc, Publishing) - 1
    <3>1. pc[t] \in Publishing /\ "done" \notin Publishing BY <1>1 DEF Publishing
    <3> QED BY <2>1, <3>1, PublishingCounted
  <2>3. Over' = Over \ {t} /\ t \in Over BY <1>1, <2>1, TopicFacts DEF Over, Moves
  <2>4. Cardinality(Over) \in Nat /\ Cardinality(Over') = Cardinality(Over) - 1
    BY <2>3, TopicFacts, OverCounted
  <2>8. Cardinality(Over') \in Nat
    <3>1. IsFiniteSet(Over')
      <4>1. Over' \in SUBSET Threads /\ IsFiniteSet(Threads) BY TopicFacts, SharedBounds DEF Over
      <4> QED BY ONLY <4>1, FS_Subset
    <3> QED BY ONLY <3>1, FS_CardinalityType
  <2>5. TopicInv'
    <3>1. Len(bucket) <= MaxEvents + Cardinality(Over') BY <1>3, <2>8, TopicFacts
    <3>2. Count(pc', Publishing) <= said - MaxEvents BY <2>2, TopicFacts
    <3>3. (\A i \in DOMAIN bucket : bucket[i] = said - Len(bucket) + i) /\ Len(bucket) <= said
      BY DEF SharedInv, TopicInv
    <3> QED BY ONLY <1>1, <3>1, <3>2, <3>3 DEF TopicInv
  <2>6. Left' = Left - 1 /\ Left \in Int BY <1>1, <2>2, TopicFacts DEF Left
  <2>7. \A u \in Threads : pc'[u] = "delete" => pc[u] = "delete" BY <2>1, TopicFacts DEF Moves
  <2>9. NewestInv'
    <3> SUFFICES ASSUME MaxEvents >= 7, said' <= MaxEvents + 3
                 PROVE  SparesNewest'
      BY DEF NewestInv
    <3>1. SparesNewest BY <1>1, TopicFacts DEF SharedInv, NewestInv
    <3> QED BY <1>1, <2>6, <2>7, <3>1, TopicFacts, StillSpares
  <2> QED BY <2>5, <2>9
<1> QED BY <1>2, <1>3

LEMMA MeasureTopic ==
  ASSUME SharedInv, NEW t \in Threads, Measure(t)
  PROVE  TopicInv' /\ NewestInv'
<1>1. /\ pc[t] = "measure" /\ Moves(t, "delete") /\ said' = said /\ bucket' = bucket
      /\ cut' = [cut EXCEPT ![t] = Len(bucket) - MaxEvents]
  BY DEF Measure, Stands, To, Moves, Steps, Publishing, Overflow
<1>2. Count(pc', Publishing) = Count(pc, Publishing)
  <2>1. pc[t] \in Publishing /\ "delete" \in Publishing BY <1>1 DEF Publishing
  <2>2. Count(pc, Publishing) \in Nat /\ Count(pc', Publishing) = Count(pc, Publishing) - 1 + 1
    BY <1>1, <2>1, PublishingCounted
  <2> QED BY <2>2
<1>3. /\ pc'[t] = "delete" /\ cut'[t] = Len(bucket) - MaxEvents
      /\ \A u \in Threads : u # t => pc'[u] = pc[u] /\ cut'[u] = cut[u]
  BY <1>1, TopicFacts DEF Moves
<1>4. Len(bucket) <= MaxEvents + Cardinality(Over')
  <2>1. CASE Len(bucket) - MaxEvents >= 1
    <3>1. Over' = Over BY <1>1, <1>3, <2>1 DEF Over
    <3> QED BY <3>1, TopicFacts
  <2>2. CASE ~(Len(bucket) - MaxEvents >= 1)
    <3>1. Over' \in SUBSET Threads /\ IsFiniteSet(Threads) BY TopicFacts, SharedBounds DEF Over
    <3>2. IsFiniteSet(Over') BY ONLY <3>1, FS_Subset
    <3>3. Cardinality(Over') \in Nat BY ONLY <3>2, FS_CardinalityType
    <3> QED BY <2>2, <3>3, TopicFacts
  <2> QED BY <2>1, <2>2
<1>5. TopicInv' BY <1>1, <1>2, <1>4 DEF SharedInv, TopicInv
<1>6. Left' = Left BY <1>1, <1>2 DEF Left
<1>7. NewestInv'
  <2> SUFFICES ASSUME MaxEvents >= 7, said' <= MaxEvents + 3
               PROVE  SparesNewest'
    BY DEF NewestInv
  <2>1. SparesNewest BY <1>1, TopicFacts DEF SharedInv, NewestInv
  <2>2. ASSUME NEW u \in Threads, pc'[u] = "delete"
        PROVE  /\ cut'[u] <= 3 /\ (Left >= 2 => cut'[u] >= 0)
               /\ (Left >= 3 => Len(bucket) >= MaxEvents + cut'[u])
    <3>1. CASE u = t
      <4>1. Left >= 2 => Len(bucket) >= MaxEvents BY <2>1 DEF SparesNewest
      <4> QED BY <1>1, <1>3, <3>1, <4>1, TopicFacts
    <3>2. CASE u # t
      BY <1>3, <2>1, <2>2, <3>2 DEF SparesNewest
    <3> QED BY <3>1, <3>2
  <2> QED BY <1>1, <1>6, <2>1, <2>2 DEF SparesNewest
<1> QED BY <1>5, <1>7

LEMMA DeleteTopic ==
  ASSUME SharedInv, NEW t \in Threads, Delete(t)
  PROVE  TopicInv' /\ NewestInv' /\ bucket' \in Seq(Nat)
<1>1. /\ pc[t] = "delete" /\ Moves(t, "done") /\ said' = said
      /\ bucket' = WithoutFirst(bucket, cut[t]) /\ cut' = [cut EXCEPT ![t] = 0]
  BY DEF Delete, Stands, To, Moves, Steps, Ended
<1>2. /\ Count(pc, Publishing) \in Nat /\ Count(pc, Publishing) >= 1
      /\ Count(pc', Publishing) = Count(pc, Publishing) - 1
  <2>1. pc[t] \in Publishing /\ "done" \notin Publishing BY <1>1 DEF Publishing
  <2> QED BY <1>1, <2>1, PublishingCounted
<1> DEFINE b == Len(bucket)
           d == Len(bucket')
           c == cut[t]
<1>3. b \in Nat /\ c \in Int /\ bucket \in Seq(Nat) BY TopicFacts
<1>4. /\ bucket' \in Seq(Nat)
      /\ c >= 0 => d = IF c <= b THEN b - c ELSE 0
      /\ c < 0 => d = IF b <= -c THEN b ELSE -c
      /\ \A i \in 1 .. d : bucket'[i] = bucket[b - d + i]
  <2>1. cut[t] \in Int /\ bucket \in Seq(Nat) BY <1>3
  <2>2. ASSUME NEW r, r = WithoutFirst(bucket, cut[t])
        PROVE  /\ r \in Seq(Nat)
               /\ cut[t] >= 0 => Len(r) = IF cut[t] <= Len(bucket) THEN Len(bucket) - cut[t] ELSE 0
               /\ cut[t] < 0 => Len(r) = IF Len(bucket) <= -cut[t] THEN Len(bucket) ELSE -cut[t]
               /\ \A i \in 1 .. Len(r) : r[i] = bucket[Len(bucket) - Len(r) + i]
    BY ONLY <2>1, <2>2, DeletedFirst
  <2> QED BY <1>1, <2>2
<1>5. d \in Nat /\ DOMAIN bucket' = 1 .. d BY <1>4
<1>6. /\ pc'[t] = "done"
      /\ \A u \in Threads : u # t => pc'[u] = pc[u] /\ cut'[u] = cut[u]
  BY <1>1, TopicFacts DEF Moves
<1> HIDE DEF b, d, c
<1>7. d <= b BY ONLY <1>3, <1>4, <1>5
<1>8. \A i \in DOMAIN bucket' : bucket'[i] = said' - d + i
  <2> SUFFICES ASSUME NEW i \in 1 .. d PROVE bucket'[i] = said - d + i BY <1>1, <1>5
  <2>1. b - d + i \in 1 .. b BY <1>3, <1>5, <1>7
  <2>2. bucket[b - d + i] = said - b + (b - d + i) BY <2>1, TopicFacts DEF b
  <2> QED BY <1>3, <1>4, <1>5, <2>2, TopicFacts
<1>9. d <= MaxEvents + Cardinality(Over')
  <2>1. CASE c >= 1
    <3>1. t \in Over /\ Over' = Over \ {t} BY <1>1, <1>6, <2>1 DEF Over, c
    <3>2. Cardinality(Over) \in Nat /\ Cardinality(Over') = Cardinality(Over) - 1
      BY <3>1, TopicFacts, OverCounted
    <3>3. t \in Over' \/ Cardinality(Over') >= 0
      <4>1. Over' \in SUBSET Threads /\ IsFiniteSet(Threads) BY TopicFacts, SharedBounds DEF Over
      <4>2. IsFiniteSet(Over') BY ONLY <4>1, FS_Subset
      <4>3. Cardinality(Over') \in Nat BY ONLY <4>2, FS_CardinalityType
      <4> QED BY <4>3
    <3>4. t \notin Over' BY <3>1
    <3>5. CASE c <= b
      <4>1. d = b - c BY <1>3, <1>4, <2>1, <3>5
      <4>2. b <= MaxEvents + Cardinality(Over) BY TopicFacts DEF b
      <4> QED BY <1>3, <2>1, <3>2, <4>1, <4>2, TopicFacts
    <3>6. CASE ~(c <= b)
      <4>1. d = 0 BY <1>3, <1>4, <2>1, <3>6
      <4> QED BY <3>2, <3>3, <3>4, <4>1, TopicFacts
    <3> QED BY <3>5, <3>6
  <2>2. CASE ~(c >= 1)
    <3>1. Over' = Over BY <1>1, <1>6, <2>2 DEF Over, c
    <3>2. b <= MaxEvents + Cardinality(Over') /\ Cardinality(Over') \in Nat
      BY <3>1, OverCounted, TopicFacts DEF b
    <3> QED BY <1>3, <1>5, <1>7, <3>2, TopicFacts
  <2> QED BY <2>1, <2>2
<1>10. TopicInv'
  <2>1. d <= said' BY <1>1, <1>3, <1>5, <1>7, TopicFacts DEF b
  <2>2. Count(pc', Publishing) <= said' - MaxEvents BY <1>1, <1>2, TopicFacts
  <2> QED BY <1>8, <1>9, <2>1, <2>2 DEF TopicInv, d
<1>11. Left \in Int /\ Left' = Left - 1 BY <1>1, <1>2, TopicFacts DEF Left
<1>12. NewestInv'
  <2> SUFFICES ASSUME MaxEvents >= 7, said' <= MaxEvents + 3
               PROVE  SparesNewest'
    BY DEF NewestInv
  <2>1. SparesNewest BY <1>1, TopicFacts DEF SharedInv, NewestInv
  <2>2. Left >= 1 /\ Left <= 3 BY <1>1, <1>2, TopicFacts DEF Left
  <2>3. b >= 1 /\ b >= MaxEvents - 3 /\ (Left >= 2 => b >= MaxEvents)
    BY <2>1, <2>2 DEF SparesNewest, b
  <2>4. c <= 3 /\ (Left >= 2 => c >= 0) /\ (Left >= 3 => b >= MaxEvents + c)
    BY <1>1, <2>1 DEF SparesNewest, b, c
  <2>5. d >= 1 /\ (Left >= 2 => d >= MaxEvents - 3) /\ (Left >= 3 => d >= MaxEvents)
    <3>1. CASE c >= 0
      <4>1. c <= b BY <1>3, <2>3, <2>4, <3>1, TopicFacts
      <4>2. d = b - c BY <1>4, <3>1, <4>1
      <4> QED BY <1>3, <1>11, <2>3, <2>4, <3>1, <4>2, TopicFacts
    <3>2. CASE c < 0
      <4>1. ~(Left >= 2) BY <1>3, <2>4, <3>2
      <4>2. d >= 1 BY <1>3, <1>4, <1>5, <2>3, <3>2
      <4> QED BY <1>11, <4>1, <4>2
    <3> QED BY <1>3, <3>1, <3>2
  <2>6. ASSUME NEW u \in Threads, pc'[u] = "delete"
        PROVE  /\ cut'[u] <= 3 /\ (Left' >= 2 => cut'[u] >= 0)
               /\ (Left' >= 3 => d >= MaxEvents + cut'[u])
    <3>1. u # t /\ pc[u] = "delete" /\ cut'[u] = cut[u] BY <1>6, <2>6
    <3>2. cut[u] <= 3 /\ (Left >= 2 => cut[u] >= 0) BY <2>1, <3>1 DEF SparesNewest
    <3> QED BY <1>11, <2>2, <3>1, <3>2
  <2> QED BY <1>11, <2>5, <2>6 DEF SparesNewest, d
<1> QED BY <1>4, <1>10, <1>12
-----------------------------------------------------------------------------
(***************************************************************************)
(* get and set                                                             *)
(***************************************************************************)
LEMMA CacheFacts ==
  ASSUME SharedInv
  PROVE  /\ pc \in [Threads -> Steps] /\ text \in [Threads -> Texts] /\ answer \in [Threads -> Results]
         /\ parsed \in Seq(CachedEntry) /\ SoundCache(parsed) /\ Len(parsed) \in Nat
         /\ DOMAIN parsed = 1 .. Len(parsed) /\ Cached = TextsOf(parsed)
         /\ robbed \subseteq Threads /\ staled \in 0 .. MaxStale
         /\ \A t \in Threads : Missing(t) /\ (pc[t] \in Knowing => answer[t] = Parse(text[t]))
         /\ MaxSize \in Nat /\ Cardinality(Threads) \in Nat /\ MaxSize >= Cardinality(Threads)
<1>1. parsed \in Seq(CachedEntry) BY DEF SharedInv, Typed
<1>2. Len(parsed) \in Nat /\ DOMAIN parsed = 1 .. Len(parsed) BY <1>1
<1>3. IsFiniteSet(Threads) /\ MaxSize \in Nat /\ MaxSize >= Cardinality(Threads)
  BY SharedBounds
<1>4. Cardinality(Threads) \in Nat BY ONLY <1>3, FS_CardinalityType
<1>5. Cached = TextsOf(parsed) BY DEF Cached, TextsOf
<1> QED BY <1>1, <1>2, <1>3, <1>4, <1>5 DEF SharedInv, Typed, CacheInv

LEMMA PlaceIs ==
  ASSUME SharedInv, NEW s \in Cached
  PROVE  /\ PlaceOf(s) \in 1 .. Len(parsed) /\ parsed[PlaceOf(s)].text = s
         /\ EntryOf(s) = parsed[PlaceOf(s)] /\ EntryOf(s) \in CachedEntry
         /\ EntryOf(s).text = s /\ EntryOf(s).commands = Parse(s)
<1>1. \E i \in DOMAIN parsed : parsed[i].text = s BY DEF Cached
<1>2. PlaceOf(s) \in DOMAIN parsed /\ parsed[PlaceOf(s)].text = s BY <1>1 DEF PlaceOf
<1>3. parsed[PlaceOf(s)] \in CachedEntry BY <1>2, CacheFacts
<1>4. parsed[PlaceOf(s)].commands = Parse(s) BY <1>2, CacheFacts DEF SoundCache
<1> QED BY <1>2, <1>3, <1>4, CacheFacts DEF EntryOf

\* A step that takes an entry out, or may do so later, is paid for by its thread.
LEMMA SizeKept ==
  ASSUME SharedInv, NEW t, NEW to, Moves(t, to), Len(parsed') \in Nat,
         \/ Len(parsed') < MaxSize
         \/ Len(parsed') - Len(parsed)
                <= (IF pc[t] = "insert" THEN 1 ELSE 0) - (IF to = "insert" THEN 1 ELSE 0),
         \/ Len(parsed') >= MaxSize
         \/ /\ to # "evict"
            /\ Len(parsed') - Len(parsed)
                   >= (IF to \in Taking THEN 1 ELSE 0) - (IF pc[t] \in Taking THEN 1 ELSE 0)
  PROVE  /\ Len(parsed') + Count(pc', {"insert"}) < MaxSize + Cardinality(Threads)
         /\ (\E u \in Threads : pc'[u] = "evict") => Count(pc', Taking) <= Len(parsed')
<1> DEFINE a == Count(pc, {"insert"})
           b == Count(pc', {"insert"})
           c == Count(pc, Taking)
           d == Count(pc', Taking)
<1>1. /\ a \in Nat /\ b \in Nat /\ b <= Cardinality(Threads)
      /\ b = a - (IF pc[t] \in {"insert"} THEN 1 ELSE 0) + (IF to \in {"insert"} THEN 1 ELSE 0)
  BY PlacesCounted, CacheFacts
<1>2. /\ c \in Nat /\ d \in Nat /\ d <= Cardinality(Threads)
      /\ d = c - (IF pc[t] \in Taking THEN 1 ELSE 0) + (IF to \in Taking THEN 1 ELSE 0)
  BY PlacesCounted, CacheFacts
<1>3. /\ Len(parsed) + a < MaxSize + Cardinality(Threads)
      /\ (\E u \in Threads : pc[u] = "evict") => c <= Len(parsed)
  BY DEF SharedInv, CacheInv
<1> HIDE DEF a, b, c, d
<1>4. Len(parsed') + b < MaxSize + Cardinality(Threads)
  <2> DEFINE x == Len(parsed)
             y == Len(parsed')
             n == Cardinality(Threads)
  <2>1. x \in Nat /\ y \in Nat /\ n \in Nat /\ MaxSize \in Nat /\ b <= n /\ x + a < MaxSize + n
    BY <1>1, <1>3, CacheFacts
  <2>2. b = a - (IF pc[t] = "insert" THEN 1 ELSE 0) + (IF to = "insert" THEN 1 ELSE 0)
    BY <1>1
  <2>3. \/ y < MaxSize
        \/ y - x <= (IF pc[t] = "insert" THEN 1 ELSE 0) - (IF to = "insert" THEN 1 ELSE 0)
    OBVIOUS
  <2> HIDE DEF x, y, n
  <2>4. y + b < MaxSize + n BY ONLY <1>1, <2>1, <2>2, <2>3
  <2> QED BY <2>4 DEF y, n
<1>5. ASSUME NEW u \in Threads, pc'[u] = "evict" PROVE d <= Len(parsed')
  <2>1. CASE Len(parsed') >= MaxSize BY <1>2, <2>1, CacheFacts
  <2>2. CASE /\ to # "evict"
             /\ Len(parsed') - Len(parsed)
                    >= (IF to \in Taking THEN 1 ELSE 0) - (IF pc[t] \in Taking THEN 1 ELSE 0)
    <3>1. pc[u] = "evict" BY <1>5, <2>2, CacheFacts DEF Moves
    <3> QED BY <1>2, <1>3, <2>2, <3>1, CacheFacts
  <2> QED BY <2>1, <2>2
<1> QED BY <1>4, <1>5 DEF b, d

LEMMA CacheKept ==
  ASSUME SharedInv, NEW t, NEW to, Moves(t, to), SoundCache(parsed)', robbed \subseteq robbed',
         \A u \in Threads \ {t} : text'[u] = text[u] /\ answer'[u] = answer[u],
         \A u \in Threads \ {t} : text[u] \in Cached => text[u] \in Cached' \/ u \in robbed',
         Missing(t)', to \in Knowing => answer'[t] = Parse(text'[t]),
         Len(parsed') + Count(pc', {"insert"}) < MaxSize + Cardinality(Threads),
         (\E u \in Threads : pc'[u] = "evict") => Count(pc', Taking) <= Len(parsed')
  PROVE  CacheInv'
<1>1. /\ \A u \in Threads \ {t} : pc'[u] = pc[u]
      /\ t \in Threads /\ pc'[t] = to
  BY CacheFacts DEF Moves
<1>2. \A u \in Threads \ {t} : Missing(u)'
  <2> SUFFICES ASSUME NEW u \in Threads \ {t} PROVE Missing(u)' OBVIOUS
  <2>1. Missing(u) BY CacheFacts
  <2> QED BY <1>1, <2>1 DEF Missing
<1>3. \A u \in Threads : Missing(u)' BY <1>2
<1>4. \A u \in Threads : pc'[u] \in Knowing => answer'[u] = Parse(text'[u])
  <2> SUFFICES ASSUME NEW u \in Threads, pc'[u] \in Knowing PROVE answer'[u] = Parse(text'[u]) OBVIOUS
  <2>1. CASE u = t BY <1>1, <2>1
  <2>2. CASE u # t
    <3>1. answer[u] = Parse(text[u]) BY <1>1, <2>2, CacheFacts
    <3> QED BY <2>2, <3>1
  <2> QED BY <2>1, <2>2
<1> QED BY <1>3, <1>4 DEF CacheInv

\* Steps that leave the cache as it is.
LEMMA LookedOnly ==
  ASSUME SharedInv, NEW t, NEW to, Moves(t, to), UNCHANGED <<party, text, ofCache>>,
         \A u \in Threads \ {t} : answer'[u] = answer[u],
         answer' \in [Threads -> Results], UNCHANGED ofBus,
         to \in Knowing => answer'[t] = Parse(text[t]),
         to \in {"fetch", "drop", "touch", "settle"} => text[t] \in Cached \/ t \in robbed,
         to = "raised" => t \in robbed,
         \/ Len(parsed) < MaxSize
         \/ to # "insert",
         \/ Len(parsed) >= MaxSize
         \/ to # "evict" /\ (to \in Taking => pc[t] \in Taking)
  PROVE  Typed' /\ CacheInv'
<1>1. /\ party' = party /\ text' = text /\ parsed' = parsed /\ staled' = staled /\ robbed' = robbed
      /\ bucket' = bucket /\ said' = said /\ cut' = cut
  BY DEF ofCache, ofBus
<1>2. t \in Threads /\ to \in Steps /\ pc' = [pc EXCEPT ![t] = to] /\ pc' \in [Threads -> Steps]
  BY CacheFacts DEF Moves
<1>3. Typed' BY <1>1, <1>2 DEF SharedInv, Typed
<1>4. Cached' = Cached BY <1>1 DEF Cached
<1>5. Missing(t)' BY <1>1, <1>2, <1>4, CacheFacts DEF Missing
<1>6. SoundCache(parsed)' BY <1>1, CacheFacts
<1>7. /\ Len(parsed') + Count(pc', {"insert"}) < MaxSize + Cardinality(Threads)
      /\ (\E u \in Threads : pc'[u] = "evict") => Count(pc', Taking) <= Len(parsed')
  <2>1. Len(parsed') = Len(parsed) /\ Len(parsed) \in Nat /\ Len(parsed') - Len(parsed) = 0
    BY <1>1, CacheFacts
  <2>2. \/ Len(parsed') < MaxSize
        \/ Len(parsed') - Len(parsed)
               <= (IF pc[t] = "insert" THEN 1 ELSE 0) - (IF to = "insert" THEN 1 ELSE 0)
    BY <2>1
  <2>3. \/ Len(parsed') >= MaxSize
        \/ /\ to # "evict"
           /\ Len(parsed') - Len(parsed)
                  >= (IF to \in Taking THEN 1 ELSE 0) - (IF pc[t] \in Taking THEN 1 ELSE 0)
    BY <2>1
  <2> QED BY <2>1, <2>2, <2>3, SizeKept
<1>8. CacheInv' BY <1>1, <1>4, <1>5, <1>6, <1>7, CacheKept
<1> QED BY <1>3, <1>8

LEMMA ReceiveCache ==
  ASSUME SharedInv, NEW t \in Threads, NEW s \in party.texts, Receive(t, s)
  PROVE  Typed' /\ CacheInv'
<1>1. /\ pc[t] = "idle" /\ Moves(t, "look") /\ text' = [text EXCEPT ![t] = s]
      /\ party' = party /\ answer' = answer /\ parsed' = parsed /\ staled' = staled /\ robbed' = robbed
      /\ bucket' = bucket /\ said' = said /\ cut' = cut
  BY DEF Receive, Stands, To, Moves, Steps, ofCache, ofBus
<1>2. s \in Texts BY DEF SharedInv, Typed, Texts
<1>3. pc' \in [Threads -> Steps] /\ pc'[t] = "look" BY <1>1, CacheFacts DEF Moves
<1>4. text' \in [Threads -> Texts] BY <1>1, <1>2, CacheFacts
<1>5. Typed' BY <1>1, <1>3, <1>4 DEF SharedInv, Typed
<1>6. Cached' = Cached BY <1>1 DEF Cached
<1>7. Missing(t)' /\ "look" \notin Knowing BY <1>3 DEF Missing, Knowing, Publishing
<1>8. /\ Len(parsed') + Count(pc', {"insert"}) < MaxSize + Cardinality(Threads)
      /\ (\E u \in Threads : pc'[u] = "evict") => Count(pc', Taking) <= Len(parsed')
  <2>1. /\ Len(parsed') - Len(parsed) = 0 /\ Len(parsed') \in Nat
        /\ pc[t] \in Taking /\ "look" \in Taking
    BY <1>1, CacheFacts DEF Taking
  <2> QED BY <1>1, <2>1, SizeKept
<1>9. CacheInv' BY <1>1, <1>6, <1>7, <1>8, CacheFacts, CacheKept
<1> QED BY <1>5, <1>9

LEMMA LookCache ==
  ASSUME SharedInv, NEW t \in Threads, LookUp(t)
  PROVE  Typed' /\ CacheInv'
<1>1. pc[t] = "look" /\ UNCHANGED <<party, text, ofCache>> /\ UNCHANGED ofBus /\ answer' = answer
  BY DEF LookUp, Stands
<1>2. PICK to \in {"fetch", "parse"} :
          Moves(t, to) /\ (to = "fetch" => text[t] \in Cached)
  BY DEF LookUp, To, Moves, Steps
<1>3. to \notin Knowing /\ to # "raised" /\ to # "insert" /\ to # "evict" /\ pc[t] \in Taking
  BY <1>1, <1>2 DEF Knowing, Publishing, Taking
<1> QED BY <1>1, <1>2, <1>3, CacheFacts, LookedOnly

LEMMA RaiseCache ==
  ASSUME SharedInv, NEW t \in Threads, Raise(t), pc[t] \in {"fetch", "drop", "touch", "settle"}
  PROVE  Typed' /\ CacheInv'
<1>1. /\ UNCHANGED <<party, text, ofCache>> /\ UNCHANGED ofBus /\ answer' = answer
      /\ Moves(t, "raised") /\ text[t] \notin Cached
  BY DEF Raise, To, Moves, Steps, Ended
<1>2. t \in robbed BY <1>1, CacheFacts DEF Missing
<1>3. "raised" \notin Knowing /\ "raised" \notin Taking BY DEF Knowing, Publishing, Taking
<1> QED BY <1>1, <1>2, <1>3, CacheFacts, LookedOnly

LEMMA FetchCache ==
  ASSUME SharedInv, NEW t \in Threads, Fetch(t)
  PROVE  Typed' /\ CacheInv'
<1>1. pc[t] = "fetch" BY DEF Fetch, Stands
<1>2. CASE Raise(t) BY <1>1, <1>2, RaiseCache
<1>3. CASE /\ text[t] \in Cached
           /\ answer' = [answer EXCEPT ![t] = EntryOf(text[t]).commands]
           /\ To(t, IF EntryOf(text[t]).stale THEN "drop" ELSE "touch")
           /\ UNCHANGED <<party, text, ofCache, ofBus>>
  <2>1. EntryOf(text[t]).commands = Parse(text[t]) /\ EntryOf(text[t]) \in CachedEntry
    BY <1>3, PlaceIs
  <2>2. Parse(text[t]) \in Results BY <2>1 DEF CachedEntry
  <2>3. /\ answer' \in [Threads -> Results] /\ answer'[t] = Parse(text[t])
        /\ \A u \in Threads \ {t} : answer'[u] = answer[u]
    BY <1>3, <2>1, <2>2, CacheFacts
  <2>4. PICK to \in {"drop", "touch"} : Moves(t, to) BY <1>3 DEF To, Moves, Steps
  <2>5. /\ to # "raised" /\ to # "insert" /\ to # "evict" /\ pc[t] \in Taking
    BY <1>1, <2>4 DEF Taking
  <2>6. UNCHANGED <<party, text, ofCache>> /\ UNCHANGED ofBus BY <1>3
  <2> QED BY <1>3, <2>3, <2>4, <2>5, <2>6, LookedOnly
<1> QED BY <1>2, <1>3 DEF Fetch

LEMMA ParseCache ==
  ASSUME SharedInv, NEW t \in Threads, ParseText(t)
  PROVE  Typed' /\ CacheInv'
<1>1. /\ pc[t] = "parse" /\ Moves(t, "room") /\ answer' = [answer EXCEPT ![t] = Parse(text[t])]
      /\ UNCHANGED <<party, text, ofCache>> /\ UNCHANGED ofBus
  BY DEF ParseText, Stands, To, Moves, Steps
<1>2. Parse(text[t]) \in Results BY CacheFacts DEF Results
<1>3. /\ answer' \in [Threads -> Results] /\ answer'[t] = Parse(text[t])
      /\ \A u \in Threads \ {t} : answer'[u] = answer[u]
  BY <1>1, <1>2, CacheFacts
<1>4. "room" \notin Taking BY DEF Taking
<1> QED BY <1>1, <1>3, <1>4, LookedOnly

LEMMA RoomCache ==
  ASSUME SharedInv, NEW t \in Threads, MakeRoom(t)
  PROVE  Typed' /\ CacheInv'
<1>1. /\ pc[t] = "room" /\ answer' = answer /\ UNCHANGED <<party, text, ofCache>> /\ UNCHANGED ofBus
  BY DEF MakeRoom, Stands
<1>2. PICK to \in {"evict", "insert"} :
          /\ Moves(t, to)
          /\ to = "evict" => Len(parsed) >= MaxSize
          /\ to = "insert" => Len(parsed) < MaxSize
  <2>1. Len(parsed) >= MaxSize \/ Len(parsed) < MaxSize BY CacheFacts
  <2> QED BY <2>1 DEF MakeRoom, To, Moves, Steps
<1>3. answer[t] = Parse(text[t]) BY <1>1, CacheFacts DEF Knowing
<1>4. "insert" \notin Taking BY DEF Taking
<1> QED BY <1>1, <1>2, <1>3, <1>4, CacheFacts, LookedOnly

\* An entry is taken out, and those who looked for it note it.
LEMMA TakeCache ==
  ASSUME SharedInv, NEW t \in Threads, NEW s \in Cached, Take(s, t),
         NEW to \in {"parse", "insert"}, Moves(t, to),
         \/ pc[t] = "drop" /\ to = "parse"
         \/ pc[t] = "evict" /\ to = "insert",
         UNCHANGED <<party, text, answer, staled, ofBus>>
  PROVE  Typed' /\ CacheInv'
<1>1. /\ parsed' = RemoveAt(parsed, PlaceOf(s))
      /\ robbed' = robbed \union {u \in Threads \ {t} : text[u] = s}
  BY DEF Take, Others
<1>2. /\ parsed' \in Seq(CachedEntry) /\ SoundCache(parsed') /\ Len(parsed') = Len(parsed) - 1
      /\ TextsOf(parsed') = TextsOf(parsed) \ {s}
  <2>1. /\ parsed \in Seq(CachedEntry) /\ SoundCache(parsed) /\ PlaceOf(s) \in 1 .. Len(parsed)
        /\ parsed[PlaceOf(s)].text = s
    BY PlaceIs, CacheFacts
  <2> QED BY ONLY <1>1, <2>1, TakenOut
<1>3. Cached = TextsOf(parsed) /\ Cached' = TextsOf(parsed') BY DEF Cached, TextsOf
<1>4. pc' \in [Threads -> Steps] /\ pc'[t] = to BY CacheFacts DEF Moves
<1>5. robbed' \subseteq Threads BY <1>1, CacheFacts
<1>6. Typed' BY <1>2, <1>4, <1>5 DEF SharedInv, Typed, ofBus
<1>7. Missing(t)' BY <1>4 DEF Missing
<1>8. \A u \in Threads \ {t} : text[u] \in Cached => text[u] \in Cached' \/ u \in robbed'
  BY <1>1, <1>2, <1>3
<1>9. to \in Knowing => answer'[t] = Parse(text'[t])
  BY CacheFacts DEF Knowing, Publishing
<1>10. /\ Len(parsed') + Count(pc', {"insert"}) < MaxSize + Cardinality(Threads)
       /\ (\E u \in Threads : pc'[u] = "evict") => Count(pc', Taking) <= Len(parsed')
  <2>1. /\ Len(parsed') \in Nat /\ Len(parsed') - Len(parsed) = -1
    <3>1. Len(parsed') \in Nat BY <1>2
    <3> QED BY <1>2, <3>1, CacheFacts
  <2>2. pc[t] \in Taking /\ pc[t] # "insert" /\ to \notin Taking /\ to # "evict" BY DEF Taking
  <2>3. Len(parsed') - Len(parsed)
            <= (IF pc[t] = "insert" THEN 1 ELSE 0) - (IF to = "insert" THEN 1 ELSE 0)
    BY <2>1, <2>2
  <2>4. Len(parsed') - Len(parsed)
            >= (IF to \in Taking THEN 1 ELSE 0) - (IF pc[t] \in Taking THEN 1 ELSE 0)
    BY <2>1, <2>2
  <2> QED BY <2>1, <2>2, <2>3, <2>4, SizeKept
<1>11. CacheInv'
  BY <1>1, <1>2, <1>7, <1>8, <1>9, <1>10, CacheKept
<1> QED BY <1>6, <1>11

LEMMA DropCache ==
  ASSUME SharedInv, NEW t \in Threads, DropStale(t)
  PROVE  Typed' /\ CacheInv'
<1>1. pc[t] = "drop" BY DEF DropStale, Stands
<1>2. CASE Raise(t) BY <1>1, <1>2, RaiseCache
<1>3. CASE /\ text[t] \in Cached /\ Take(text[t], t) /\ To(t, "parse")
           /\ UNCHANGED <<party, text, answer, staled, ofBus>>
  <2>1. Moves(t, "parse") BY <1>3 DEF To, Moves, Steps
  <2> QED BY <1>1, <1>3, <2>1, TakeCache
<1> QED BY <1>2, <1>3 DEF DropStale

\* There is an entry left for each thread that may take one out.
LEMMA EvictCache ==
  ASSUME SharedInv, NEW t \in Threads, Evict(t)
  PROVE  Typed' /\ CacheInv'
<1>1. /\ pc[t] = "evict" /\ Moves(t, "insert") /\ Take(Head(parsed).text, t)
      /\ UNCHANGED <<party, text, answer, staled, ofBus>>
  BY DEF Evict, Stands, To, Moves, Steps
<1>2. Len(parsed) >= 1
  <2>1. Count(pc, Taking) >= 1 /\ Count(pc, Taking) \in Nat BY <1>1, CacheFacts, CountIsNat DEF Taking
  <2>2. Count(pc, Taking) <= Len(parsed) BY <1>1 DEF SharedInv, CacheInv
  <2> QED BY <2>1, <2>2, CacheFacts
<1>3. Head(parsed) = parsed[1] /\ 1 \in DOMAIN parsed BY <1>2, CacheFacts
<1>4. Head(parsed).text \in Cached BY <1>3 DEF Cached
<1> QED BY <1>1, <1>4, TakeCache

LEMMA MoveCache ==
  ASSUME SharedInv, NEW t \in Threads, MoveToEnd(t)
  PROVE  Typed' /\ CacheInv'
<1>1. pc[t] \in {"touch", "settle"} BY DEF MoveToEnd
<1>2. CASE Raise(t) BY <1>1, <1>2, RaiseCache
<1>3. CASE /\ text[t] \in Cached
           /\ parsed' = Append(Others(text[t]), EntryOf(text[t]))
           /\ To(t, "answered")
           /\ UNCHANGED <<party, text, answer, staled, robbed, ofBus>>
  <2> DEFINE e == EntryOf(text[t])
             rest == Others(text[t])
  <2>1. Moves(t, "answered") BY <1>3 DEF To, Moves, Steps
  <2>2. e \in CachedEntry /\ e.text = text[t] /\ e.commands = Parse(e.text)
        /\ PlaceOf(text[t]) \in 1 .. Len(parsed) /\ parsed[PlaceOf(text[t])].text = text[t]
    BY <1>3, PlaceIs
  <2>3. /\ rest \in Seq(CachedEntry) /\ SoundCache(rest) /\ Len(rest) = Len(parsed) - 1
        /\ TextsOf(rest) = TextsOf(parsed) \ {text[t]}
    <3>1. rest = RemoveAt(parsed, PlaceOf(text[t])) BY DEF Others
    <3>2. parsed \in Seq(CachedEntry) /\ SoundCache(parsed) BY CacheFacts
    <3>3. PlaceOf(text[t]) \in 1 .. Len(parsed) BY <2>2
    <3> HIDE DEF rest
    <3>4. /\ rest \in Seq(CachedEntry) /\ SoundCache(rest) /\ Len(rest) = Len(parsed) - 1
          /\ TextsOf(rest) = TextsOf(parsed) \ {parsed[PlaceOf(text[t])].text}
      BY ONLY <3>1, <3>2, <3>3, TakenOut
    <3> QED BY <2>2, <3>4
  <2>4. parsed' = Append(rest, e) BY <1>3
  <2> HIDE DEF e, rest
  <2>5. /\ parsed' \in Seq(CachedEntry) /\ SoundCache(parsed') /\ Len(parsed') = Len(rest) + 1
        /\ TextsOf(parsed') = TextsOf(rest) \union {text[t]}
    <3>1. e.text \notin TextsOf(rest) BY <2>2, <2>3
    <3>2. /\ parsed' \in Seq(CachedEntry) /\ SoundCache(parsed') /\ Len(parsed') = Len(rest) + 1
          /\ TextsOf(parsed') = TextsOf(rest) \union {e.text}
      BY ONLY <2>2, <2>3, <2>4, <3>1, PutLast
    <3> QED BY <2>2, <3>2
  <2>6. Cached = TextsOf(parsed) /\ Cached' = TextsOf(parsed') BY DEF Cached, TextsOf
  <2>7. Cached' = Cached /\ text'[t] \in Cached' BY <1>3, <2>3, <2>5, <2>6
  <2>8. pc' \in [Threads -> Steps] /\ pc'[t] = "answered" BY <2>1, CacheFacts DEF Moves
  <2>9. Typed' BY <1>3, <2>5, <2>8 DEF SharedInv, Typed, ofBus
  <2>10. Missing(t)' BY <2>8 DEF Missing
  <2>11. answer'[t] = Parse(text'[t])
    <3>1. answer[t] = Parse(text[t]) BY <1>1, CacheFacts DEF Knowing
    <3> QED BY <1>3, <3>1
  <2>12. /\ Len(parsed') + Count(pc', {"insert"}) < MaxSize + Cardinality(Threads)
         /\ (\E u \in Threads : pc'[u] = "evict") => Count(pc', Taking) <= Len(parsed')
    <3>1. Len(parsed') = Len(parsed) /\ Len(parsed') \in Nat /\ Len(parsed') - Len(parsed) = 0
      BY <2>3, <2>5, CacheFacts
    <3>2. pc[t] # "insert" /\ pc[t] \notin Taking /\ "answered" \notin Taking BY <1>1 DEF Taking
    <3> QED BY <2>1, <3>1, <3>2, SizeKept
  <2>13. CacheInv' BY <1>3, <2>1, <2>5, <2>7, <2>10, <2>11, <2>12, CacheKept
  <2> QED BY <2>9, <2>13
<1> QED BY <1>2, <1>3 DEF MoveToEnd

LEMMA InsertCache ==
  ASSUME SharedInv, NEW t \in Threads, Insert(t)
  PROVE  Typed' /\ CacheInv'
<1> DEFINE new == [text |-> text[t], commands |-> answer[t], stale |-> FALSE]
<1>1. /\ pc[t] = "insert" /\ Moves(t, "settle")
      /\ parsed' = IF text[t] \notin Cached THEN Append(parsed, new)
                  ELSE [i \in DOMAIN parsed |-> IF parsed[i].text = text[t] THEN new ELSE parsed[i]]
      /\ UNCHANGED <<party, text, answer, staled, robbed, ofBus>>
  BY DEF Insert, Stands, To, Moves, Steps
<1>2. answer[t] = Parse(text[t]) BY <1>1, CacheFacts DEF Knowing
<1>3. new \in CachedEntry /\ new.text = text[t] /\ new.commands = Parse(new.text)
  BY <1>2, CacheFacts DEF CachedEntry
<1> HIDE DEF new
<1>4. Cached = TextsOf(parsed) /\ Cached' = TextsOf(parsed') BY DEF Cached, TextsOf
<1>5. /\ parsed' \in Seq(CachedEntry) /\ SoundCache(parsed')
      /\ Len(parsed') \in {Len(parsed), Len(parsed) + 1}
      /\ Cached' = Cached \union {text[t]}
  <2>1. CASE text[t] \notin Cached
    <3>1. parsed' = Append(parsed, new) /\ new.text \notin TextsOf(parsed) BY <1>1, <1>3, <1>4, <2>1
    <3> QED BY <1>3, <1>4, <3>1, CacheFacts, PutLast
  <2>2. CASE text[t] \in Cached
    <3>1. parsed' = [i \in DOMAIN parsed |-> IF parsed[i].text = new.text THEN new ELSE parsed[i]]
      BY <1>1, <1>3, <2>2
    <3>2. /\ parsed' \in Seq(CachedEntry) /\ SoundCache(parsed') /\ Len(parsed') = Len(parsed)
          /\ TextsOf(parsed') = TextsOf(parsed)
      <4>1. parsed \in Seq(CachedEntry) /\ SoundCache(parsed) BY CacheFacts
      <4> QED BY ONLY <1>3, <3>1, <4>1, PutAgain
    <3> QED BY <1>4, <2>2, <3>2
  <2> QED BY <2>1, <2>2
<1>6. pc' \in [Threads -> Steps] /\ pc'[t] = "settle" BY <1>1, CacheFacts DEF Moves
<1>7. Typed' BY <1>1, <1>5, <1>6 DEF SharedInv, Typed, ofBus
<1>8. Missing(t)' BY <1>1, <1>5, <1>6 DEF Missing
<1>9. /\ Len(parsed') + Count(pc', {"insert"}) < MaxSize + Cardinality(Threads)
      /\ (\E u \in Threads : pc'[u] = "evict") => Count(pc', Taking) <= Len(parsed')
  <2>1. /\ Len(parsed') \in Nat /\ Len(parsed') - Len(parsed) <= 1 /\ Len(parsed') - Len(parsed) >= 0
    BY <1>5, CacheFacts
  <2>2. pc[t] \notin Taking /\ "settle" \notin Taking BY <1>1 DEF Taking
  <2>3. Len(parsed') - Len(parsed)
            <= (IF pc[t] = "insert" THEN 1 ELSE 0) - (IF "settle" = "insert" THEN 1 ELSE 0)
    BY <1>1, <2>1
  <2>4. Len(parsed') - Len(parsed)
            >= (IF "settle" \in Taking THEN 1 ELSE 0) - (IF pc[t] \in Taking THEN 1 ELSE 0)
    BY <2>1, <2>2
  <2> QED BY <1>1, <2>1, <2>3, <2>4, SizeKept
<1>10. CacheInv' BY <1>1, <1>2, <1>5, <1>8, <1>9, CacheKept
<1> QED BY <1>7, <1>10

LEMMA StaleCache ==
  ASSUME SharedInv, NEW i, BecomeStale(i)
  PROVE  SharedInv'
<1>1. /\ staled < MaxStale /\ i \in DOMAIN parsed /\ parsed' = [parsed EXCEPT ![i].stale = TRUE]
      /\ staled' = staled + 1
      /\ UNCHANGED <<party, pc, text, answer, robbed, ofBus>>
  BY DEF BecomeStale
<1>2. /\ parsed' \in Seq(CachedEntry) /\ SoundCache(parsed') /\ Len(parsed') = Len(parsed)
      /\ TextsOf(parsed') = TextsOf(parsed)
  BY <1>1, CacheFacts, GrownStale
<1>3. Cached' = Cached BY <1>2 DEF Cached, TextsOf
<1>4. staled' \in 0 .. MaxStale BY <1>1, CacheFacts, SharedBounds
<1>5. Typed' BY <1>1, <1>2, <1>4 DEF SharedInv, Typed, ofBus
<1>6. Count(pc, {"insert"})' = Count(pc, {"insert"}) /\ Count(pc, Taking)' = Count(pc, Taking)
  BY <1>1 DEF Count
<1>7. \A t \in Threads : Missing(t)' BY <1>1, <1>3, CacheFacts DEF Missing
<1>8. CacheInv' BY <1>1, <1>2, <1>6, <1>7 DEF SharedInv, CacheInv
<1>9. TopicInv' /\ NewestInv' BY <1>1, TopicUntouched
<1> QED BY <1>5, <1>8, <1>9 DEF SharedInv
-----------------------------------------------------------------------------
LEMMA CacheSteps ==
  ASSUME SharedInv, NEW t \in Threads,
         \/ \E s \in party.texts : Receive(t, s)
         \/ LookUp(t) \/ Fetch(t) \/ DropStale(t) \/ MoveToEnd(t) \/ ParseText(t)
         \/ MakeRoom(t) \/ Evict(t) \/ Insert(t)
  PROVE  SharedInv'
<1>1. Typed' /\ CacheInv'
  BY ReceiveCache, LookCache, FetchCache, DropCache, MoveCache, ParseCache, RoomCache, EvictCache,
     InsertCache
<1>2. UNCHANGED ofBus
  BY DEF Receive, LookUp, Fetch, DropStale, MoveToEnd, ParseText, MakeRoom, Evict, Insert, Raise
<1>3. pc[t] \notin Publishing
  BY DEF Receive, LookUp, Fetch, DropStale, MoveToEnd, ParseText, MakeRoom, Evict, Insert, Stands, Publishing
<1>4. \E to \in {"look", "fetch", "parse", "raised", "drop", "touch", "answered", "room", "evict",
                 "insert", "settle"} : To(t, to)
  BY DEF Receive, LookUp, Fetch, DropStale, MoveToEnd, ParseText, MakeRoom, Evict, Insert, Raise
<1>5. \E to : Moves(t, to) /\ to \notin Publishing
  BY <1>4 DEF To, Moves, Steps, Ended, Publishing
<1>6. TopicInv' /\ NewestInv' BY <1>2, <1>3, <1>5, TopicUntouched
<1> QED BY <1>1, <1>6 DEF SharedInv

LEMMA TopicSteps ==
  ASSUME SharedInv, NEW t \in Threads,
         Finish(t) \/ Publish(t) \/ Check(t) \/ Measure(t) \/ Delete(t)
  PROVE  SharedInv'
<1>1. UNCHANGED <<party, text, answer, ofCache>>
  BY DEF Finish, Publish, Check, Measure, Delete
<1>2. PICK to \in {"done"} \union Publishing : Moves(t, to)
  BY DEF Finish, Publish, Check, Measure, Delete, To, Moves, Steps, Ended, Publishing
<1>3. pc[t] \in {"answered"} \union Publishing
  BY DEF Finish, Publish, Check, Measure, Delete, Stands, Publishing
<1>4. CacheInv' BY <1>1, <1>2, <1>3, CacheUntouched
<1>5. bucket' \in Seq(Nat) /\ said' \in Nat /\ cut' \in [Threads -> Int]
  <2>1. CASE Finish(t) \/ Check(t)
    BY <2>1, TopicFacts DEF Finish, Check, ofBus
  <2>2. CASE Publish(t)
    BY <2>2, TopicFacts, AppendProperties DEF Publish
  <2>3. CASE Measure(t)
    BY <2>3, TopicFacts DEF Measure, Overflow
  <2>4. CASE Delete(t)
    <3>1. bucket' \in Seq(Nat) BY <2>4, DeleteTopic
    <3>2. said' = said /\ cut' = [cut EXCEPT ![t] = 0] BY <2>4 DEF Delete
    <3> QED BY <3>1, <3>2, TopicFacts
  <2> QED BY <2>1, <2>2, <2>3, <2>4
<1>6. pc' \in [Threads -> Steps] BY <1>2, TopicFacts DEF Moves
<1>7. Typed' BY <1>1, <1>5, <1>6 DEF SharedInv, Typed, ofCache
<1>8. TopicInv' /\ NewestInv'
  <2>1. CASE Finish(t)
    <3>1. UNCHANGED ofBus /\ Moves(t, "done") /\ pc[t] \notin Publishing /\ "done" \notin Publishing
      BY <2>1 DEF Finish, Stands, To, Moves, Steps, Ended, Publishing
    <3> QED BY <3>1, TopicUntouched
  <2> QED BY <2>1, PublishTopic, CheckTopic, MeasureTopic, DeleteTopic
<1> QED BY <1>4, <1>7, <1>8 DEF SharedInv

LEMMA SharedStep == SharedInv /\ [SharedNext]_sharedVars => SharedInv'
<1> SUFFICES ASSUME SharedInv, [SharedNext]_sharedVars PROVE SharedInv' OBVIOUS
<1>1. CASE SharedNext
  <2>1. CASE \E i \in 1 .. MaxSize : BecomeStale(i) BY <2>1, StaleCache
  <2>2. CASE \E t \in Threads :
               \/ \E s \in party.texts : Receive(t, s)
               \/ LookUp(t) \/ Fetch(t) \/ DropStale(t) \/ MoveToEnd(t) \/ ParseText(t)
               \/ MakeRoom(t) \/ Evict(t) \/ Insert(t)
    BY <2>2, CacheSteps
  <2>3. CASE \E t \in Threads : Finish(t) \/ Publish(t) \/ Check(t) \/ Measure(t) \/ Delete(t)
    BY <2>3, TopicSteps
  <2> QED BY <1>1, <2>1, <2>2, <2>3 DEF SharedNext
<1>2. CASE UNCHANGED sharedVars
  <2>1. UNCHANGED ofBus /\ UNCHANGED pc BY <1>2 DEF sharedVars, ofBus
  <2>2. TopicInv' /\ NewestInv' BY <2>1, TopicUntouched
  <2>3. Typed' BY <1>2 DEF sharedVars, SharedInv, Typed
  <2>4. Count(pc, {"insert"})' = Count(pc, {"insert"}) /\ Count(pc, Taking)' = Count(pc, Taking)
    BY <2>1 DEF Count
  <2>5. Cached' = Cached BY <1>2 DEF sharedVars, Cached
  <2>6. \A t \in Threads : Missing(t)' BY <1>2, <2>5, CacheFacts DEF sharedVars, Missing
  <2>7. CacheInv' BY <1>2, <2>4, <2>6 DEF sharedVars, SharedInv, CacheInv
  <2> QED BY <2>2, <2>3, <2>7 DEF SharedInv
<1> QED BY <1>1, <1>2

\* The invariant of the cache and the topic, under what ParserThreads assumes of
\* its constants: fewer threads than places in the cache, and a cache that begins
\* within its size with each sentence once.
THEOREM SharedInvariant == SharedSpec => []SharedInv
<1>1. SharedInit => SharedInv BY InitShared
<1> QED BY <1>1, SharedStep, PTL DEF SharedSpec

LEMMA SharedInvIsSound == SharedInv => SharedSound
<1> SUFFICES ASSUME SharedInv PROVE SharedSound OBVIOUS
<1>1. SharedTypeOK BY DEF SharedInv, Typed, SharedTypeOK, Steps, Publishing
<1>2. \A t \in Threads : pc[t] \in {"room", "touch", "answered", "done"} => answer[t] = Parse(text[t])
  BY CacheFacts DEF Knowing
<1>3. \A e \in ToSet(parsed) : e.commands = Parse(e.text)
  BY CacheFacts DEF ToSet, SoundCache
<1>4. Cardinality(Cached) = Len(parsed)
  <2> DEFINE f == [i \in 1 .. Len(parsed) |-> parsed[i].text]
  <2>1. Cached = {parsed[i].text : i \in 1 .. Len(parsed)} BY CacheFacts DEF TextsOf
  <2>2. f \in Injection(1 .. Len(parsed), Cached)
    <3>1. \A i, j \in 1 .. Len(parsed) : parsed[i].text = parsed[j].text => i = j
      BY CacheFacts DEF SoundCache
    <3> QED BY <2>1, <3>1 DEF Injection, IsInjective
  <2>3. f \in Surjection(1 .. Len(parsed), Cached) BY <2>1 DEF Surjection
  <2>4. IsFiniteSet(1 .. Len(parsed)) /\ Cardinality(1 .. Len(parsed)) = Len(parsed)
    <3>1. Len(parsed) \in Nat BY CacheFacts
    <3>2. 1 \in Int /\ Len(parsed) \in Int BY <3>1
    <3>3. /\ IsFiniteSet(1 .. Len(parsed))
          /\ Cardinality(1 .. Len(parsed)) = IF 1 > Len(parsed) THEN 0 ELSE Len(parsed) - 1 + 1
      BY ONLY <3>2, FS_Interval
    <3> QED BY <3>1, <3>3
  <2>5. Cardinality(Cached) = Cardinality(1 .. Len(parsed))
    BY ONLY <2>2, <2>3, <2>4, FS_Surjection
  <2> QED BY <2>4, <2>5
<1>5. AnswersOwn BY <1>2, <1>3, <1>4, SharedBounds DEF AnswersOwn
<1>6. CacheHolds
  <2>1. Count(pc, {"insert"}) \in Nat BY CacheFacts, CountIsNat
  <2>2. Len(parsed) < MaxSize + Cardinality(Threads)
    BY <2>1, CacheFacts DEF SharedInv, CacheInv
  <2>3. \A t \in Threads : pc[t] = "raised" => t \in robbed BY CacheFacts DEF Missing
  <2> QED BY <2>2, <2>3, SharedBounds DEF CacheHolds, Stands
<1>7. TopicHolds
  <2>1. \A i \in DOMAIN bucket : bucket[i] = said - Len(bucket) + i BY DEF SharedInv, TopicInv
  <2>2. MaxEvents >= 7 /\ said <= MaxEvents + 3 => bucket # <<>>
    <3>1. MaxEvents >= 7 /\ said <= MaxEvents + 3 => Len(bucket) >= 1
      BY DEF SharedInv, NewestInv, SparesNewest
    <3>2. bucket = <<>> => Len(bucket) = 0 OBVIOUS
    <3> QED BY <3>1, <3>2
  <2>3. ASSUME \A t \in Threads : pc[t] \notin {"check", "measure", "delete"}
        PROVE  Len(bucket) <= MaxEvents
    <3>1. Over = {} BY <2>3 DEF Over
    <3>2. Cardinality(Over) = 0 BY <3>1, FS_EmptySet
    <3> QED BY <3>2, TopicFacts
  <2> QED BY <2>1, <2>2, <2>3 DEF TopicHolds
<1> QED BY <1>1, <1>5, <1>6, <1>7 DEF SharedSound

\* SharedSound: with any number of threads at the cache and the topic, none of
\* which locks, a thread answers its own sentence with its own parse, the cache
\* holds each sentence once and outgrows its size by the other threads at most, a
\* request raises only where another one took its sentence out, the topic keeps
\* its order and its size once nobody publishes - and three publications at a
\* full topic of seven events or more leave some.
THEOREM SharingIsSound == SharedSpec => []SharedSound
BY SharedInvariant, SharedInvIsSound, PTL

-----------------------------------------------------------------------------
(***************************************************************************)
(* The rules that read a sentence.  FoldLeft is a CHOOSE of a function     *)
(* over sets: that there is one, and that along the prefixes of a sequence *)
(* it takes one step after the other, follows by least counterexamples.    *)
(***************************************************************************)
\* What holds at the beginning and goes on holding, holds up to the end.
LEMMA Reaches ==
  ASSUME NEW n \in Nat, NEW T, 0 \in T, \A m \in 0 .. n - 1 : m \in T => m + 1 \in T
  PROVE  \A m \in 0 .. n : m \in T
<1> DEFINE bad == {m \in 0 .. n : m \notin T}
<1> SUFFICES ASSUME bad # {} PROVE FALSE OBVIOUS
<1>1. bad \in SUBSET Nat OBVIOUS
<1> HIDE DEF bad
<1>2. PICK m \in bad : \A j \in bad : ~(<<j, m>> \in OpToRel(<, Nat))
  BY <1>1, NatLessThanWellFounded, WFMin
<1>3. \A j \in bad : ~(j < m)
  BY <1>1, <1>2 DEF OpToRel
<1>4. m \in 0 .. n /\ m \notin T BY DEF bad
<1>5. m # 0 /\ m - 1 \in 0 .. n - 1 /\ m - 1 \in T
  BY <1>3, <1>4 DEF bad
<1>6. m - 1 + 1 \in T BY <1>5
<1> QED BY <1>4, <1>6

LEMMA MaxIs ==
  ASSUME NEW n \in Nat, NEW S \in SUBSET (0 .. n), S # {}
  PROVE  Max(S) \in S /\ \A i \in S : i <= Max(S)
<1> DEFINE T == {m \in 0 .. n : \A i \in S : n - m <= i => \E x \in S : \A y \in S : x >= y}
<1>1. 0 \in T
  <2> SUFFICES ASSUME NEW i \in S, n <= i PROVE \E x \in S : \A y \in S : x >= y OBVIOUS
  <2>1. i = n OBVIOUS
  <2> QED BY <2>1
<1>2. \A m \in 0 .. n - 1 : m \in T => m + 1 \in T
  <2> SUFFICES ASSUME NEW m \in 0 .. n - 1, m \in T, NEW i \in S, n - (m + 1) <= i
               PROVE \E x \in S : \A y \in S : x >= y
    OBVIOUS
  <2>1. CASE \E j \in S : n - m <= j BY <2>1
  <2>2. CASE \A j \in S : ~(n - m <= j) BY <2>2
  <2> QED BY <2>1, <2>2
<1>3. n \in T
  <2> HIDE DEF T
  <2> QED BY <1>1, <1>2, Reaches
<1>4. \E x \in S : \A y \in S : x >= y
  <2>1. PICK i \in S : TRUE OBVIOUS
  <2>2. n - n <= i OBVIOUS
  <2> QED BY <1>3, <2>1, <2>2
<1> QED BY <1>4 DEF Max

LEMMA MaxOfPrefix ==
  ASSUME NEW m \in Nat, m >= 1
  PROVE  1 .. m # {} /\ Max(1 .. m) = m /\ (1 .. m) \ {m} = 1 .. (m - 1)
<1> DEFINE S == 1 .. m
<1>1. S \in SUBSET (0 .. m) /\ m \in S OBVIOUS
<1>2. Max(S) \in S /\ \A i \in S : i <= Max(S)
  <2> HIDE DEF S
  <2> QED BY <1>1, MaxIs
<1>3. Max(S) = m BY <1>1, <1>2
<1>4. S \ {m} = 1 .. (m - 1) OBVIOUS
<1> QED BY <1>1, <1>3, <1>4

\* A fold of the community modules is any function that satisfies its equation:
\* there is one, if each nonempty set has its next element.
NextOf(ch, S) == \A s \in SUBSET S : s # {} => ch[s] \in s

IsFold(h, S, A, base, G, ch) ==
  /\ h \in [SUBSET S -> A]
  /\ \A s \in SUBSET S : h[s] = IF s = {} THEN base ELSE G[<<ch[s], h[s \ {ch[s]}]>>]

LEMMA FoldExists ==
  ASSUME NEW S, IsFiniteSet(S), NEW A, NEW base \in A, NEW G \in [S \X A -> A], NEW ch, NextOf(ch, S)
  PROVE  \E h : IsFold(h, S, A, base, G, ch)
<1> USE DEF NextOf
<1> DEFINE n == Cardinality(S)
           Right(h, s) == h[s] = IF s = {} THEN base ELSE G[<<ch[s], h[s \ {ch[s]}]>>]
           T == {m \in 0 .. n : \E h \in [SUBSET S -> A] :
                                   \A s \in SUBSET S : Cardinality(s) <= m => Right(h, s)}
<1>1. n \in Nat BY FS_CardinalityType
<1>2. \A s \in SUBSET S : IsFiniteSet(s) /\ Cardinality(s) \in Nat /\ Cardinality(s) <= n
                          /\ (Cardinality(s) = 0 <=> s = {})
  BY FS_Subset, FS_CardinalityType, FS_EmptySet
<1>3. 0 \in T
  <2> DEFINE h == [s \in SUBSET S |-> base]
  <2>1. \A s \in SUBSET S : Cardinality(s) <= 0 => Right(h, s) BY <1>2
  <2>2. h \in [SUBSET S -> A] OBVIOUS
  <2> HIDE DEF h, Right
  <2> QED BY <1>1, <2>1, <2>2
<1>4. \A m \in 0 .. n - 1 : m \in T => m + 1 \in T
  <2> SUFFICES ASSUME NEW m \in 0 .. n - 1, m \in T PROVE m + 1 \in T OBVIOUS
  <2>1. PICK g \in [SUBSET S -> A] : \A s \in SUBSET S : Cardinality(s) <= m => Right(g, s) OBVIOUS
  <2> DEFINE h == [s \in SUBSET S |-> IF s = {} THEN base ELSE G[<<ch[s], g[s \ {ch[s]}]>>]]
  <2>5. h \in [SUBSET S -> A]
    <3>1. \A s \in SUBSET S : s # {} => ch[s] \in S /\ g[s \ {ch[s]}] \in A OBVIOUS
    <3>2. \A s \in SUBSET S : s # {} => G[<<ch[s], g[s \ {ch[s]}]>>] \in A BY <3>1
    <3> QED BY <3>2
  <2>3. \A s \in SUBSET S : Cardinality(s) <= m => h[s] = g[s] BY <2>1
  <2>4. ASSUME NEW s \in SUBSET S, Cardinality(s) <= m + 1 PROVE Right(h, s)
    <3>1. CASE s = {} BY <3>1
    <3>2. CASE s # {}
      <4>1. ch[s] \in s /\ s \ {ch[s]} \in SUBSET S BY <3>2
      <4>2. Cardinality(s \ {ch[s]}) = Cardinality(s) - 1 BY <4>1, <1>2, FS_RemoveElement
      <4>3. Cardinality(s \ {ch[s]}) <= m BY <4>1, <4>2, <1>2, <2>4
      <4>4. h[s \ {ch[s]}] = g[s \ {ch[s]}] BY <4>1, <4>3, <2>3
      <4> QED BY <3>2, <4>4
    <3> QED BY <3>1, <3>2
  <2> HIDE DEF h, Right
  <2> QED BY <1>1, <2>5, <2>4
<1>5. n \in T
  <2> HIDE DEF T, n
  <2> QED BY <1>1, <1>3, <1>4, Reaches
<1>6. PICK h \in [SUBSET S -> A] : \A s \in SUBSET S : Cardinality(s) <= n => Right(h, s) BY <1>5
<1>7. \A s \in SUBSET S : Right(h, s) BY <1>2, <1>6
<1> QED BY <1>7 DEF IsFold

\* The prefixes of a sequence, folded from the left.
NextMax(n) == [S \in SUBSET (1 .. n) |-> Max(S)]

Follows(g, n, A, base, G) ==
  \A S \in SUBSET (1 .. n) :
     IF S = {} THEN g[S] = base
     ELSE g[S \ {Max(S)}] \in A => g[S] = G[<<Max(S), g[S \ {Max(S)}]>>]

Along(f, g, n, A, base, G) ==
  f \in [0 .. n -> A] /\ f[0] = base /\ f[n] = g[1 .. n] /\ \A m \in 1 .. n : f[m] = G[<<m, f[m - 1]>>]

LEMMA NextIsMax ==
  ASSUME NEW n \in Nat
  PROVE  IsFiniteSet(1 .. n) /\ NextOf(NextMax(n), 1 .. n) /\ \A S \in SUBSET (1 .. n) : S # {} => Max(S) \in 1 .. n
<1>1. \A S \in SUBSET (1 .. n) : S # {} => Max(S) \in S
  <2> SUFFICES ASSUME NEW S \in SUBSET (1 .. n), S # {} PROVE Max(S) \in S OBVIOUS
  <2>1. S \in SUBSET (0 .. n) OBVIOUS
  <2> QED BY <2>1, MaxIs
<1>2. \A S \in SUBSET (1 .. n) : NextMax(n)[S] = Max(S) BY DEF NextMax
<1>3. IsFiniteSet(1 .. n) BY FS_Interval
<1> QED BY <1>1, <1>2, <1>3 DEF NextOf

LEMMA FoldAlong ==
  ASSUME NEW n \in Nat, NEW A, NEW base \in A, NEW G \in [(1 .. n) \X A -> A], NEW g, Follows(g, n, A, base, G)
  PROVE  \E f : Along(f, g, n, A, base, G)
<1> DEFINE f == [m \in 0 .. n |-> g[1 .. m]]
           T == {m \in 0 .. n : f[m] \in A /\ (m # 0 => f[m] = G[<<m, f[m - 1]>>])}
<1>1. f[0] = base
  <2>1. 1 .. 0 = {} /\ f[0] = g[1 .. 0] OBVIOUS
  <2>2. {} \in SUBSET (1 .. n) OBVIOUS
  <2>3. g[{}] = base BY <2>2 DEF Follows
  <2> QED BY <2>1, <2>3
<1>2. \A m \in 0 .. n - 1 : m \in T => m + 1 \in T
  <2> SUFFICES ASSUME NEW m \in 0 .. n - 1, m \in T PROVE m + 1 \in T OBVIOUS
  <2> DEFINE S == 1 .. (m + 1)
  <2>1. S # {} /\ Max(S) = m + 1 /\ S \ {m + 1} = 1 .. m
    <3> DEFINE k == m + 1
    <3>1. k \in Nat /\ k >= 1 /\ k - 1 = m OBVIOUS
    <3> HIDE DEF k
    <3>2. 1 .. k # {} /\ Max(1 .. k) = k /\ (1 .. k) \ {k} = 1 .. m BY <3>1, MaxOfPrefix
    <3> QED BY <3>2 DEF k
  <2>2. S \in SUBSET (1 .. n) OBVIOUS
  <2>3. f[m + 1] = g[S] /\ f[m] = g[S \ {Max(S)}]
    <3>1. m + 1 \in 0 .. n /\ m \in 0 .. n OBVIOUS
    <3>2. g[S \ {Max(S)}] = g[1 .. m] BY <2>1
    <3> QED BY <3>1, <3>2
  <2> HIDE DEF S
  <2>4. f[m + 1] = G[<<m + 1, f[m]>>] BY <2>1, <2>2, <2>3 DEF Follows
  <2> HIDE DEF f
  <2>5. f[m + 1] \in A BY <2>4
  <2> QED BY <2>4, <2>5
<1> HIDE DEF f
<1>3. \A m \in 0 .. n : m \in T
  <2>1. 0 \in T BY <1>1
  <2> HIDE DEF T
  <2> QED BY <1>2, <2>1, Reaches
<1>4. f \in [0 .. n -> A] BY <1>3 DEF f
<1>5. f[n] = g[1 .. n] BY DEF f
<1> QED BY <1>1, <1>3, <1>4, <1>5 DEF Along

-----------------------------------------------------------------------------
Terms == Vocabulary \union {None, "brightness", "ratio", "ac", "curtain", "light"}
Clauses == Wording(Terms, Seq(Part(Vocabulary)))

LEMMA MeasuredIs ==
  ASSUME NEW p \in Clauses, NEW c \in Clauses, NEW r, r = Measured(p, c)
  PROVE  /\ r \in Clauses
         /\ r.action = p.action /\ r.location = p.location /\ r.device = p.device
         /\ r.at = p.at /\ r.spans = p.spans /\ r.refers = p.refers /\ r.bound = p.bound
         /\ r.noise = p.noise /\ r.ahead = p.ahead /\ r.parameter \in {p.parameter, c.parameter}
         /\ r.value = Or(p.value, c.value) /\ (Payload(p) \/ c.value # None => Payload(r))
BY DEF Measured, Clauses, Wording, Payload, Or, None

LEMMA MergeIs ==
  ASSUME NEW x \in Seq(Clauses), NEW c \in Clauses
  PROVE  Merge(x, c) \in Seq(Clauses)
<1>1. CASE x # <<>> /\ IsFragment(c)
  <2>1. Len(x) \in 1 .. Len(x) /\ x[Len(x)] \in Clauses BY <1>1
  <2>2. Merge(x, c) = [x EXCEPT ![Len(x)] = Measured(x[Len(x)], c)] BY <1>1 DEF Merge
  <2>3. Measured(x[Len(x)], c) \in Clauses BY <2>1, MeasuredIs
  <2> QED BY <2>1, <2>2, <2>3
<1>2. CASE ~(x # <<>> /\ IsFragment(c)) BY <1>2 DEF Merge
<1> QED BY <1>1, <1>2

LEMMA MergeFolds ==
  ASSUME NEW s \in Seq(Clauses)
  PROVE  \E f \in [0 .. Len(s) -> Seq(Clauses)] :
            /\ f[0] = <<>> /\ f[Len(s)] = MergeSplit(s)
            /\ \A m \in 1 .. Len(s) : f[m] = Merge(f[m - 1], s[m])
<1> DEFINE n == Len(s)
           A == Seq(Clauses)
           base == <<>>
           G == [p \in (1 .. n) \X A |-> Merge(p[2], s[p[1]])]
           R(h) == h = [S \in SUBSET DOMAIN s |-> IF S = {} THEN base ELSE Merge(h[S \ {Max(S)}], s[Max(S)])]
           g == CHOOSE h : R(h)
<1>1. n \in Nat /\ DOMAIN s = 1 .. n /\ base \in A /\ \A i \in 1 .. n : s[i] \in Clauses
  OBVIOUS
<1>2. G \in [(1 .. n) \X A -> A] BY <1>1, MergeIs
<1>3. \A S \in SUBSET (1 .. n) : S # {} => Max(S) \in 1 .. n BY <1>1, NextIsMax
<1>4. \E h : R(h)
  <2>1. \E h : IsFold(h, 1 .. n, A, base, G, NextMax(n))
    <3> HIDE DEF n, A, base, G
    <3> QED BY <1>1, <1>2, NextIsMax, FoldExists
  <2>2. PICK h : IsFold(h, 1 .. n, A, base, G, NextMax(n)) BY <2>1
  <2>3. ASSUME NEW S \in SUBSET (1 .. n), S # {} PROVE h[S] = Merge(h[S \ {Max(S)}], s[Max(S)])
    <3>1. h[S \ {Max(S)}] \in A BY <2>2 DEF IsFold
    <3>2. h[S] = G[<<Max(S), h[S \ {Max(S)}]>>] BY <2>2, <2>3 DEF IsFold, NextMax
    <3> QED BY <1>3, <2>3, <3>1, <3>2
  <2> HIDE DEF G
  <2>4. R(h) BY <1>1, <2>2, <2>3 DEF IsFold
  <2> QED BY <2>4
<1>5. R(g)
  <2> HIDE DEF R
  <2> QED BY <1>4
<1>6. MergeSplit(s) = g[1 .. n]
  <2>1. MergeSplit(s) = g[DOMAIN s] BY DEF MergeSplit, FoldLeft, MapThenFoldSet
  <2> QED BY <1>1, <2>1
<1> HIDE DEF g
<1>7. Follows(g, n, A, base, G)
  <2> SUFFICES ASSUME NEW S \in SUBSET (1 .. n), S # {}, g[S \ {Max(S)}] \in A
               PROVE  g[S] = G[<<Max(S), g[S \ {Max(S)}]>>]
    BY <1>1, <1>5 DEF Follows
  <2>1. g[S] = Merge(g[S \ {Max(S)}], s[Max(S)]) BY <1>1, <1>5
  <2> QED BY <1>3, <2>1
<1>8. PICK f : Along(f, g, n, A, base, G)
  <2> HIDE DEF n, A, base, G
  <2> QED BY ONLY <1>1, <1>2, <1>7, FoldAlong
<1>9. \A m \in 1 .. n : f[m] = Merge(f[m - 1], s[m])
  <2> SUFFICES ASSUME NEW m \in 1 .. n PROVE f[m] = Merge(f[m - 1], s[m]) OBVIOUS
  <2>1. m - 1 \in 0 .. n BY <1>1
  <2>2. f[m - 1] \in A /\ f[m] = G[<<m, f[m - 1]>>] BY <1>8, <2>1 DEF Along
  <2> QED BY <2>2
<1> QED BY <1>6, <1>8, <1>9 DEF Along

LEMMA RenderedIs ==
  ASSUME NEW c \in Clauses, NEW r, r = Rendered(c)
  PROVE  /\ r \in Clauses
         /\ r.action = c.action /\ r.location = c.location /\ r.device = c.device
         /\ r.parameter = c.parameter /\ r.value = c.value /\ r.at = c.at
         /\ r.spans = <<>> /\ ~r.refers /\ ~r.noise /\ r.ahead
<1>1. <<>> \in Seq(Part(Vocabulary)) OBVIOUS
<1> QED BY <1>1 DEF Rendered, Clauses, Wording

LEMMA JoinIs ==
  ASSUME NEW p \in Clauses, NEW c \in Clauses, NEW r, r = Join(p, c)
  PROVE  /\ r \in Clauses
         /\ r.action = c.action /\ r.device = c.device /\ r.parameter = c.parameter
         /\ r.value = c.value /\ r.at = c.at /\ r.spans = c.spans /\ r.refers = c.refers
         /\ r.ahead = c.ahead
         /\ r.location = c.location \/ (c.location = None /\ r.location = p.location)
<1>1. CASE c.bound BY <1>1 DEF Join
<1>2. CASE ~c.bound
  <2> DEFINE noise == Leftover(p, c)
             place == IF noise \/ (c.action # None /\ c.device = None) THEN c.location
                      ELSE Or(c.location, p.location)
  <2>1. r = [c EXCEPT !.bound = TRUE, !.noise = noise, !.location = place] BY <1>2 DEF Join
  <2>2. noise \in BOOLEAN BY DEF Leftover, Noisy, Clauses, Wording
  <2>3. /\ place \in Terms
        /\ place = c.location \/ (c.location = None /\ place = p.location)
    BY DEF Clauses, Wording, Or
  <2> HIDE DEF noise, place
  <2> QED BY <2>1, <2>2, <2>3 DEF Clauses, Wording
<1> QED BY <1>1, <1>2

\* What c becomes after p.
LEMMA ForwardIs ==
  ASSUME NEW p \in Clauses, NEW c \in Clauses, NEW r, r = ForwardFill(p, c)
  PROVE  /\ r \in Clauses
         /\ r.action = c.action \/ (c.action = None /\ r.action = p.action)
         /\ \/ r.location = c.location
            \/ /\ c.location = None /\ r.location = p.location /\ c.device # None
               /\ (c.device = p.device \/ c.refers)
         /\ r.device = c.device /\ r.value = c.value /\ r.at = c.at
         /\ r.spans \in {<<>>, c.spans} /\ (r.refers => c.refers)
         /\ r.parameter = c.parameter /\ (r.noise => c.noise) /\ (~r.ahead => ~c.ahead)
<1> DEFINE place == IF c.location = None /\ ~c.owned /\ (c.device = p.device \/ c.refers)
                    THEN p.location ELSE c.location
           filled == [c EXCEPT !.action = Or(@, p.action), !.location = place]
<1>1. place \in Terms /\ Or(c.action, p.action) \in Terms BY DEF Clauses, Wording, Or
<1>2. /\ filled \in Clauses /\ filled.action = Or(c.action, p.action) /\ filled.location = place
      /\ filled.device = c.device /\ filled.value = c.value /\ filled.at = c.at
      /\ filled.parameter = c.parameter
  <2> HIDE DEF place
  <2> QED BY <1>1 DEF Clauses, Wording
<1>3. r = c \/ (c.device # None /\ r = Rendered(filled)) BY DEF ForwardFill
<1>4. CASE r = c BY <1>4
<1>5. CASE c.device # None /\ r = Rendered(filled)
  <2>1. /\ r \in Clauses /\ r.action = Or(c.action, p.action) /\ r.location = place /\ r.device = c.device
        /\ r.value = c.value /\ r.at = c.at /\ r.spans = <<>> /\ ~r.refers
        /\ r.parameter = c.parameter /\ ~r.noise /\ r.ahead
    <3> HIDE DEF filled, place
    <3> QED BY <1>2, <1>5, RenderedIs
  <2> HIDE DEF filled
  <2> QED BY <1>5, <2>1 DEF Or
<1> QED BY <1>3, <1>4, <1>5

\* What p becomes when c completes it.
LEMMA BackfilledIs ==
  ASSUME NEW p \in Clauses, NEW c \in Clauses, NEW r, r = BackfillOne(p, c)
  PROVE  /\ r \in Clauses
         /\ r.action = Or(p.action, c.action) /\ r.location = p.location
         /\ r.device = Or(p.device, c.device) /\ r.value = Or(p.value, c.value) /\ r.at = p.at
         /\ r.spans = <<>> /\ ~r.refers /\ ~r.noise /\ r.ahead
         /\ Payload(r) => Payload(p) \/ Payload(c)
<1> DEFINE device == Or(p.device, c.device)
           parameter == Or(p.parameter, SharedParameter(device, c.parameter))
           filled == [p EXCEPT !.action = Or(@, c.action), !.device = device, !.parameter = parameter,
                               !.value = Or(@, c.value)]
<1>1. Or(p.action, c.action) \in Terms /\ device \in Terms /\ Or(p.value, c.value) \in Terms
  BY DEF Clauses, Wording, Or
<1>2. parameter \in Terms
  BY DEF Clauses, Wording, Or, SharedParameter, Terms
<1>5. parameter # None => p.parameter # None \/ c.parameter # None
  BY DEF Or, SharedParameter, None
<1> HIDE DEF device, parameter
<1>3. /\ filled \in Clauses /\ filled.action = Or(p.action, c.action) /\ filled.location = p.location
      /\ filled.device = device /\ filled.value = Or(p.value, c.value) /\ filled.at = p.at
      /\ filled.parameter = parameter
  BY <1>1, <1>2 DEF Clauses, Wording
<1>4. r = Rendered(filled) BY DEF BackfillOne, device, parameter
<1> HIDE DEF filled
<1>6. /\ r \in Clauses /\ r.action = filled.action /\ r.location = filled.location
      /\ r.device = filled.device /\ r.parameter = filled.parameter /\ r.value = filled.value
      /\ r.at = filled.at /\ r.spans = <<>> /\ ~r.refers /\ ~r.noise /\ r.ahead
  BY <1>3, <1>4, RenderedIs
<1>7. Payload(r) => Payload(p) \/ Payload(c) BY <1>3, <1>5, <1>6 DEF Payload, Or
<1> QED BY <1>3, <1>6, <1>7 DEF device

LEMMA BackfillIs ==
  ASSUME NEW d \in Seq(Clauses), NEW c \in Clauses, NEW r, r = Backfill(d, c)
  PROVE  /\ r \in Seq(Clauses) /\ Len(r) = Len(d)
         /\ \A i \in 1 .. Len(d) : r[i] = d[i] \/ r[i] = BackfillOne(d[i], c)
<1>1. DOMAIN d = 1 .. Len(d) /\ Len(d) \in Nat /\ \A i \in 1 .. Len(d) : d[i] \in Clauses OBVIOUS
<1>2. CASE r = d BY <1>1, <1>2
<1>3. CASE \E stop : r = [i \in DOMAIN d |-> IF i > stop THEN BackfillOne(d[i], c) ELSE d[i]]
  <2>1. \A i \in 1 .. Len(d) : BackfillOne(d[i], c) \in Clauses BY <1>1, BackfilledIs
  <2> QED BY <1>1, <1>3, <2>1
<1> QED BY <1>2, <1>3 DEF Backfill

Settled == [held : Seq(Clauses), done : Seq(Clauses)]

LEMMA SettleIs ==
  ASSUME NEW acc \in Settled, NEW c \in Clauses
  PROVE  Settle(acc, c) \in Settled
<1> DEFINE joined == IF acc.held = <<>> THEN c ELSE Join(Head(acc.held), c)
           filled == IF acc.done = <<>> THEN joined ELSE ForwardFill(Last(acc.done), joined)
<1>1. acc.held \in Seq(Clauses) /\ acc.done \in Seq(Clauses) BY DEF Settled
<1>2. joined \in Clauses
  <2>1. acc.held # <<>> => Head(acc.held) \in Clauses BY <1>1
  <2> QED BY <2>1, JoinIs
<1>3. filled \in Clauses
  <2>1. acc.done # <<>> => Last(acc.done) \in Clauses BY <1>1 DEF Last
  <2> HIDE DEF joined
  <2> QED BY <1>2, <2>1, ForwardIs
<1>4. Settle(acc, c) = IF ClauseType(joined) = "modifier" THEN [held |-> <<joined>>, done |-> acc.done]
                       ELSE [held |-> <<>>, done |-> Append(Backfill(acc.done, filled), filled)]
  BY DEF Settle
<1> HIDE DEF joined, filled
<1>5. Append(Backfill(acc.done, filled), filled) \in Seq(Clauses) BY <1>1, <1>3, BackfillIs
<1>6. <<joined>> \in Seq(Clauses) /\ <<>> \in Seq(Clauses) BY <1>2
<1> QED BY <1>1, <1>4, <1>5, <1>6 DEF Settled

LEMMA SettleFolds ==
  ASSUME NEW s \in Seq(Clauses)
  PROVE  \E f \in [0 .. Len(s) -> Settled] :
            /\ f[0] = [held |-> <<>>, done |-> <<>>] /\ Decompose(s) = f[Len(s)].done \o f[Len(s)].held
            /\ \A m \in 1 .. Len(s) : f[m] = Settle(f[m - 1], s[m])
<1> DEFINE n == Len(s)
           A == Settled
           base == [held |-> <<>>, done |-> <<>>]
           G == [p \in (1 .. n) \X A |-> Settle(p[2], s[p[1]])]
           R(h) == h = [S \in SUBSET DOMAIN s |-> IF S = {} THEN base ELSE Settle(h[S \ {Max(S)}], s[Max(S)])]
           g == CHOOSE h : R(h)
<1>1. n \in Nat /\ DOMAIN s = 1 .. n /\ base \in A /\ \A i \in 1 .. n : s[i] \in Clauses
  BY DEF Settled
<1>2. G \in [(1 .. n) \X A -> A] BY <1>1, SettleIs
<1>3. \A S \in SUBSET (1 .. n) : S # {} => Max(S) \in 1 .. n BY <1>1, NextIsMax
<1>4. \E h : R(h)
  <2>1. \E h : IsFold(h, 1 .. n, A, base, G, NextMax(n))
    <3> HIDE DEF n, A, base, G
    <3> QED BY <1>1, <1>2, NextIsMax, FoldExists
  <2>2. PICK h : IsFold(h, 1 .. n, A, base, G, NextMax(n)) BY <2>1
  <2>3. ASSUME NEW S \in SUBSET (1 .. n), S # {} PROVE h[S] = Settle(h[S \ {Max(S)}], s[Max(S)])
    <3>1. h[S \ {Max(S)}] \in A BY <2>2 DEF IsFold
    <3>2. h[S] = G[<<Max(S), h[S \ {Max(S)}]>>] BY <2>2, <2>3 DEF IsFold, NextMax
    <3> QED BY <1>3, <2>3, <3>1, <3>2
  <2> HIDE DEF G
  <2>4. R(h) BY <1>1, <2>2, <2>3 DEF IsFold
  <2> QED BY <2>4
<1>5. R(g)
  <2> HIDE DEF R
  <2> QED BY <1>4
<1>6. Decompose(s) = g[1 .. n].done \o g[1 .. n].held
  <2>1. Decompose(s) = g[DOMAIN s].done \o g[DOMAIN s].held BY DEF Decompose, FoldLeft, MapThenFoldSet
  <2> QED BY <1>1, <2>1
<1> HIDE DEF g
<1>7. Follows(g, n, A, base, G)
  <2> SUFFICES ASSUME NEW S \in SUBSET (1 .. n), S # {}, g[S \ {Max(S)}] \in A
               PROVE  g[S] = G[<<Max(S), g[S \ {Max(S)}]>>]
    BY <1>1, <1>5 DEF Follows
  <2>1. g[S] = Settle(g[S \ {Max(S)}], s[Max(S)]) BY <1>1, <1>5
  <2> QED BY <1>3, <2>1
<1>8. PICK f : Along(f, g, n, A, base, G)
  <2> HIDE DEF n, A, base, G
  <2> QED BY ONLY <1>1, <1>2, <1>7, FoldAlong
<1>9. \A m \in 1 .. n : f[m] = Settle(f[m - 1], s[m])
  <2> SUFFICES ASSUME NEW m \in 1 .. n PROVE f[m] = Settle(f[m - 1], s[m]) OBVIOUS
  <2>1. m - 1 \in 0 .. n BY <1>1
  <2>2. f[m - 1] \in A /\ f[m] = G[<<m, f[m - 1]>>] BY <1>8, <2>1 DEF Along
  <2> QED BY <2>2
<1> QED BY <1>6, <1>8, <1>9 DEF Along

-----------------------------------------------------------------------------
(***************************************************************************)
(* The clauses after numbers on their own were put back.                   *)
(***************************************************************************)
\* x is the clause it is numbered as, but for numbers that came after it.
Heard(s, x) ==
  /\ x.at \in 1 .. Len(s)
  /\ x.action = s[x.at].action /\ x.location = s[x.at].location /\ x.device = s[x.at].device
  /\ x.bound = s[x.at].bound /\ x.refers = s[x.at].refers /\ x.spans = s[x.at].spans
  /\ x.noise = s[x.at].noise /\ x.ahead = s[x.at].ahead
  /\ x.value # None => \E j \in x.at .. Len(s) : x.value = s[j].value
  /\ x.parameter # None => \E j \in x.at .. Len(s) : x.parameter = s[j].parameter
  /\ Idle(x) => Idle(s[x.at])

HeardUpTo(s, m, a) ==
  /\ m \in Seq(Clauses)
  /\ \A q \in 1 .. Len(m) : Heard(s, m[q]) /\ m[q].at <= a
  /\ \A q \in 1 .. Len(m) - 1 : m[q].at < m[q + 1].at /\ (Idle(m[q]) => m[q + 1].at = m[q].at + 1)
  /\ IF m = <<>> THEN a = 0 ELSE Idle(m[Len(m)]) => m[Len(m)].at = a

LEMMA RenumberedIs ==
  ASSUME NEW c \in Clauses, NEW k \in Nat, NEW r, r = [c EXCEPT !.at = k]
  PROVE  /\ r \in Clauses /\ r.at = k
         /\ r.action = c.action /\ r.location = c.location /\ r.device = c.device
         /\ r.parameter = c.parameter /\ r.value = c.value
         /\ r.bound = c.bound /\ r.refers = c.refers /\ r.spans = c.spans
         /\ r.noise = c.noise /\ r.ahead = c.ahead
BY DEF Clauses, Wording

LEMMA NumberedIs ==
  ASSUME NEW s, IsSentence(s, Vocabulary), NEW n, n = Numbered(s)
  PROVE  /\ n \in Seq(Clauses) /\ Len(n) = Len(s) /\ Len(s) \in Nat /\ DOMAIN s = 1 .. Len(s)
         /\ \A i \in 1 .. Len(s) : n[i].at = i /\ Heard(s, n[i]) /\ s[i] \in Clauses
<1>1. s \in Seq(Wording(Vocabulary, Seq(Part(Vocabulary)))) BY DEF IsSentence
<1>2. DOMAIN s = 1 .. Len(s) /\ Len(s) \in Nat
      /\ \A i \in 1 .. Len(s) : s[i] \in Wording(Vocabulary, Seq(Part(Vocabulary)))
  BY <1>1
<1>3. \A i \in 1 .. Len(s) : s[i] \in Clauses BY <1>2 DEF Wording, Clauses, Terms
<1>4. \A i \in 1 .. Len(s) : n[i] = [s[i] EXCEPT !.at = i] BY <1>2 DEF Numbered
<1>5. ASSUME NEW i \in 1 .. Len(s)
      PROVE  n[i] \in Clauses /\ n[i].at = i /\ Heard(s, n[i])
  <2>1. s[i] \in Clauses BY <1>3
  <2>3. n[i] = [s[i] EXCEPT !.at = i] /\ i \in Nat BY <1>2, <1>4
  <2>2. /\ n[i] \in Clauses /\ n[i].at = i /\ n[i].action = s[i].action /\ n[i].location = s[i].location
        /\ n[i].device = s[i].device /\ n[i].bound = s[i].bound /\ n[i].refers = s[i].refers
        /\ n[i].spans = s[i].spans /\ n[i].parameter = s[i].parameter /\ n[i].value = s[i].value
        /\ n[i].noise = s[i].noise /\ n[i].ahead = s[i].ahead
    BY ONLY <2>1, <2>3, RenumberedIs
  <2> QED BY <1>2, <2>2 DEF Heard, Idle, Payload
<1>6. n \in Seq(Clauses) /\ Len(n) = Len(s) BY <1>2, <1>5 DEF Numbered
<1> QED BY <1>2, <1>3, <1>5, <1>6

LEMMA MergeHeard ==
  ASSUME NEW s, IsSentence(s, Vocabulary), NEW a \in 0 .. Len(s) - 1, NEW m, HeardUpTo(s, m, a)
  PROVE  HeardUpTo(s, Merge(m, Numbered(s)[a + 1]), a + 1)
<1> DEFINE c == Numbered(s)[a + 1]
           r == Merge(m, c)
<1>1. /\ m \in Seq(Clauses) /\ Len(m) \in Nat /\ Len(s) \in Nat
      /\ \A q \in 1 .. Len(m) : m[q] \in Clauses
      /\ \A q \in 1 .. Len(m) : Heard(s, m[q]) /\ m[q].at <= a
      /\ \A q \in 1 .. Len(m) - 1 : m[q].at < m[q + 1].at /\ (Idle(m[q]) => m[q + 1].at = m[q].at + 1)
      /\ IF m = <<>> THEN a = 0 ELSE Idle(m[Len(m)]) => m[Len(m)].at = a
  BY NumberedIs DEF HeardUpTo
<1>2. a + 1 \in 1 .. Len(s) BY <1>1
<1>3. /\ c \in Clauses /\ c.at = a + 1 /\ Heard(s, c) BY <1>1, <1>2, NumberedIs
<1>4. s[a + 1].value = c.value /\ s[a + 1].parameter = c.parameter
  <2>1. s[a + 1] \in Clauses BY <1>2, NumberedIs
  <2>2. Numbered(s)[a + 1] = [s[a + 1] EXCEPT !.at = a + 1] BY <1>2, NumberedIs DEF Numbered
  <2> QED BY <1>1, <2>1, <2>2, RenumberedIs
<1> HIDE DEF c
<1>5. CASE m # <<>> /\ IsFragment(c)
  <2> DEFINE k == Len(m)
             x == Measured(m[k], c)
  <2>1. k \in 1 .. Len(m) /\ m[k] \in Clauses /\ Heard(s, m[k]) BY <1>1, <1>5
  <2>2. r = [m EXCEPT ![k] = x] BY <1>5 DEF Merge
  <2>3. c.value # None BY <1>5 DEF IsFragment
  <2>4. /\ x \in Clauses /\ x.action = m[k].action /\ x.location = m[k].location /\ x.device = m[k].device
        /\ x.at = m[k].at /\ x.spans = m[k].spans /\ x.refers = m[k].refers /\ x.bound = m[k].bound
        /\ x.value = Or(m[k].value, c.value) /\ Payload(x)
        /\ x.noise = m[k].noise /\ x.ahead = m[k].ahead /\ x.parameter \in {m[k].parameter, c.parameter}
    BY <1>3, <2>1, <2>3, MeasuredIs
  <2> HIDE DEF x
  <2>5. ~Idle(x) BY <2>4 DEF Idle
  <2>6. m[k].at \in 1 .. Len(s) /\ m[k].at <= a BY <1>1, <2>1 DEF Heard
  <2>7. Heard(s, x)
    <3>1. x.value # None => \E j \in x.at .. Len(s) : x.value = s[j].value
      <4>1. CASE m[k].value # None BY <2>1, <2>4, <4>1 DEF Heard, Or
      <4>2. CASE m[k].value = None
        <5>1. x.value = s[a + 1].value BY <1>4, <2>3, <2>4, <4>2 DEF Or
        <5>2. a + 1 \in x.at .. Len(s) BY <1>1, <1>2, <2>4, <2>6
        <5> QED BY <5>1, <5>2
      <4> QED BY <4>1, <4>2
    <3>2. x.parameter # None => \E j \in x.at .. Len(s) : x.parameter = s[j].parameter
      <4>1. CASE x.parameter = m[k].parameter BY <2>1, <2>4, <4>1 DEF Heard
      <4>2. CASE x.parameter = c.parameter
        <5>1. a + 1 \in x.at .. Len(s) BY <1>1, <1>2, <2>4, <2>6
        <5> QED BY <1>4, <4>2, <5>1
      <4> QED BY <2>4, <4>1, <4>2
    <3> QED BY <2>1, <2>4, <2>5, <3>1, <3>2 DEF Heard
  <2>8. /\ r \in Seq(Clauses) /\ Len(r) = k /\ r[k] = x /\ r # <<>>
        /\ \A q \in 1 .. k : q # k => r[q] = m[q]
    BY <1>1, <2>1, <2>2, <2>4
  <2> HIDE DEF k, r
  <2>9. \A q \in 1 .. k : Heard(s, r[q]) /\ r[q].at <= a + 1
    <3> SUFFICES ASSUME NEW q \in 1 .. k PROVE Heard(s, r[q]) /\ r[q].at <= a + 1 OBVIOUS
    <3>1. CASE q = k BY <2>4, <2>6, <2>7, <2>8, <3>1
    <3>2. CASE q # k
      <4>1. r[q] = m[q] /\ Heard(s, m[q]) /\ m[q].at <= a BY <1>1, <2>8, <3>2 DEF k
      <4>2. m[q].at \in 1 .. Len(s) BY <4>1 DEF Heard
      <4> QED BY <4>1, <4>2
    <3> QED BY <3>1, <3>2
  <2>10. \A q \in 1 .. k - 1 : r[q].at < r[q + 1].at /\ (Idle(r[q]) => r[q + 1].at = r[q].at + 1)
    <3> SUFFICES ASSUME NEW q \in 1 .. k - 1
                 PROVE  r[q].at < r[q + 1].at /\ (Idle(r[q]) => r[q + 1].at = r[q].at + 1)
      OBVIOUS
    <3>1. k \in Nat /\ q \in 1 .. k /\ q + 1 \in 1 .. k /\ q # k /\ q \in 1 .. Len(m) - 1 BY <1>1 DEF k
    <3>2. r[q] = m[q] /\ r[q + 1].at = m[q + 1].at BY <2>4, <2>8, <3>1
    <3> QED BY <1>1, <3>1, <3>2
  <2> QED BY <2>5, <2>8, <2>9, <2>10 DEF HeardUpTo, r, c
<1>6. CASE ~(m # <<>> /\ IsFragment(c))
  <2>1. r = Append(m, c) BY <1>6 DEF Merge
  <2> DEFINE k == Len(m)
  <2>2. /\ r \in Seq(Clauses) /\ Len(r) = k + 1 /\ r[k + 1] = c /\ r # <<>> /\ k \in Nat
        /\ \A q \in 1 .. k : r[q] = m[q]
    BY <1>1, <1>3, <2>1
  <2>5. \A q \in 1 .. k : Heard(s, m[q]) /\ m[q].at <= a /\ m[q].at \in 1 .. Len(s) BY <1>1 DEF Heard
  <2>3. \A q \in 1 .. k + 1 : Heard(s, r[q]) /\ r[q].at <= a + 1
    <3> SUFFICES ASSUME NEW q \in 1 .. k + 1 PROVE Heard(s, r[q]) /\ r[q].at <= a + 1 OBVIOUS
    <3>1. CASE q = k + 1 BY <1>3, <2>2, <3>1
    <3>2. CASE q \in 1 .. k
      <4> HIDE DEF r, k
      <4>1. r[q] = m[q] /\ Heard(s, m[q]) /\ m[q].at <= a BY <2>2, <2>5, <3>2
      <4>2. m[q].at \in Nat BY <2>5, <3>2
      <4> QED BY <4>1, <4>2
    <3> HIDE DEF r, k
    <3> QED BY <2>2, <3>1, <3>2
  <2>4. \A q \in 1 .. k : r[q].at < r[q + 1].at /\ (Idle(r[q]) => r[q + 1].at = r[q].at + 1)
    <3> SUFFICES ASSUME NEW q \in 1 .. k
                 PROVE  r[q].at < r[q + 1].at /\ (Idle(r[q]) => r[q + 1].at = r[q].at + 1)
      OBVIOUS
    <3>1. CASE q = k
      <4>1. m # <<>> /\ (Idle(m[k]) => m[k].at = a) BY <1>1, <3>1
      <4> HIDE DEF r, k
      <4>2. r[q] = m[k] /\ r[q + 1] = c /\ c.at = a + 1 BY <1>3, <2>2, <3>1
      <4>3. m[k].at \in Nat /\ m[k].at <= a BY <2>5, <3>1
      <4> QED BY <4>1, <4>2, <4>3
    <3>2. CASE q # k
      <4>1. q \in 1 .. k - 1 /\ q + 1 \in 1 .. k BY <2>2, <3>2
      <4> HIDE DEF r
      <4> QED BY <1>1, <2>2, <4>1
    <3> QED BY <3>1, <3>2
  <2> HIDE DEF r
  <2> QED BY <1>3, <2>2, <2>3, <2>4 DEF HeardUpTo, r, c
<1> QED BY <1>5, <1>6

\* What MergeSplit makes of a sentence.
LEMMA MergedIsHeard ==
  ASSUME NEW s, IsSentence(s, Vocabulary)
  PROVE  HeardUpTo(s, MergeSplit(Numbered(s)), Len(s))
<1> DEFINE n == Numbered(s)
<1>1. n \in Seq(Clauses) /\ Len(n) = Len(s) /\ Len(s) \in Nat BY NumberedIs
<1> HIDE DEF n
<1>2. PICK f \in [0 .. Len(n) -> Seq(Clauses)] :
            /\ f[0] = <<>> /\ f[Len(n)] = MergeSplit(n)
            /\ \A m \in 1 .. Len(n) : f[m] = Merge(f[m - 1], n[m])
  BY <1>1, MergeFolds
<1> DEFINE T == {a \in 0 .. Len(s) : HeardUpTo(s, f[a], a)}
<1>3. 0 \in T
  <2>1. <<>> \in Seq(Clauses) /\ Len(<<>>) = 0 OBVIOUS
  <2> QED BY <1>1, <1>2, <2>1 DEF HeardUpTo
<1>4. ASSUME NEW a \in 0 .. Len(s) - 1, a \in T PROVE a + 1 \in T
  <2>1. a + 1 \in 1 .. Len(n) /\ a + 1 - 1 = a /\ a + 1 \in 0 .. Len(s) BY <1>1
  <2>2. f[a + 1] = Merge(f[a], n[a + 1]) BY <1>2, <2>1
  <2>3. HeardUpTo(s, Merge(f[a], n[a + 1]), a + 1) BY <1>4, MergeHeard DEF n
  <2> QED BY <2>1, <2>2, <2>3
<1>5. Len(s) \in T
  <2> HIDE DEF T
  <2>1. \A a \in 0 .. Len(s) : a \in T BY ONLY <1>1, <1>3, <1>4, Reaches
  <2> QED BY <1>1, <2>1
<1> QED BY <1>1, <1>2, <1>5 DEF n

-----------------------------------------------------------------------------
(***************************************************************************)
(* The clauses after they have completed each other.                       *)
(***************************************************************************)
\* Place l was spoken of with the device of clause k, up to there.
Grounded(s, k, l) ==
  \E j \in 1 .. k : /\ s[j].device = s[k].device
                    /\ s[j].location = l \/ s[j].refers \/ Joined(s, j, l)

\* Why d may not be read as a whole, or not from its beginning: for what is said in
\* its clause, or right before, or a number after it.
Marked(s, d) ==
  /\ d.noise => s[d.at].noise \/ \E i \in 1 .. d.at : Begun(s, d.at, i)
  /\ Payload(d) => \E k \in d.at .. Len(s) : Payload(s[k])
  /\ ~d.ahead => /\ ~s[d.at].ahead
                 /\ d.parameter = "brightness" => \E k \in d.at .. Len(s) : s[k].parameter = "brightness"

\* d is the clause it is numbered as, completed by others.
Told(s, d) ==
  /\ d.at \in 1 .. Len(s)
  /\ s[d.at].action # None => d.action = s[d.at].action
  /\ s[d.at].device # None => d.device = s[d.at].device
  /\ s[d.at].location # None => d.location = s[d.at].location
  /\ d.action # None => \E j \in 1 .. Len(s) : s[j].action = d.action
  /\ d.device # None => \E j \in 1 .. Len(s) : s[j].device = d.device
  /\ d.value # None => \E j \in d.at .. Len(s) : s[j].value = d.value
  /\ d.location # None => /\ \E j \in 1 .. d.at : s[j].location = d.location
                          /\ s[d.at].device # None => Grounded(s, d.at, d.location)
  /\ d.refers => s[d.at].refers
  /\ d.spans \in {<<>>, s[d.at].spans}
  /\ Marked(s, d)

\* Only others' slots are missing in it: its device is still its own.
Own(s, d) == d.device = s[d.at].device

\* A condition that waits for the clause right after it.
Waiting(s, h) ==
  \E i \in 1 .. h.at : /\ s[i].bound /\ \A k \in i .. h.at : Idle(s[k])
                       /\ h.location # None => \E j \in i .. h.at : s[j].location = h.location

LEMMA WaitingIsJoined ==
  ASSUME NEW s, NEW h, h.at \in Nat, Waiting(s, h)
  PROVE  /\ \E i \in 1 .. h.at + 1 : Begun(s, h.at + 1, i)
         /\ h.location # None => Joined(s, h.at + 1, h.location) /\ \E j \in 1 .. h.at : s[j].location = h.location
<1>1. PICK i \in 1 .. h.at : /\ s[i].bound /\ \A k \in i .. h.at : Idle(s[k])
                             /\ h.location # None => \E j \in i .. h.at : s[j].location = h.location
  BY DEF Waiting
<1>2. h.at + 1 - 1 = h.at /\ i \in 1 .. h.at + 1 OBVIOUS
<1>3. Begun(s, h.at + 1, i) BY <1>1, <1>2 DEF Begun
<1>4. ASSUME h.location # None
      PROVE  Joined(s, h.at + 1, h.location) /\ \E j \in 1 .. h.at : s[j].location = h.location
  <2>1. PICK j \in i .. h.at : s[j].location = h.location BY <1>1, <1>4
  <2>2. j \in 1 .. h.at /\ i <= j OBVIOUS
  <2> QED BY <1>2, <1>3, <2>1, <2>2 DEF Joined
<1> QED BY <1>2, <1>3, <1>4

LEMMA MarkedAlike ==
  ASSUME NEW s, Len(s) \in Nat, NEW c, Heard(s, c), NEW x,
         x.at = c.at, x.parameter = c.parameter, x.value = c.value, x.ahead = c.ahead,
         x.noise => c.noise \/ \E i \in 1 .. c.at : Begun(s, c.at, i)
  PROVE  Marked(s, x)
<1>1. x.noise => s[x.at].noise \/ \E i \in 1 .. x.at : Begun(s, x.at, i) BY DEF Heard
<1>2. Payload(x) => \E k \in x.at .. Len(s) : Payload(s[k])
  <2>1. CASE x.value # None
    <3>1. PICK j \in x.at .. Len(s) : x.value = s[j].value BY <2>1 DEF Heard
    <3> QED BY <2>1, <3>1 DEF Payload
  <2>2. CASE x.parameter # None
    <3>1. PICK j \in x.at .. Len(s) : x.parameter = s[j].parameter BY <2>2 DEF Heard
    <3> QED BY <2>2, <3>1 DEF Payload
  <2> QED BY <2>1, <2>2 DEF Payload
<1>3. x.parameter = "brightness" => \E k \in x.at .. Len(s) : s[k].parameter = "brightness"
  <2> SUFFICES ASSUME x.parameter = "brightness"
               PROVE  \E k \in x.at .. Len(s) : s[k].parameter = "brightness"
    OBVIOUS
  <2>1. c.parameter # None BY DEF None
  <2>2. PICK j \in x.at .. Len(s) : x.parameter = s[j].parameter BY <2>1 DEF Heard
  <2> QED BY <2>2
<1> QED BY <1>1, <1>2, <1>3 DEF Marked, Heard

\* The clause at hand, as it was heard or with the condition before it.
LEMMA JoinedIsTold ==
  ASSUME NEW s, Len(s) \in Nat, NEW c \in Clauses, Heard(s, c), NEW x,
         \/ x = c
         \/ \E h \in Clauses : x = Join(h, c) /\ Waiting(s, h) /\ h.at + 1 = c.at
  PROVE  /\ x \in Clauses /\ x.at = c.at /\ Told(s, x) /\ Own(s, x)
         /\ ClauseType(x) = "modifier" => Waiting(s, x) /\ Idle(c)
<1>1. c.at \in 1 .. Len(s) /\ c.at \in Nat BY DEF Heard
<1>2. CASE x = c
  <2>1. c.location # None => (\E j \in 1 .. c.at : s[j].location = c.location)
                             /\ (s[c.at].device # None => Grounded(s, c.at, c.location))
    BY <1>1 DEF Heard, Grounded
  <2>5. Marked(s, c) BY MarkedAlike
  <2>2. Told(s, c) /\ Own(s, c) BY <1>1, <2>1, <2>5 DEF Heard, Told, Own
  <2>3. ClauseType(c) = "modifier" => c.bound /\ Idle(c) BY DEF ClauseType, Shape, Idle
  <2>4. ClauseType(c) = "modifier" => Waiting(s, c)
    <3> SUFFICES ASSUME ClauseType(c) = "modifier" PROVE Waiting(s, c) OBVIOUS
    <3>1. s[c.at].bound /\ Idle(s[c.at]) /\ s[c.at].location = c.location BY <2>3 DEF Heard
    <3>2. \A k \in c.at .. c.at : k = c.at BY <1>1
    <3> QED BY <1>1, <3>1, <3>2 DEF Waiting
  <2> QED BY <1>2, <2>2, <2>3, <2>4
<1>3. ASSUME NEW h \in Clauses, x = Join(h, c), Waiting(s, h), h.at + 1 = c.at
      PROVE  /\ x \in Clauses /\ x.at = c.at /\ Told(s, x) /\ Own(s, x)
             /\ ClauseType(x) = "modifier" => Waiting(s, x) /\ Idle(c)
  <2>9. x = Join(h, c) /\ h \in Clauses /\ c \in Clauses BY <1>3
  <2>1. /\ x \in Clauses
        /\ x.action = c.action /\ x.device = c.device /\ x.parameter = c.parameter
        /\ x.value = c.value /\ x.at = c.at /\ x.spans = c.spans /\ x.refers = c.refers
        /\ x.ahead = c.ahead
        /\ x.location = c.location \/ (c.location = None /\ x.location = h.location)
    BY ONLY <2>9, JoinIs
  <2>2. h.at \in Nat BY DEF Clauses, Wording
  <2>3. h.location # None => Joined(s, c.at, h.location) /\ \E j \in 1 .. h.at : s[j].location = h.location
    BY <1>3, <2>2, WaitingIsJoined
  <2>4. \E i \in 1 .. c.at : Begun(s, c.at, i)
    <3>1. \E i \in 1 .. h.at + 1 : Begun(s, h.at + 1, i) BY <1>3, <2>2, WaitingIsJoined
    <3> QED BY <1>3, <3>1
  <2>5. x.location # None => (\E j \in 1 .. c.at : s[j].location = x.location)
                             /\ (s[c.at].device # None => Grounded(s, c.at, x.location))
    <3>1. CASE x.location = c.location BY <1>1, <3>1 DEF Heard, Grounded
    <3>2. CASE x.location # None /\ x.location = h.location
      <4>1. Grounded(s, c.at, x.location) BY <1>1, <2>3, <3>2 DEF Grounded
      <4>2. \A j \in 1 .. h.at : j \in 1 .. c.at BY <1>3, <2>2
      <4> QED BY <2>3, <3>2, <4>1, <4>2
    <3> QED BY <2>1, <3>1, <3>2
  <2>6. Told(s, x) /\ Own(s, x)
    <3>1. s[c.at].location # None => x.location = s[c.at].location BY <2>1 DEF Heard
    <3>2. Marked(s, x) BY ONLY Len(s) \in Nat, Heard(s, c), <2>1, <2>4, MarkedAlike
    <3> QED BY <1>1, <2>1, <2>5, <3>1, <3>2 DEF Heard, Told, Own
  <2>7. ClauseType(x) = "modifier" => Idle(c) BY <2>1 DEF ClauseType, Shape, Idle, Payload
  <2>8. ASSUME Idle(c) PROVE Waiting(s, x)
    <3>1. Idle(s[c.at]) BY <2>8 DEF Heard
    <3>2. PICK i \in 1 .. h.at : /\ s[i].bound /\ \A k \in i .. h.at : Idle(s[k])
                                 /\ h.location # None => \E j \in i .. h.at : s[j].location = h.location
      BY <1>3 DEF Waiting
    <3>3. i \in 1 .. c.at /\ \A k \in i .. c.at : k \in i .. h.at \/ k = c.at BY <1>1, <1>3, <2>2
    <3>4. \A k \in i .. c.at : Idle(s[k]) BY <3>1, <3>2, <3>3
    <3>5. x.location # None => \E j \in i .. c.at : s[j].location = x.location
      <4>1. \A j \in i .. h.at : j \in i .. c.at BY <1>3, <2>2
      <4>2. c.at \in i .. c.at /\ s[c.at].location = c.location BY <1>1, <3>3 DEF Heard
      <4> QED BY <2>1, <3>2, <4>1, <4>2
    <3> QED BY <2>1, <3>2, <3>3, <3>4, <3>5 DEF Waiting
  <2> QED BY <2>1, <2>6, <2>7, <2>8
<1> QED BY <1>2, <1>3

LEMMA FilledIsTold ==
  ASSUME NEW s, Len(s) \in Nat, NEW p \in Clauses, Told(s, p), Own(s, p), NEW c \in Clauses, Told(s, c), Own(s, c),
         p.at <= c.at, NEW r, r = ForwardFill(p, c)
  PROVE  r \in Clauses /\ Told(s, r) /\ Own(s, r) /\ r.at = c.at
<1>1. /\ r \in Clauses
      /\ r.action = c.action \/ (c.action = None /\ r.action = p.action)
      /\ \/ r.location = c.location
         \/ /\ c.location = None /\ r.location = p.location /\ c.device # None
            /\ (c.device = p.device \/ c.refers)
      /\ r.device = c.device /\ r.value = c.value /\ r.at = c.at
      /\ r.spans \in {<<>>, c.spans} /\ (r.refers => c.refers)
      /\ r.parameter = c.parameter /\ (r.noise => c.noise) /\ (~r.ahead => ~c.ahead)
  BY ForwardIs
<1>5. Marked(s, r)
  <2>1. Marked(s, c) BY DEF Told
  <2> QED BY <1>1, <2>1 DEF Marked, Payload
<1>2. p.at \in 1 .. Len(s) /\ c.at \in 1 .. Len(s) BY DEF Told
<1>3. CASE r.location = c.location
  <2>1. Told(s, r) BY <1>1, <1>2, <1>3, <1>5 DEF Told
  <2> QED BY <1>1, <2>1 DEF Own
<1>4. CASE c.location = None /\ r.location = p.location /\ c.device # None /\ (c.device = p.device \/ c.refers)
  <2>1. s[c.at].location = None BY <1>4 DEF Told
  <2>2. ASSUME p.location # None
        PROVE  (\E j \in 1 .. c.at : s[j].location = p.location) /\ Grounded(s, c.at, p.location)
    <3>1. \A j \in 1 .. p.at : j \in 1 .. c.at BY <1>2
    <3>2. \E j \in 1 .. c.at : s[j].location = p.location BY <2>2, <3>1 DEF Told
    <3>3. CASE c.refers BY <1>2, <3>3 DEF Told, Grounded
    <3>4. CASE c.device = p.device
      <4>1. s[p.at].device # None /\ s[p.at].device = s[c.at].device BY <1>4, <3>4 DEF Own
      <4>2. Grounded(s, p.at, p.location) BY <2>2, <4>1 DEF Told
      <4> QED BY <3>1, <3>2, <4>1, <4>2 DEF Grounded
    <3> QED BY <1>4, <3>2, <3>3, <3>4
  <2>3. Told(s, r) BY <1>1, <1>2, <1>4, <1>5, <2>1, <2>2 DEF Told
  <2> QED BY <1>1, <2>3 DEF Own
<1> QED BY <1>1, <1>3, <1>4

LEMMA BackfilledIsTold ==
  ASSUME NEW s, Len(s) \in Nat, NEW p \in Clauses, Told(s, p), NEW c \in Clauses, Told(s, c),
         p.at <= c.at, NEW r, r = BackfillOne(p, c)
  PROVE  Told(s, r) /\ r.at = p.at
<1>1. /\ r.action = Or(p.action, c.action) /\ r.location = p.location
      /\ r.device = Or(p.device, c.device) /\ r.value = Or(p.value, c.value) /\ r.at = p.at
      /\ r.spans = <<>> /\ ~r.refers /\ ~r.noise /\ r.ahead
      /\ Payload(r) => Payload(p) \/ Payload(c)
  BY BackfilledIs
<1>2. p.at \in 1 .. Len(s) /\ c.at \in 1 .. Len(s) BY DEF Told
<1>3. \A j \in c.at .. Len(s) : j \in p.at .. Len(s) BY <1>2
<1>4. r.value # None => \E j \in p.at .. Len(s) : s[j].value = r.value BY <1>1, <1>3 DEF Told, Or
<1>5. r.action # None => \E j \in 1 .. Len(s) : s[j].action = r.action BY <1>1 DEF Told, Or
<1>6. r.device # None => \E j \in 1 .. Len(s) : s[j].device = r.device BY <1>1 DEF Told, Or
<1>7. /\ s[p.at].action # None => r.action = s[p.at].action
      /\ s[p.at].device # None => r.device = s[p.at].device
  BY <1>1 DEF Told, Or
<1>8. Marked(s, r)
  <2>1. Marked(s, p) /\ Marked(s, c) BY DEF Told
  <2>2. Payload(r) => \E k \in p.at .. Len(s) : Payload(s[k]) BY <1>1, <1>3, <2>1 DEF Marked
  <2> QED BY <1>1, <2>2 DEF Marked
<1> QED BY <1>1, <1>4, <1>5, <1>6, <1>7, <1>8 DEF Told

\* Clauses in their order, up to the one numbered b.
Tale(s, d, b) ==
  /\ d \in Seq(Clauses)
  /\ \A i \in 1 .. Len(d) : Told(s, d[i]) /\ d[i].at <= b
  /\ \A i \in 1 .. Len(d) - 1 : d[i].at <= d[i + 1].at

LEMMA TaleGoesOn ==
  ASSUME NEW s, Len(s) \in Nat, NEW d, NEW b \in Nat, Tale(s, d, b), NEW x \in Clauses, Told(s, x), b <= x.at
  PROVE  Tale(s, Append(d, x), x.at)
<1> DEFINE k == Len(d)
           r == Append(d, x)
<1>1. /\ d \in Seq(Clauses) /\ k \in Nat
      /\ \A i \in 1 .. k : Told(s, d[i]) /\ d[i].at <= b
      /\ \A i \in 1 .. k - 1 : d[i].at <= d[i + 1].at
  BY DEF Tale
<1>2. r \in Seq(Clauses) /\ Len(r) = k + 1 /\ r[k + 1] = x /\ \A i \in 1 .. k : r[i] = d[i] BY <1>1
<1>3. x.at \in Nat /\ \A i \in 1 .. k : d[i].at \in Nat BY <1>1 DEF Told
<1> HIDE DEF k, r
<1>4. \A i \in 1 .. k + 1 : Told(s, r[i]) /\ r[i].at <= x.at
  <2> SUFFICES ASSUME NEW i \in 1 .. k + 1 PROVE Told(s, r[i]) /\ r[i].at <= x.at OBVIOUS
  <2>1. CASE i = k + 1 BY <1>2, <1>3, <2>1
  <2>2. CASE i # k + 1
    <3>1. i \in 1 .. k BY <1>1, <2>2
    <3> QED BY <1>1, <1>2, <1>3, <3>1
  <2> QED BY <2>1, <2>2
<1>5. \A i \in 1 .. k : r[i].at <= r[i + 1].at
  <2> SUFFICES ASSUME NEW i \in 1 .. k PROVE r[i].at <= r[i + 1].at OBVIOUS
  <2>1. CASE i = k BY <1>1, <1>2, <1>3, <2>1
  <2>2. CASE i # k
    <3>1. i \in 1 .. k - 1 /\ i + 1 \in 1 .. k BY <1>1, <2>2
    <3> QED BY <1>1, <1>2, <3>1
  <2> QED BY <2>1, <2>2
<1>6. Len(r) = k + 1 /\ Len(r) - 1 = k BY <1>1, <1>2
<1>7. Tale(s, r, x.at) BY <1>2, <1>4, <1>5, <1>6 DEF Tale
<1> QED BY <1>7 DEF r

LEMMA TaleIsBackfilled ==
  ASSUME NEW s, Len(s) \in Nat, NEW d, NEW b \in Nat, Tale(s, d, b), NEW c \in Clauses, Told(s, c), b <= c.at
  PROVE  Tale(s, Backfill(d, c), b)
<1> DEFINE r == Backfill(d, c)
<1>1. /\ d \in Seq(Clauses) /\ Len(d) \in Nat
      /\ \A i \in 1 .. Len(d) : d[i] \in Clauses /\ Told(s, d[i]) /\ d[i].at <= b
      /\ \A i \in 1 .. Len(d) - 1 : d[i].at <= d[i + 1].at
  BY DEF Tale
<1>2. /\ r \in Seq(Clauses) /\ Len(r) = Len(d)
      /\ \A i \in 1 .. Len(d) : r[i] = d[i] \/ r[i] = BackfillOne(d[i], c)
  BY <1>1, BackfillIs
<1> HIDE DEF r
<1>3. ASSUME NEW i \in 1 .. Len(d) PROVE Told(s, r[i]) /\ r[i].at = d[i].at
  <2>1. d[i] \in Clauses /\ Told(s, d[i]) /\ d[i].at <= b BY <1>1
  <2>2. d[i].at <= c.at
    <3>1. d[i].at \in Nat /\ c.at \in Nat BY <2>1 DEF Told
    <3> QED BY <2>1, <3>1
  <2>3. CASE r[i] = d[i] BY <2>1, <2>3
  <2>4. CASE r[i] = BackfillOne(d[i], c) BY <2>1, <2>2, <2>4, BackfilledIsTold
  <2> QED BY <1>2, <2>3, <2>4
<1>4. \A i \in 1 .. Len(d) - 1 : r[i].at <= r[i + 1].at
  <2> SUFFICES ASSUME NEW i \in 1 .. Len(d) - 1 PROVE r[i].at <= r[i + 1].at OBVIOUS
  <2>1. i \in 1 .. Len(d) /\ i + 1 \in 1 .. Len(d) BY <1>1
  <2> QED BY <1>1, <1>3, <2>1
<1> QED BY <1>1, <1>2, <1>3, <1>4 DEF Tale, r

\* Where the clauses that were looked at end.
End(m, q) == IF q = 0 THEN 0 ELSE m[q].at

SettledUpTo(s, acc, m, q) ==
  /\ acc \in Settled /\ Tale(s, acc.done, End(m, q))
  /\ acc.done # <<>> => Own(s, Last(acc.done))
  /\ acc.held # <<>> => /\ q >= 1 /\ Idle(m[q]) /\ acc.held = <<Head(acc.held)>>
                        /\ Head(acc.held) \in Clauses /\ Head(acc.held).at = m[q].at
                        /\ Told(s, Head(acc.held)) /\ Waiting(s, Head(acc.held))

LEMMA SettleTold ==
  ASSUME NEW s, Len(s) \in Nat, NEW m, HeardUpTo(s, m, Len(s)), NEW q \in 0 .. Len(m) - 1,
         NEW acc, SettledUpTo(s, acc, m, q)
  PROVE  SettledUpTo(s, Settle(acc, m[q + 1]), m, q + 1)
<1> DEFINE c == m[q + 1]
           joined == IF acc.held = <<>> THEN c ELSE Join(Head(acc.held), c)
           filled == IF acc.done = <<>> THEN joined ELSE ForwardFill(Last(acc.done), joined)
           r == Settle(acc, c)
<1>1. Len(m) \in Nat /\ q + 1 \in 1 .. Len(m) /\ c \in Clauses /\ Heard(s, c) /\ q \in Nat /\ q + 1 # 0
  BY DEF HeardUpTo
<1>2. End(m, q) \in Nat /\ End(m, q) <= c.at /\ c.at \in Nat
  <2>1. c.at \in Nat BY <1>1 DEF Heard
  <2>2. CASE q = 0 BY <2>1, <2>2 DEF End
  <2>3. CASE q # 0
    <3>1. q \in 1 .. Len(m) - 1 /\ q \in 1 .. Len(m) BY <1>1, <2>3
    <3>2. m[q].at < m[q + 1].at /\ m[q].at \in Nat BY <3>1 DEF HeardUpTo, Heard
    <3> QED BY <2>1, <2>3, <3>2 DEF End
  <2> QED BY <2>2, <2>3
<1>3. \/ joined = c
      \/ \E h \in Clauses : joined = Join(h, c) /\ Waiting(s, h) /\ h.at + 1 = c.at
  <2>1. CASE acc.held = <<>> BY <2>1
  <2>2. CASE acc.held # <<>>
    <3>1. q \in 1 .. Len(m) - 1 /\ Idle(m[q]) BY <1>1, <2>2 DEF SettledUpTo
    <3>2. m[q + 1].at = m[q].at + 1 BY <3>1 DEF HeardUpTo
    <3> QED BY <2>2, <3>2 DEF SettledUpTo
  <2> QED BY <2>1, <2>2
<1> HIDE DEF joined
<1>4. /\ joined \in Clauses /\ joined.at = c.at /\ Told(s, joined) /\ Own(s, joined)
      /\ ClauseType(joined) = "modifier" => Waiting(s, joined) /\ Idle(c)
  <2> HIDE DEF c
  <2> QED BY <1>1, <1>3, JoinedIsTold
<1>5. filled \in Clauses /\ Told(s, filled) /\ Own(s, filled) /\ filled.at = c.at
  <2>1. CASE acc.done = <<>> BY <1>4, <2>1
  <2>2. CASE acc.done # <<>>
    <3> DEFINE p == Last(acc.done)
    <3>1. Len(acc.done) \in 1 .. Len(acc.done) /\ acc.done \in Seq(Clauses) BY <2>2 DEF SettledUpTo, Tale
    <3>2. p \in Clauses /\ Told(s, p) /\ Own(s, p) /\ p.at <= End(m, q)
      BY <2>2, <3>1 DEF SettledUpTo, Tale, Last
    <3>3. p.at \in Nat BY <3>2 DEF Told
    <3>4. p.at <= joined.at BY <1>2, <1>4, <3>2, <3>3
    <3>5. filled = ForwardFill(p, joined) BY <2>2
    <3> HIDE DEF p, filled
    <3> QED BY <1>4, <3>2, <3>4, <3>5, FilledIsTold
  <2> QED BY <2>1, <2>2
<1>6. r = IF ClauseType(joined) = "modifier" THEN [held |-> <<joined>>, done |-> acc.done]
          ELSE [held |-> <<>>, done |-> Append(Backfill(acc.done, filled), filled)]
  BY DEF Settle, joined
<1>7. r \in Settled BY <1>1, SettleIs DEF SettledUpTo
<1>8. End(m, q + 1) = c.at BY <1>1 DEF End
<1> HIDE DEF filled, r, c
<1>9. CASE ClauseType(joined) = "modifier"
  <2>1. r.held = <<joined>> /\ r.done = acc.done BY <1>6, <1>9
  <2>2. Tale(s, r.done, c.at)
    <3>1. Tale(s, acc.done, End(m, q)) BY DEF SettledUpTo
    <3>2. \A i \in 1 .. Len(acc.done) : acc.done[i].at \in Nat BY <3>1 DEF Tale, Told
    <3>3. \A i \in 1 .. Len(acc.done) : acc.done[i].at <= c.at BY <1>2, <3>1, <3>2 DEF Tale
    <3> QED BY <2>1, <3>1, <3>3 DEF Tale
  <2>3. r.done # <<>> => Own(s, Last(r.done)) BY <2>1 DEF SettledUpTo
  <2>4. r.held # <<>> /\ Head(r.held) = joined BY <1>4, <2>1
  <2>5. q + 1 >= 1 BY <1>1
  <2> QED BY <1>4, <1>7, <1>8, <1>9, <2>1, <2>2, <2>3, <2>4, <2>5 DEF SettledUpTo, r, c
<1>10. CASE ClauseType(joined) # "modifier"
  <2> DEFINE back == Backfill(acc.done, filled)
  <2>1. r.held = <<>> /\ r.done = Append(back, filled) BY <1>6, <1>10
  <2>2. Tale(s, back, End(m, q)) BY <1>2, <1>5, TaleIsBackfilled DEF SettledUpTo
  <2> HIDE DEF back
  <2>3. Tale(s, Append(back, filled), filled.at) BY <1>2, <1>5, <2>2, TaleGoesOn
  <2>4. Last(r.done) = filled
    <3>1. back \in Seq(Clauses) BY <2>2 DEF Tale
    <3> QED BY <1>5, <2>1, <3>1 DEF Last
  <2> QED BY <1>5, <1>7, <1>8, <2>1, <2>3, <2>4 DEF SettledUpTo, r, c
<1> QED BY <1>9, <1>10

\* What Decompose makes of them.
LEMMA DecomposedIsTold ==
  ASSUME NEW s, IsSentence(s, Vocabulary)
  PROVE  Tale(s, Decompose(MergeSplit(Numbered(s))), Len(s))
<1> DEFINE m == MergeSplit(Numbered(s))
<1>1. HeardUpTo(s, m, Len(s)) /\ m \in Seq(Clauses) /\ Len(m) \in Nat /\ Len(s) \in Nat
  BY MergedIsHeard, NumberedIs DEF HeardUpTo
<1> HIDE DEF m
<1>2. PICK f \in [0 .. Len(m) -> Settled] :
            /\ f[0] = [held |-> <<>>, done |-> <<>>]
            /\ Decompose(m) = f[Len(m)].done \o f[Len(m)].held
            /\ \A q \in 1 .. Len(m) : f[q] = Settle(f[q - 1], m[q])
  BY <1>1, SettleFolds
<1> DEFINE T == {q \in 0 .. Len(m) : SettledUpTo(s, f[q], m, q)}
<1>3. 0 \in T
  <2>1. <<>> \in Seq(Clauses) /\ Len(<<>>) = 0 OBVIOUS
  <2>2. f[0] \in Settled /\ f[0].held = <<>> /\ f[0].done = <<>> BY <1>1, <1>2
  <2>3. Tale(s, f[0].done, End(m, 0)) BY <2>1, <2>2 DEF Tale
  <2>4. SettledUpTo(s, f[0], m, 0) BY <2>2, <2>3 DEF SettledUpTo
  <2> QED BY <1>1, <2>4
<1>4. ASSUME NEW q \in 0 .. Len(m) - 1, q \in T PROVE q + 1 \in T
  <2>1. q + 1 \in 1 .. Len(m) /\ q + 1 - 1 = q /\ q + 1 \in 0 .. Len(m) BY <1>1
  <2>2. f[q + 1] = Settle(f[q], m[q + 1]) BY <1>2, <2>1
  <2>3. SettledUpTo(s, Settle(f[q], m[q + 1]), m, q + 1) BY <1>1, <1>4, SettleTold
  <2> QED BY <2>1, <2>2, <2>3
<1>5. Len(m) \in T
  <2> HIDE DEF T
  <2>1. \A q \in 0 .. Len(m) : q \in T BY ONLY <1>1, <1>3, <1>4, Reaches
  <2> QED BY <1>1, <2>1
<1> DEFINE acc == f[Len(m)]
           b == End(m, Len(m))
<1>6. SettledUpTo(s, acc, m, Len(m)) /\ Decompose(m) = acc.done \o acc.held BY <1>2, <1>5
<1> HIDE DEF acc
<1>7. b \in Nat /\ b <= Len(s)
  <2>1. CASE Len(m) = 0 BY <1>1, <2>1 DEF End
  <2>2. CASE Len(m) # 0
    <3>1. Len(m) \in 1 .. Len(m) BY <1>1, <2>2
    <3>2. m[Len(m)].at \in 1 .. Len(s) BY <1>1, <3>1 DEF HeardUpTo, Heard
    <3> QED BY <1>1, <2>2, <3>2 DEF End
  <2> QED BY <2>1, <2>2
<1>8. Tale(s, acc.done, b) BY <1>6 DEF SettledUpTo
<1>9. Tale(s, Decompose(m), b)
  <2>1. CASE acc.held = <<>>
    <3>1. acc.done \in Seq(Clauses) BY <1>8 DEF Tale
    <3>2. acc.done \o acc.held = acc.done BY <2>1, <3>1
    <3> QED BY <1>6, <1>8, <3>2
  <2>2. CASE acc.held # <<>>
    <3> DEFINE h == Head(acc.held)
    <3>1. acc.held = <<h>> /\ h \in Clauses /\ h.at = b /\ Told(s, h)
      BY <1>1, <1>6, <2>2 DEF SettledUpTo, End
    <3> HIDE DEF h
    <3>2. acc.done \in Seq(Clauses) BY <1>8 DEF Tale
    <3>3. acc.done \o acc.held = Append(acc.done, h) BY <3>1, <3>2
    <3>4. b <= h.at BY <1>7, <3>1
    <3>5. Tale(s, Append(acc.done, h), h.at) BY <1>1, <1>7, <1>8, <3>1, <3>4, TaleGoesOn
    <3> QED BY <1>6, <3>1, <3>3, <3>5
  <2> QED BY <2>1, <2>2
<1> HIDE DEF b
<1>10. \A i \in 1 .. Len(Decompose(m)) : Decompose(m)[i].at <= Len(s)
  <2>1. \A i \in 1 .. Len(Decompose(m)) : Decompose(m)[i].at \in Nat BY <1>9 DEF Tale, Told
  <2> QED BY <1>1, <1>7, <1>9, <2>1 DEF Tale
<1> QED BY <1>9, <1>10 DEF Tale, m

-----------------------------------------------------------------------------
(***************************************************************************)
(* One clause is read.                                                     *)
(***************************************************************************)
Commands == [action : Terms, device : Terms, location : Terms, parameter : Terms, value : Terms,
             conf : Nat, at : Nat]

Contexts == [action : Terms, device : Terms, location : Terms]

\* x is what clause e says after what ctx was about.
ReadOf(x, e, ctx) ==
  /\ x \in Commands /\ x.at = e.at /\ x.value \in {None, e.value}
  /\ x.action # None /\ x.action = Or(e.action, ctx.action)
  /\ x.device # None
  /\ x.device = e.device \/ (e.device = None /\ x.device = DefaultDevice(x.action, x.parameter))
  /\ \/ x.location = e.location
     \/ /\ e.location = None /\ x.location = ctx.location
        /\ e.device = None \/ e.refers \/ e.device = ctx.device

LEMMA DefaultIs ==
  \A action, parameter : DefaultDevice(action, parameter) \in Terms /\ DefaultDevice(action, parameter) # None
BY DEF DefaultDevice, Terms, None

LEMMA SlotsAreRead ==
  ASSUME NEW c \in Clauses, NEW ctx \in Contexts
  PROVE  BySlots(c, ctx) = <<>> \/ \E x : BySlots(c, ctx) = <<x>> /\ ReadOf(x, c, ctx)
<1> DEFINE action == Or(c.action, ctx.action)
           location == IF Inherits(c, ctx) THEN ctx.location ELSE c.location
           parameter == IF c.parameter = "ratio" /\ Category(ctx.device) = "lights"
                        THEN "brightness" ELSE c.parameter
           device == Or(c.device, DefaultDevice(action, parameter))
           heard == IF parameter = c.parameter THEN c ELSE [c EXCEPT !.parameter = "brightness"]
           conf == IF Payload(c) THEN 93 ELSE 90
           x == Command(heard, action, device, location, conf)
<1>1. BySlots(c, ctx) = <<>> \/ (action # None /\ BySlots(c, ctx) = <<x>>)
  BY DEF BySlots, NoCommand
<1>2. /\ action \in Terms /\ location \in Terms /\ parameter \in Terms /\ conf \in Nat
      /\ c.parameter \in Terms /\ c.value \in Terms /\ c.at \in Nat /\ c.device \in Terms
  BY DEF Clauses, Wording, Contexts, Or, Terms
<1>3. /\ device \in Terms /\ device # None
      /\ device = c.device \/ (c.device = None /\ device = DefaultDevice(action, parameter))
  <2> HIDE DEF action, parameter
  <2> QED BY <1>2, DefaultIs DEF Or
<1>4. heard.parameter = parameter /\ heard.value = c.value /\ heard.at = c.at
  BY DEF Clauses, Wording
<1>5. location = c.location \/ (c.location = None /\ location = ctx.location
                               /\ (c.device = None \/ c.refers \/ c.device = ctx.device))
  BY DEF Inherits
<1> HIDE DEF action, location, parameter, device, heard, conf
<1>6. /\ x \in Commands /\ x.action = action /\ x.device = device /\ x.location = location
      /\ x.parameter = parameter /\ x.value = c.value /\ x.at = c.at
  BY <1>2, <1>3, <1>4 DEF Command, Commands
<1>7. action # None => ReadOf(x, c, ctx)
  <2> HIDE DEF x
  <2> QED BY <1>3, <1>5, <1>6 DEF ReadOf, action
<1> HIDE DEF x
<1> QED BY <1>1, <1>7

LEMMA PatternIsRead ==
  ASSUME NEW c \in Clauses, NEW ctx \in Contexts
  PROVE  ByPattern(c) = <<>> \/ \E x : ByPattern(c) = <<x>> /\ ReadOf(x, c, ctx)
<1> DEFINE x == Command(c, c.action, c.device, c.location, 95)
<1>1. ByPattern(c) = <<>> \/ (c.device # None /\ c.action \in {"open", "close"} /\ ByPattern(c) = <<x>>)
  BY DEF ByPattern, NoCommand, Implausible
<1>2. /\ c.action \in Terms /\ c.device \in Terms /\ c.location \in Terms /\ 95 \in Nat
      /\ c.parameter \in Terms /\ c.value \in Terms /\ c.at \in Nat
  BY DEF Clauses, Wording
<1>3. /\ x \in Commands /\ x.action = c.action /\ x.device = c.device /\ x.location = c.location
      /\ x.parameter = c.parameter /\ x.value = c.value /\ x.at = c.at
  BY <1>2 DEF Command, Commands
<1>4. c.action \in {"open", "close"} => c.action # None BY DEF None
<1> HIDE DEF x
<1> QED BY <1>1, <1>3, <1>4 DEF ReadOf, Or

LEMMA SingleIsRead ==
  ASSUME NEW c \in Clauses, NEW ctx \in Contexts
  PROVE  ParseSingle(c, ctx) = <<>> \/ \E x : ParseSingle(c, ctx) = <<x>> /\ ReadOf(x, c, ctx)
BY SlotsAreRead, PatternIsRead DEF ParseSingle, NoCommand

\* What names its action and its device is read as a whole, unless for words that are
\* left over or for its number.
Unread(c) == c.action # None /\ c.device # None => c.noise \/ Payload(c)

LEMMA UnreadIs ==
  ASSUME NEW c \in Clauses, NEW ctx \in Contexts, ParseSingle(c, ctx) = <<>>
  PROVE  Unread(c)
<1>1. BySlots(c, ctx) = <<>> BY DEF ParseSingle, NoCommand
<1>2. Noisy(c) \/ Or(c.action, ctx.action) = None \/ Implausible(Or(c.action, ctx.action), c)
      \/ (c.bound /\ c.device = None)
  BY <1>1 DEF BySlots, NoCommand
<1>3. Noisy(c) => c.noise \/ Payload(c) BY DEF Noisy, Payload, None
<1> QED BY <1>2, <1>3 DEF Unread, Or, Implausible

-----------------------------------------------------------------------------
(***************************************************************************)
(* What is recovered from a clause that cannot be read.                    *)
(***************************************************************************)
LEMMA ImageIsFinite ==
  ASSUME NEW S, IsFiniteSet(S), NEW f
  PROVE  IsFiniteSet({f[x] : x \in S})
<1> DEFINE T == {f[x] : x \in S}
           g == [x \in S |-> f[x]]
<1>1. g \in Surjection(S, T) BY DEF Surjection
<1> HIDE DEF g, T
<1>2. IsFiniteSet(T) BY ONLY <1>1, IsFiniteSet(S), FS_Surjection
<1> QED BY <1>2 DEF T

\* The parts of a clause are stretches of it, no two of them the same.
Apart(S) ==
  /\ \A a \in S : a.from \in Nat /\ a.to \in Nat /\ a.from < a.to
  /\ \A a, b \in S : a.from = b.from /\ a.to = b.to => a = b

\* A part that is read for clause c: of one without spans all of it, or what stands
\* behind a brightness that was cut off, or less if its place would be inherited.
PartOf(e, c, ctx) ==
  /\ e \in Clauses /\ e.at = c.at
  /\ \/ /\ c.spans = <<>> /\ c.action # None
        /\ e.action = c.action /\ e.value \in {None, c.value} /\ ~e.refers
        /\ \/ e.location = c.location /\ e.device = c.device
           \/ c.parameter = "brightness" /\ ~c.ahead /\ e.location = None /\ e.device = None
           \/ /\ c.location = None /\ e.location = None /\ e.device \in {None, c.device}
              /\ ctx.location # None /\ c.device \in {None, ctx.device}
     \/ \E span \in ToSet(c.spans) : /\ e.action = span.clause.action /\ e.location = span.clause.location
                                     /\ e.device = span.clause.device

LEMMA StretchIs ==
  ASSUME NEW c \in Clauses, NEW r, r = Stretch(c)
  PROVE  /\ r \in Clauses /\ r.action = c.action /\ r.at = c.at
         /\ r.value \in {None, c.value} /\ ~r.refers
         /\ \/ r.location = c.location /\ r.device = c.device
            \/ c.parameter = "brightness" /\ ~c.ahead /\ r.location = None /\ r.device = None
<1> DEFINE q == Rendered(c)
           lost == [q EXCEPT !.device = None, !.location = None,
                             !.parameter = IF c.value # None THEN "ratio" ELSE None]
           skipped == [q EXCEPT !.owned = c.owned,
                                !.parameter = IF @ = "brightness" THEN None ELSE @]
           kept == IF c.parameter = "brightness" /\ ~c.ahead THEN lost ELSE skipped
<1>1. /\ q \in Clauses /\ q.action = c.action /\ q.location = c.location /\ q.device = c.device
      /\ q.value = c.value /\ q.at = c.at /\ ~q.refers
  BY RenderedIs
<1>2. r = IF Implausible(c.action, c) THEN [kept EXCEPT !.parameter = None, !.value = None] ELSE kept
  BY DEF Stretch
<1> HIDE DEF q
<1>3. None \in Terms /\ "ratio" \in Terms BY DEF Terms
<1>4. CASE c.parameter = "brightness" /\ ~c.ahead
  <2>1. kept = lost BY <1>4
  <2> DEFINE parameter == IF c.value # None THEN "ratio" ELSE None
  <2>2. parameter \in Terms BY <1>3
  <2>3. lost = [q EXCEPT !.device = None, !.location = None, !.parameter = parameter] OBVIOUS
  <2> HIDE DEF parameter, lost, kept
  <2>4. /\ kept \in Clauses /\ kept.action = c.action /\ kept.at = c.at /\ kept.value = c.value /\ ~kept.refers
        /\ kept.location = None /\ kept.device = None
    BY <1>1, <1>3, <2>1, <2>2, <2>3 DEF Clauses, Wording
  <2> QED BY <1>2, <1>3, <1>4, <2>4 DEF Clauses, Wording
<1>5. CASE ~(c.parameter = "brightness" /\ ~c.ahead)
  <2>1. kept = skipped BY <1>5
  <2> DEFINE parameter == IF q.parameter = "brightness" THEN None ELSE q.parameter
  <2>2. parameter \in Terms /\ c.owned \in BOOLEAN BY <1>1, <1>3 DEF Clauses, Wording
  <2>3. skipped = [q EXCEPT !.owned = c.owned, !.parameter = parameter] OBVIOUS
  <2> HIDE DEF parameter, skipped, kept
  <2>4. /\ kept \in Clauses /\ kept.action = c.action /\ kept.at = c.at /\ kept.value = c.value /\ ~kept.refers
        /\ kept.location = c.location /\ kept.device = c.device
    BY <1>1, <2>1, <2>2, <2>3 DEF Clauses, Wording
  <2> QED BY <1>2, <1>3, <2>4 DEF Clauses, Wording
<1> QED BY <1>4, <1>5

LEMMA ReadingIs ==
  ASSUME NEW c \in Clauses, c.spans = <<>>, c.action # None, NEW ctx \in Contexts, NEW r, r = Reading(c, ctx)
  PROVE  PartOf(r, c, ctx)
<1> DEFINE whole == Stretch(c)
<1>1. /\ whole \in Clauses /\ whole.action = c.action /\ whole.at = c.at
      /\ whole.value \in {None, c.value} /\ ~whole.refers
      /\ \/ whole.location = c.location /\ whole.device = c.device
         \/ c.parameter = "brightness" /\ ~c.ahead /\ whole.location = None /\ whole.device = None
  BY StretchIs
<1>2. \/ ~Inherits(whole, ctx) /\ r = whole
      \/ /\ Inherits(whole, ctx)
         /\ \/ \E device \in {None, whole.device} : r = [whole EXCEPT !.parameter = None, !.device = device]
            \/ r = [Silent EXCEPT !.action = c.action, !.at = c.at]
  BY DEF Reading
<1> HIDE DEF whole
<1>3. CASE r = whole BY <1>1, <1>3 DEF PartOf
<1>4. ASSUME Inherits(whole, ctx), r \in Clauses, r.action = c.action, r.at = c.at, r.value \in {None, c.value},
             ~r.refers, r.location = None, r.device \in {None, whole.device}
      PROVE  PartOf(r, c, ctx)
  <2>1. whole.location = None /\ ctx.location # None /\ whole.device \in {None, ctx.device}
    BY <1>1, <1>4 DEF Inherits
  <2> QED BY <1>1, <1>4, <2>1 DEF PartOf
<1>5. ASSUME Inherits(whole, ctx), NEW device \in {None, whole.device},
             r = [whole EXCEPT !.parameter = None, !.device = device]
      PROVE  PartOf(r, c, ctx)
  <2>1. None \in Terms /\ device \in Terms BY <1>1 DEF Clauses, Wording, Terms
  <2>2. /\ r \in Clauses /\ r.action = whole.action /\ r.at = whole.at /\ r.value = whole.value
        /\ r.refers = whole.refers /\ r.location = whole.location /\ r.device = device
    BY <1>1, <1>5, <2>1 DEF Clauses, Wording
  <2>3. whole.location = None BY <1>5 DEF Inherits
  <2> QED BY <1>1, <1>4, <1>5, <2>2, <2>3
<1>6. ASSUME Inherits(whole, ctx), r = [Silent EXCEPT !.action = c.action, !.at = c.at]
      PROVE  PartOf(r, c, ctx)
  <2>1. None \in Terms /\ c.action \in Terms /\ c.at \in Nat /\ <<>> \in Seq(Part(Vocabulary))
    BY DEF Clauses, Wording, Terms
  <2>2. /\ r \in Clauses /\ r.action = c.action /\ r.at = c.at /\ r.value = None
        /\ ~r.refers /\ r.location = None /\ r.device = None
    BY <1>6, <2>1 DEF Silent, Clauses, Wording
  <2> QED BY <1>4, <1>6, <2>2
<1> QED BY <1>2, <1>3, <1>5, <1>6

LEMMA SpansAre ==
  ASSUME NEW c \in Clauses, Apart(ToSet(c.spans)), NEW ctx \in Contexts, NEW S, S = Spans(c, ctx)
  PROVE  /\ Apart(S) /\ IsFiniteSet(S) /\ \A t \in S : PartOf(t.clause, c, ctx)
         /\ c.spans = <<>> => \A t, u \in S : t = u
<1>1. CASE c.spans # <<>>
  <2> DEFINE f == [t \in ToSet(c.spans) |-> [t EXCEPT !.clause.at = c.at]]
             sp == c.spans
             W == {u \in ToSet(c.spans) : ~Inherits(u.clause, ctx)}
  <2>1. sp \in Seq(Part(Vocabulary)) /\ c.at \in Nat BY DEF Clauses, Wording
  <2>2. Len(sp) \in Nat /\ DOMAIN sp = 1 .. Len(sp) /\ \A i \in 1 .. Len(sp) : sp[i] \in Part(Vocabulary)
    BY <2>1
  <2>3. S = {f[t] : t \in W} BY <1>1 DEF Spans
  <2>4. IsFiniteSet(W)
    <3>1. IsFiniteSet(1 .. Len(sp)) BY <2>2, FS_Interval
    <3>2. ToSet(sp) = {sp[i] : i \in 1 .. Len(sp)} BY <2>2 DEF ToSet
    <3>3. IsFiniteSet(ToSet(sp)) BY <3>1, <3>2, ImageIsFinite
    <3>4. W \subseteq ToSet(sp) OBVIOUS
    <3> HIDE DEF W, sp
    <3> QED BY <3>3, <3>4, FS_Subset
  <2>5. IsFiniteSet(S)
    <3> HIDE DEF f, W
    <3>1. IsFiniteSet({f[t] : t \in W}) BY <2>4, ImageIsFinite
    <3> QED BY <2>3, <3>1
  <2>6. ASSUME NEW t \in ToSet(sp)
        PROVE  f[t].from = t.from /\ f[t].to = t.to /\ PartOf(f[t].clause, c, ctx)
    <3>1. t \in Part(Vocabulary) BY <2>2, <2>6 DEF ToSet
    <3>2. t.clause \in Wording(Vocabulary, {<<>>}) BY <3>1 DEF Part
    <3>3. t.clause \in Clauses
      <4>1. Vocabulary \subseteq Terms /\ <<>> \in Seq(Part(Vocabulary)) BY DEF Terms
      <4> HIDE DEF f, sp
      <4> QED BY <3>2, <4>1 DEF Wording, Clauses
    <3>4. f[t].from = t.from /\ f[t].to = t.to /\ f[t].clause = [t.clause EXCEPT !.at = c.at]
      BY <2>6, <3>1 DEF Part
    <3>5. /\ f[t].clause \in Clauses /\ f[t].clause.at = c.at /\ f[t].clause.action = t.clause.action
          /\ f[t].clause.location = t.clause.location /\ f[t].clause.device = t.clause.device
      BY <2>1, <3>3, <3>4, RenumberedIs
    <3> HIDE DEF f
    <3> QED BY <2>6, <3>4, <3>5 DEF PartOf
  <2> HIDE DEF f
  <2>8. \A t \in W : t \in ToSet(sp) OBVIOUS
  <2> HIDE DEF W
  <2>7. Apart(S) BY <2>3, <2>6, <2>8 DEF Apart
  <2>9. \A t \in S : PartOf(t.clause, c, ctx) BY <2>3, <2>6, <2>8
  <2> QED BY <1>1, <2>5, <2>7, <2>9
<1>2. CASE c.spans = <<>> /\ c.action # None
  <2> DEFINE e == Reading(c, ctx)
  <2>1. S = {[from |-> 0, to |-> 9, clause |-> e]} BY <1>2 DEF Spans
  <2>2. PartOf(e, c, ctx) BY <1>2, ReadingIs
  <2> HIDE DEF e
  <2>3. IsFiniteSet(S) BY <2>1, FS_Singleton
  <2> QED BY <2>1, <2>2, <2>3 DEF Apart
<1>3. CASE c.spans = <<>> /\ c.action = None
  <2>1. S = {} BY <1>3 DEF Spans
  <2> QED BY <2>1, FS_EmptySet DEF Apart
<1> QED BY <1>1, <1>2, <1>3

\* What can be chosen from.
Offered(S) ==
  /\ IsFiniteSet(S) /\ Apart(S) /\ \A a \in S : a.command \in Commands

LEMMA CandidatesAre ==
  ASSUME NEW c \in Clauses, Apart(ToSet(c.spans)), NEW ctx \in Contexts, NEW S, S = Candidates(c, ctx)
  PROVE  /\ Offered(S) /\ \A a \in S : \E e : PartOf(e, c, ctx) /\ ReadOf(a.command, e, ctx)
         /\ c.spans = <<>> => \A a, b \in S : a = b
<1> DEFINE spans == Spans(c, ctx)
           readable == {t \in spans : /\ ParseSingle(t.clause, ctx) # NoCommand
                                      /\ ~Implausible(Head(ParseSingle(t.clause, ctx)).action,
                                                      Head(ParseSingle(t.clause, ctx)))}
           f == [t \in readable |-> [from |-> t.from, to |-> t.to, command |-> Head(ParseSingle(t.clause, ctx))]]
<1>1. /\ Apart(spans) /\ IsFiniteSet(spans) /\ \A t \in spans : PartOf(t.clause, c, ctx)
      /\ c.spans = <<>> => \A t, u \in spans : t = u
  BY SpansAre
<1> HIDE DEF spans
<1>2. S = {f[t] : t \in readable} BY DEF Candidates, spans
<1>3. IsFiniteSet(readable) BY <1>1, FS_Subset
<1>4. ASSUME NEW t \in readable
      PROVE  /\ f[t].from = t.from /\ f[t].to = t.to /\ t \in spans
             /\ PartOf(t.clause, c, ctx) /\ ReadOf(f[t].command, t.clause, ctx)
  <2>1. t \in spans /\ PartOf(t.clause, c, ctx) /\ t.clause \in Clauses /\ ParseSingle(t.clause, ctx) # <<>>
    BY <1>1 DEF PartOf, NoCommand
  <2>2. PICK x : ParseSingle(t.clause, ctx) = <<x>> /\ ReadOf(x, t.clause, ctx) BY <2>1, SingleIsRead
  <2>3. f[t].command = x BY <2>2
  <2> QED BY <2>1, <2>2, <2>3
<1>5. IsFiniteSet(S)
  <2> HIDE DEF f, readable
  <2> QED BY <1>2, <1>3, ImageIsFinite
<1> HIDE DEF f, readable
<1>6. Apart(S) BY <1>1, <1>2, <1>4 DEF Apart
<1>7. \A a \in S : a.command \in Commands BY <1>2, <1>4 DEF ReadOf
<1> QED BY <1>1, <1>2, <1>4, <1>5, <1>6, <1>7 DEF Offered

LEMMA ScoreIs ==
  ASSUME NEW a, a.from \in Nat, a.to \in Nat, a.command \in Commands
  PROVE  Score(a) \in Int
<1> DEFINE S == {a.to - a.from, 16}
<1>1. \E x \in S : \A y \in S : x <= y
  <2>1. CASE a.to - a.from <= 16 BY <2>1
  <2>2. CASE ~(a.to - a.from <= 16) BY <2>2
  <2> QED BY <2>1, <2>2
<1>2. Min(S) \in S BY <1>1 DEF Min
<1>3. Min(S) \in Int BY <1>2
<1>4. a.command.conf \in Int BY DEF Commands
<1> HIDE DEF S
<1> QED BY <1>3, <1>4 DEF Score, S

\* Of some candidates one is behind all others.
LEMMA LastExists ==
  ASSUME NEW W, Offered(W)
  PROVE  \A S \in SUBSET W : S # {} => Behind(S) \in S /\ \A a \in S \ {Behind(S)} : Before(a, Behind(S))
<1>1. \A a \in W : a.from \in Nat /\ a.to \in Nat /\ Score(a) \in Int BY ScoreIs DEF Offered, Apart
<1>2. \A a, b \in W : a # b => Before(a, b) \/ Before(b, a)
  BY <1>1 DEF Offered, Apart, Before
<1>3. \A a, b, d \in W : Before(a, b) /\ Before(b, d) => Before(a, d)
  BY <1>1 DEF Before
<1> DEFINE n == Cardinality(W)
           Has(S) == \E b \in S : \A a \in S \ {b} : Before(a, b)
           T == {k \in 0 .. n : \A S \in SUBSET W : S # {} /\ Cardinality(S) <= k => Has(S)}
<1>4. \A S \in SUBSET W : IsFiniteSet(S) /\ Cardinality(S) \in Nat /\ Cardinality(S) <= n
                          /\ (Cardinality(S) = 0 <=> S = {})
  BY FS_Subset, FS_CardinalityType, FS_EmptySet DEF Offered
<1>5. n \in Nat BY FS_CardinalityType DEF Offered
<1>6. 0 \in T BY <1>4, <1>5
<1>7. ASSUME NEW k \in 0 .. n - 1, k \in T PROVE k + 1 \in T
  <2> SUFFICES ASSUME NEW S \in SUBSET W, S # {}, Cardinality(S) <= k + 1 PROVE Has(S) BY <1>5
  <2>1. PICK e \in S : TRUE OBVIOUS
  <2>2. CASE S = {e} BY <2>2
  <2>3. CASE S # {e}
    <3>1. S \ {e} # {} /\ S \ {e} \in SUBSET W BY <2>3
    <3>2. Cardinality(S \ {e}) = Cardinality(S) - 1 BY <1>4, <2>1, FS_RemoveElement
    <3>3. Cardinality(S \ {e}) <= k BY <1>4, <3>2
    <3>4. Has(S \ {e}) BY <1>7, <3>1, <3>3
    <3>5. PICK b \in S \ {e} : \A a \in (S \ {e}) \ {b} : Before(a, b) BY <3>4
    <3>6. CASE Before(b, e)
      <4>1. \A a \in S \ {e} : Before(a, e) BY <1>3, <3>5, <3>6
      <4> QED BY <2>1, <4>1
    <3>7. CASE Before(e, b)
      <4>1. \A a \in S \ {b} : Before(a, b) BY <3>5, <3>7
      <4> QED BY <3>5, <4>1
    <3> QED BY <1>2, <2>1, <3>5, <3>6, <3>7
  <2> QED BY <2>2, <2>3
<1>8. n \in T
  <2> HIDE DEF T, n
  <2>1. \A k \in 0 .. n : k \in T BY ONLY <1>5, <1>6, <1>7, Reaches
  <2> QED BY <1>5, <2>1
<1>9. \A S \in SUBSET W : S # {} => Has(S) BY <1>4, <1>8
<1> QED BY <1>9 DEF Behind

\* What was chosen of S: nothing twice and nothing that overlaps, in order, and
\* as much of it as can be.
Picked(q, S) ==
  /\ q \in Seq(S)
  /\ \A i, j \in DOMAIN q : i < j => q[i].to <= q[j].from
  /\ \A o \in S : o \notin ToSet(q) =>
        \E i \in DOMAIN q : Overlap(q[i], o) \/ Signature(q[i].command) = Signature(o.command)

LEMMA PickedGoesOn ==
  ASSUME NEW W, Offered(W), NEW S \in SUBSET W, S # {}, NEW q, Picked(q, S \ {Behind(S)})
  PROVE  Picked(Choose(Behind(S), q), S)
<1> DEFINE b == Behind(S)
           k == Len(q)
           clash(a) == Overlap(a, b) \/ Signature(a.command) = Signature(b.command)
<1>1. b \in S /\ \A a \in S \ {b} : Before(a, b) BY LastExists
<1>2. \A a \in S : a.from \in Nat /\ a.to \in Nat /\ a.from < a.to BY DEF Offered, Apart
<1> HIDE DEF b
<1>3. /\ q \in Seq(S) /\ k \in Nat /\ DOMAIN q = 1 .. k /\ \A i \in 1 .. k : q[i] \in S \ {b}
      /\ \A i, j \in 1 .. k : i < j => q[i].to <= q[j].from
      /\ ToSet(q) = {q[i] : i \in 1 .. k}
      /\ \A o \in S \ {b} : o \notin ToSet(q) =>
           \E i \in 1 .. k : Overlap(q[i], o) \/ Signature(q[i].command) = Signature(o.command)
  <2>1. q \in Seq(S \ {b}) BY DEF Picked, b
  <2> QED BY <2>1 DEF Picked, b, ToSet
<1>4. CASE \E i \in 1 .. k : clash(q[i])
  <2>1. Choose(b, q) = q BY <1>3, <1>4 DEF Choose
  <2> QED BY <1>3, <1>4, <2>1 DEF Picked, b
<1>5. CASE ~(\E i \in 1 .. k : clash(q[i]))
  <2> DEFINE r == Append(q, b)
  <2>1. Choose(b, q) = r BY <1>3, <1>5 DEF Choose
  <2>2. r \in Seq(S) /\ Len(r) = k + 1 /\ DOMAIN r = 1 .. k + 1 /\ r[k + 1] = b /\ \A i \in 1 .. k : r[i] = q[i]
    BY <1>1, <1>3
  <2> HIDE DEF r
  <2>3. ASSUME NEW i \in 1 .. k PROVE q[i].to <= b.from
    <3>1. q[i] \in S \ {b} /\ ~Overlap(q[i], b) BY <1>3, <1>5
    <3>2. q[i].from <= b.from BY <1>1, <1>2, <3>1 DEF Before
    <3> QED BY <1>1, <1>2, <3>1, <3>2 DEF Overlap
  <2>4. ASSUME NEW i \in 1 .. k + 1, NEW j \in 1 .. k + 1, i < j PROVE r[i].to <= r[j].from
    <3>1. i \in 1 .. k /\ r[i] = q[i] BY <1>3, <2>2, <2>4
    <3>2. CASE j = k + 1 BY <2>2, <2>3, <3>1, <3>2
    <3>3. CASE j # k + 1
      <4>1. j \in 1 .. k /\ r[j] = q[j] BY <1>3, <2>2, <3>3
      <4> QED BY <1>3, <2>4, <3>1, <4>1
    <3> QED BY <3>2, <3>3
  <2>5. \A i \in 1 .. k : i \in 1 .. k + 1 BY <1>3
  <2>6. b \in ToSet(r) /\ \A o \in ToSet(q) : o \in ToSet(r)
    <3>1. k + 1 \in 1 .. k + 1 BY <1>3
    <3> QED BY <1>3, <2>2, <2>5, <3>1 DEF ToSet
  <2>7. ASSUME NEW o \in S, o \notin ToSet(r)
        PROVE  \E i \in 1 .. k + 1 : Overlap(r[i], o) \/ Signature(r[i].command) = Signature(o.command)
    <3>1. o \in S \ {b} /\ o \notin ToSet(q) BY <2>6, <2>7
    <3>2. PICK i \in 1 .. k : Overlap(q[i], o) \/ Signature(q[i].command) = Signature(o.command)
      BY <1>3, <3>1
    <3> QED BY <2>2, <2>5, <3>2
  <2> QED BY <2>1, <2>2, <2>4, <2>7 DEF Picked, b
<1> QED BY <1>4, <1>5

LEMMA SelectedIsPicked ==
  ASSUME NEW W, Offered(W)
  PROVE  Picked(SelectRecovery(W), W)
<1> DEFINE A == Seq(W)
           G == [p \in W \X A |-> Choose(p[1], p[2])]
           ch == [S \in SUBSET W |-> Behind(S)]
           R(h) == h = [S \in SUBSET W |-> IF S = {} THEN <<>> ELSE Choose(Behind(S), h[S \ {Behind(S)}])]
           g == CHOOSE h : R(h)
           n == Cardinality(W)
           T == {k \in 0 .. n : \A S \in SUBSET W : Cardinality(S) <= k => Picked(g[S], S)}
<1>1. IsFiniteSet(W) BY DEF Offered
<1>2. \A S \in SUBSET W : S # {} => Behind(S) \in S BY LastExists
<1>3. NextOf(ch, W) BY <1>2 DEF NextOf
<1>4. G \in [W \X A -> A]
  <2>1. ASSUME NEW a \in W, NEW q \in A PROVE Choose(a, q) \in A BY DEF Choose
  <2> QED BY <2>1
<1>5. \E h : R(h)
  <2>1. <<>> \in A OBVIOUS
  <2>2. \E h : IsFold(h, W, A, <<>>, G, ch)
    <3> HIDE DEF A, G, ch
    <3> QED BY <1>1, <1>3, <1>4, <2>1, FoldExists
  <2>3. PICK h : IsFold(h, W, A, <<>>, G, ch) BY <2>2
  <2>4. ASSUME NEW S \in SUBSET W, S # {} PROVE h[S] = Choose(Behind(S), h[S \ {Behind(S)}])
    <3>1. h[S \ {Behind(S)}] \in A BY <2>3 DEF IsFold
    <3>2. h[S] = G[<<Behind(S), h[S \ {Behind(S)}]>>] BY <2>3, <2>4 DEF IsFold
    <3>3. Behind(S) \in W BY <1>2, <2>4
    <3> QED BY <3>1, <3>2, <3>3
  <2> HIDE DEF G, ch
  <2>5. R(h) BY <2>3, <2>4 DEF IsFold
  <2> QED BY <2>5
<1>6. R(g)
  <2> HIDE DEF R
  <2> QED BY <1>5
<1>7. SelectRecovery(W) = g[W] BY DEF SelectRecovery, MapThenFoldSet
<1> HIDE DEF g
<1>8. \A S \in SUBSET W : IsFiniteSet(S) /\ Cardinality(S) \in Nat /\ Cardinality(S) <= n
                          /\ (Cardinality(S) = 0 <=> S = {})
  BY <1>1, FS_Subset, FS_CardinalityType, FS_EmptySet
<1>9. n \in Nat BY <1>1, FS_CardinalityType
<1>10. Picked(g[{}], {})
  <2>1. g[{}] = <<>> BY <1>6
  <2> QED BY <2>1 DEF Picked
<1>11. 0 \in T BY <1>8, <1>9, <1>10
<1>12. ASSUME NEW k \in 0 .. n - 1, k \in T PROVE k + 1 \in T
  <2> SUFFICES ASSUME NEW S \in SUBSET W, Cardinality(S) <= k + 1 PROVE Picked(g[S], S) BY <1>9
  <2>1. CASE S = {} BY <1>10, <2>1
  <2>2. CASE S # {}
    <3>1. Behind(S) \in S /\ S \ {Behind(S)} \in SUBSET W BY <1>2, <2>2
    <3>2. Cardinality(S \ {Behind(S)}) = Cardinality(S) - 1 BY <1>8, <3>1, FS_RemoveElement
    <3>3. Cardinality(S \ {Behind(S)}) <= k BY <1>8, <3>2
    <3>4. Picked(g[S \ {Behind(S)}], S \ {Behind(S)}) BY <1>12, <3>1, <3>3
    <3>5. g[S] = Choose(Behind(S), g[S \ {Behind(S)}]) BY <1>6, <2>2
    <3> HIDE DEF R, T
    <3> QED BY <2>2, <3>4, <3>5, PickedGoesOn
  <2> QED BY <2>1, <2>2
<1>13. n \in T
  <2> HIDE DEF T, n
  <2>1. \A k \in 0 .. n : k \in T BY ONLY <1>9, <1>11, <1>12, Reaches
  <2> QED BY <1>9, <2>1
<1>14. Picked(g[W], W) BY <1>8, <1>13
<1> QED BY <1>7, <1>14

\* Of what is recovered from a clause nothing overlaps, and nothing more could
\* have been taken (_select_recovery_candidates).
LEMMA MostIsRecovered ==
  ASSUME NEW c \in Clauses, Apart(ToSet(c.spans))
  PROVE  RecoversMost(c)
<1>1. Fresh \in Contexts BY DEF Fresh, Contexts, Terms
<1>2. Offered(Candidates(c, Fresh)) BY <1>1, CandidatesAre
<1>3. Picked(SelectRecovery(Candidates(c, Fresh)), Candidates(c, Fresh)) BY <1>2, SelectedIsPicked
<1> QED BY <1>3 DEF RecoversMost, Picked

\* x is read from clause c, or from a part of it if that cannot be read as a whole.
ReadFrom(x, c, ctx) == \E e : ReadOf(x, e, ctx) /\ (e = c \/ (PartOf(e, c, ctx) /\ Unread(c)))

LEMMA ClauseIsRead ==
  ASSUME NEW c \in Clauses, Apart(ToSet(c.spans)), NEW ctx \in Contexts, NEW r, r = ParseClause(c, ctx)
  PROVE  /\ r \in Seq(Commands)
         /\ \A i \in 1 .. Len(r) : ReadFrom(r[i], c, ctx)
         /\ c.spans = <<>> => Len(r) <= 1
<1>1. CASE ParseSingle(c, ctx) # <<>>
  <2>1. PICK x : ParseSingle(c, ctx) = <<x>> /\ ReadOf(x, c, ctx) BY <1>1, SingleIsRead
  <2>2. r = <<x>> BY <2>1 DEF ParseClause, NoCommand
  <2>3. x \in Commands BY <2>1 DEF ReadOf
  <2>4. ReadFrom(x, c, ctx) BY <2>1 DEF ReadFrom
  <2> QED BY <2>2, <2>3, <2>4
<1>2. CASE ParseSingle(c, ctx) = <<>>
  <2> DEFINE W == Candidates(c, ctx)
             q == SelectRecovery(W)
  <2>8. /\ Offered(W) /\ \A a \in W : \E e : PartOf(e, c, ctx) /\ ReadOf(a.command, e, ctx)
        /\ c.spans = <<>> => \A a, b \in W : a = b
    BY CandidatesAre
  <2>9. Unread(c) BY <1>2, UnreadIs
  <2>1. /\ Offered(W) /\ \A a \in W : ReadFrom(a.command, c, ctx)
        /\ c.spans = <<>> => \A a, b \in W : a = b
    BY <2>8, <2>9 DEF ReadFrom
  <2>2. r = [i \in DOMAIN q |-> q[i].command] BY <1>2 DEF ParseClause, Recover, NoCommand
  <2> HIDE DEF W
  <2>3. Picked(q, W) BY <2>1, SelectedIsPicked
  <2> HIDE DEF q
  <2>4. q \in Seq(W) /\ \A i, j \in DOMAIN q : i < j => q[i].to <= q[j].from BY <2>3 DEF Picked
  <2>5. Len(q) \in Nat /\ DOMAIN q = 1 .. Len(q) /\ \A i \in 1 .. Len(q) : q[i] \in W BY <2>4
  <2>6. r \in Seq(Commands) /\ Len(r) = Len(q) /\ \A i \in 1 .. Len(q) : r[i] = q[i].command
    BY <2>1, <2>2, <2>5 DEF Offered
  <2>7. ASSUME c.spans = <<>>, ~(Len(r) <= 1) PROVE FALSE
    <3>1. 1 \in 1 .. Len(q) /\ 2 \in 1 .. Len(q) BY <2>5, <2>6, <2>7
    <3>2. q[1] = q[2] /\ q[1] \in W /\ q[1].to <= q[2].from BY <2>1, <2>4, <2>5, <2>7, <3>1
    <3>3. q[1].from \in Nat /\ q[1].to \in Nat /\ q[1].from < q[1].to BY <2>1, <3>2 DEF Offered, Apart
    <3> QED BY <3>2, <3>3
  <2> QED BY <2>1, <2>5, <2>6, <2>7
<1> QED BY <1>1, <1>2

-----------------------------------------------------------------------------
(***************************************************************************)
(* The clauses are read one after the other.                               *)
(***************************************************************************)
LEMMA WordsAre ==
  ASSUME NEW c
  PROVE  /\ c.action \in Words(c, "action") /\ c.device \in Words(c, "device")
         /\ c.location \in Words(c, "location") /\ c.value \in Words(c, "value")
         /\ \A span \in ToSet(c.spans) : /\ span.clause.action \in Words(c, "action")
                                         /\ span.clause.location \in Words(c, "location")
         /\ c.spans = <<>> => Words(c, "location") = {c.location}
<1>1. c.spans = <<>> => ToSet(c.spans) = {} BY DEF ToSet
<1> QED BY <1>1 DEF Words

LEMMA CarryIs ==
  ASSUME NEW ctx \in Contexts, NEW x \in Commands
  PROVE  Carry(ctx, x) \in Contexts
BY DEF Carry, Contexts, Commands, Or

LEMMA CarryFolds ==
  ASSUME NEW s \in Seq(Commands), NEW ctx \in Contexts
  PROVE  \E f \in [0 .. Len(s) -> Contexts] :
            /\ f[0] = ctx /\ f[Len(s)] = FoldLeft(Carry, ctx, s)
            /\ \A m \in 1 .. Len(s) : f[m] = Carry(f[m - 1], s[m])
<1> DEFINE n == Len(s)
           A == Contexts
           base == ctx
           G == [p \in (1 .. n) \X A |-> Carry(p[2], s[p[1]])]
           R(h) == h = [S \in SUBSET DOMAIN s |-> IF S = {} THEN base ELSE Carry(h[S \ {Max(S)}], s[Max(S)])]
           g == CHOOSE h : R(h)
<1>1. n \in Nat /\ DOMAIN s = 1 .. n /\ base \in A /\ \A i \in 1 .. n : s[i] \in Commands
  OBVIOUS
<1>2. G \in [(1 .. n) \X A -> A] BY <1>1, CarryIs
<1>3. \A S \in SUBSET (1 .. n) : S # {} => Max(S) \in 1 .. n BY <1>1, NextIsMax
<1>4. \E h : R(h)
  <2>1. \E h : IsFold(h, 1 .. n, A, base, G, NextMax(n))
    <3> HIDE DEF n, A, base, G
    <3> QED BY <1>1, <1>2, NextIsMax, FoldExists
  <2>2. PICK h : IsFold(h, 1 .. n, A, base, G, NextMax(n)) BY <2>1
  <2>3. ASSUME NEW S \in SUBSET (1 .. n), S # {} PROVE h[S] = Carry(h[S \ {Max(S)}], s[Max(S)])
    <3>1. h[S \ {Max(S)}] \in A BY <2>2 DEF IsFold
    <3>2. h[S] = G[<<Max(S), h[S \ {Max(S)}]>>] BY <2>2, <2>3 DEF IsFold, NextMax
    <3> QED BY <1>3, <2>3, <3>1, <3>2
  <2> HIDE DEF G
  <2>4. R(h) BY <1>1, <2>2, <2>3 DEF IsFold
  <2> QED BY <2>4
<1>5. R(g)
  <2> HIDE DEF R
  <2> QED BY <1>4
<1>6. FoldLeft(Carry, ctx, s) = g[1 .. n]
  <2>1. FoldLeft(Carry, ctx, s) = g[DOMAIN s] BY DEF FoldLeft, MapThenFoldSet
  <2> QED BY <1>1, <2>1
<1> HIDE DEF g
<1>7. Follows(g, n, A, base, G)
  <2> SUFFICES ASSUME NEW S \in SUBSET (1 .. n), S # {}, g[S \ {Max(S)}] \in A
               PROVE  g[S] = G[<<Max(S), g[S \ {Max(S)}]>>]
    BY <1>1, <1>5 DEF Follows
  <2>1. g[S] = Carry(g[S \ {Max(S)}], s[Max(S)]) BY <1>1, <1>5
  <2> QED BY <1>3, <2>1
<1>8. PICK f : Along(f, g, n, A, base, G)
  <2> HIDE DEF n, A, base, G
  <2> QED BY ONLY <1>1, <1>2, <1>7, FoldAlong
<1>9. \A m \in 1 .. n : f[m] = Carry(f[m - 1], s[m])
  <2> SUFFICES ASSUME NEW m \in 1 .. n PROVE f[m] = Carry(f[m - 1], s[m]) OBVIOUS
  <2>1. m - 1 \in 0 .. n BY <1>1
  <2>2. f[m - 1] \in A /\ f[m] = G[<<m, f[m - 1]>>] BY <1>8, <2>1 DEF Along
  <2> QED BY <2>2
<1> QED BY <1>6, <1>8, <1>9 DEF Along

\* Clauses the parts of which are stretches.
Separate == {c \in Clauses : Apart(ToSet(c.spans))}

Readings == [commands : Seq(Commands), context : Contexts]

LEMMA ReadIs ==
  ASSUME NEW acc \in Readings, NEW c \in Separate
  PROVE  Read(acc, c) \in Readings
<1> DEFINE cmds == ParseClause(c, acc.context)
<1>1. acc.commands \in Seq(Commands) /\ acc.context \in Contexts BY DEF Readings
<1>2. c \in Clauses /\ Apart(ToSet(c.spans)) BY DEF Separate
<1>3. cmds \in Seq(Commands) BY <1>1, <1>2, ClauseIsRead
<1> HIDE DEF cmds
<1>4. PICK f \in [0 .. Len(cmds) -> Contexts] : f[Len(cmds)] = FoldLeft(Carry, acc.context, cmds)
  BY <1>1, <1>3, CarryFolds
<1>5. Len(cmds) \in 0 .. Len(cmds) BY <1>3
<1>6. FoldLeft(Carry, acc.context, cmds) \in Contexts BY <1>4, <1>5
<1>7. Read(acc, c) = [commands |-> acc.commands \o cmds, context |-> FoldLeft(Carry, acc.context, cmds)]
  BY DEF Read, cmds
<1> QED BY <1>1, <1>3, <1>6, <1>7 DEF Readings

LEMMA ReadFolds ==
  ASSUME NEW s \in Seq(Separate)
  PROVE  \E f \in [0 .. Len(s) -> Readings] :
            /\ f[0] = [commands |-> <<>>, context |-> Fresh] /\ ReadClauses(s) = f[Len(s)].commands
            /\ \A m \in 1 .. Len(s) : f[m] = Read(f[m - 1], s[m])
<1> DEFINE n == Len(s)
           A == Readings
           base == [commands |-> <<>>, context |-> Fresh]
           G == [p \in (1 .. n) \X A |-> Read(p[2], s[p[1]])]
           R(h) == h = [S \in SUBSET DOMAIN s |-> IF S = {} THEN base ELSE Read(h[S \ {Max(S)}], s[Max(S)])]
           g == CHOOSE h : R(h)
<1>1. n \in Nat /\ DOMAIN s = 1 .. n /\ base \in A /\ \A i \in 1 .. n : s[i] \in Separate
  BY DEF Readings, Fresh, Contexts, Terms
<1>2. G \in [(1 .. n) \X A -> A] BY <1>1, ReadIs
<1>3. \A S \in SUBSET (1 .. n) : S # {} => Max(S) \in 1 .. n BY <1>1, NextIsMax
<1>4. \E h : R(h)
  <2>1. \E h : IsFold(h, 1 .. n, A, base, G, NextMax(n))
    <3> HIDE DEF n, A, base, G
    <3> QED BY <1>1, <1>2, NextIsMax, FoldExists
  <2>2. PICK h : IsFold(h, 1 .. n, A, base, G, NextMax(n)) BY <2>1
  <2>3. ASSUME NEW S \in SUBSET (1 .. n), S # {} PROVE h[S] = Read(h[S \ {Max(S)}], s[Max(S)])
    <3>1. h[S \ {Max(S)}] \in A BY <2>2 DEF IsFold
    <3>2. h[S] = G[<<Max(S), h[S \ {Max(S)}]>>] BY <2>2, <2>3 DEF IsFold, NextMax
    <3> QED BY <1>3, <2>3, <3>1, <3>2
  <2> HIDE DEF G
  <2>4. R(h) BY <1>1, <2>2, <2>3 DEF IsFold
  <2> QED BY <2>4
<1>5. R(g)
  <2> HIDE DEF R
  <2> QED BY <1>4
<1>6. ReadClauses(s) = g[1 .. n].commands
  <2>1. ReadClauses(s) = g[DOMAIN s].commands BY DEF ReadClauses, FoldLeft, MapThenFoldSet
  <2> QED BY <1>1, <2>1
<1> HIDE DEF g
<1>7. Follows(g, n, A, base, G)
  <2> SUFFICES ASSUME NEW S \in SUBSET (1 .. n), S # {}, g[S \ {Max(S)}] \in A
               PROVE  g[S] = G[<<Max(S), g[S \ {Max(S)}]>>]
    BY <1>1, <1>5 DEF Follows
  <2>1. g[S] = Read(g[S \ {Max(S)}], s[Max(S)]) BY <1>1, <1>5
  <2> QED BY <1>3, <2>1
<1>8. PICK f : Along(f, g, n, A, base, G)
  <2> HIDE DEF n, A, base, G
  <2> QED BY ONLY <1>1, <1>2, <1>7, FoldAlong
<1>9. \A m \in 1 .. n : f[m] = Read(f[m - 1], s[m])
  <2> SUFFICES ASSUME NEW m \in 1 .. n PROVE f[m] = Read(f[m - 1], s[m]) OBVIOUS
  <2>1. m - 1 \in 0 .. n BY <1>1
  <2>2. f[m - 1] \in A /\ f[m] = G[<<m, f[m - 1]>>] BY <1>8, <2>1 DEF Along
  <2> QED BY <2>2
<1> QED BY <1>6, <1>8, <1>9 DEF Along

\* What a command says was said in its clause, or where it may come from.
Said(s, x) ==
  /\ x.at \in 1 .. Len(s)
  /\ x.device # None /\ x.action # None
  /\ \E j \in 1 .. Len(s) : x.action \in Words(s[j], "action")
  /\ x.location # None => \E j \in 1 .. x.at : x.location \in Words(s[j], "location")
  /\ s[x.at].spans = <<>> =>
       /\ s[x.at].action # None => x.action = s[x.at].action
       /\ s[x.at].location # None => x.location = s[x.at].location \/ CutOff(s, x.at)
       /\ \/ \E j \in 1 .. Len(s) : x.device \in Words(s[j], "device")
          \/ x.device = DefaultDevice(x.action, x.parameter)
       /\ x.value # None => \E j \in x.at .. Len(s) : x.value \in Words(s[j], "value")

\* Command x may have its place from what w was about.
Succeeds(s, x, w) ==
  /\ w.device = s[x.at].device
  /\ w.location = x.location \/ s[w.at].location = None \/ s[w.at].spans # <<>> \/ CutOff(s, w.at)

\* The device of command i of those is that of its clause, if it is named and may be read.
Meant(s, r, i) ==
  LET x == r[i]
      c == s[r[i].at] IN
  c.spans = <<>> /\ c.device # None =>
    \/ x.device = c.device \/ CutOff(s, x.at)
    \/ /\ Muddled(s, x.at) /\ i > 1 /\ r[i - 1].device = c.device
       /\ \E j \in 1 .. i - 1 : r[j].location # None

\* Command i of those, and why it is at its place.
Fair(s, r, i) ==
  LET x == r[i]
      c == s[r[i].at] IN
  /\ Said(s, x) /\ Meant(s, r, i)
  /\ x.location # None /\ c.location = None /\ c.spans = <<>> /\ c.device # None =>
       \/ c.refers \/ Grounded(s, x.at, x.location) \/ CutOff(s, x.at)
       \/ i > 1 /\ Succeeds(s, x, r[i - 1])

\* What is carried on to clauses after the one numbered a.
Carried(s, ctx, a) ==
  /\ ctx \in Contexts
  /\ ctx.action # None => \E j \in 1 .. Len(s) : ctx.action \in Words(s[j], "action")
  /\ ctx.location # None => \E j \in 1 .. a : ctx.location \in Words(s[j], "location")

\* The device is that of the last command, and so is the place, if it has any.
Latest(ctx, x) == ctx.device = x.device /\ (x.location # None => ctx.location = x.location)

ReadUpTo(s, acc, a) ==
  /\ acc \in Readings /\ Carried(s, acc.context, a)
  /\ \A i \in 1 .. Len(acc.commands) : Fair(s, acc.commands, i) /\ acc.commands[i].at <= a
  /\ \A i, j \in 1 .. Len(acc.commands) : i <= j => acc.commands[i].at <= acc.commands[j].at
  /\ IF acc.commands = <<>> THEN acc.context.device = None /\ acc.context.location = None
     ELSE Latest(acc.context, acc.commands[Len(acc.commands)])
  /\ acc.context.location # None => \E j \in 1 .. Len(acc.commands) : acc.commands[j].location # None

\* A command of a clause, when that is read after what ctx was about.
LEMMA CommandIsSaid ==
  ASSUME NEW s, Len(s) \in Nat, NEW d \in Clauses, Told(s, d), NEW a \in Nat, a <= d.at, NEW ctx, Carried(s, ctx, a),
         NEW x, ReadFrom(x, d, ctx)
  PROVE  x \in Commands /\ x.at = d.at /\ Said(s, x)
<1>1. d.at \in 1 .. Len(s) /\ \A j \in 1 .. a : j \in 1 .. d.at BY DEF Told
<1>0. PICK e : ReadOf(x, e, ctx) /\ (e = d \/ PartOf(e, d, ctx)) BY DEF ReadFrom
<1>2. x \in Commands /\ x.at = d.at /\ x.device # None /\ x.action # None
  BY <1>0 DEF ReadOf, PartOf
<1>3. d.spans = <<>> => /\ e.action = d.action /\ e.device \in {None, d.device}
                        /\ e.value \in {None, d.value}
                        /\ d.location # None =>
                             e.location = d.location \/ (d.parameter = "brightness" /\ ~d.ahead)
  BY <1>0 DEF PartOf, ToSet
<1>4. d.spans # <<>> => d.spans = s[d.at].spans BY DEF Told
<1>8. \/ e.action = d.action /\ e.location \in {None, d.location}
      \/ d.spans # <<>> /\ \E span \in ToSet(d.spans) :
                              e.action = span.clause.action /\ e.location = span.clause.location
  BY <1>0 DEF PartOf, ToSet
<1>5. \E j \in 1 .. Len(s) : x.action \in Words(s[j], "action")
  <2>1. x.action = e.action \/ x.action = ctx.action BY <1>0 DEF ReadOf, Or
  <2>2. CASE x.action = ctx.action BY <1>2, <2>2 DEF Carried
  <2>3. CASE x.action = e.action /\ e.action = d.action
    <3>1. PICK j \in 1 .. Len(s) : s[j].action = d.action BY <1>2, <2>3 DEF Told
    <3> QED BY <2>3, <3>1, WordsAre
  <2>4. CASE x.action = e.action /\ d.spans # <<>> /\ \E span \in ToSet(d.spans) : e.action = span.clause.action
    BY <1>1, <1>4, <2>4, WordsAre
  <2> QED BY <1>8, <2>1, <2>2, <2>3, <2>4
<1>6. x.location # None => \E j \in 1 .. d.at : x.location \in Words(s[j], "location")
  <2> SUFFICES ASSUME x.location # None PROVE \E j \in 1 .. d.at : x.location \in Words(s[j], "location")
    OBVIOUS
  <2>1. x.location = e.location \/ x.location = ctx.location BY <1>0 DEF ReadOf
  <2>2. CASE x.location = ctx.location BY <1>1, <2>2 DEF Carried
  <2>3. CASE x.location = e.location /\ e.location \in {None, d.location}
    <3>1. PICK j \in 1 .. d.at : s[j].location = d.location BY <2>3 DEF Told
    <3> QED BY <2>3, <3>1, WordsAre
  <2>4. CASE x.location = e.location /\ d.spans # <<>> /\ \E span \in ToSet(d.spans) : e.location = span.clause.location
    <3>1. d.at \in 1 .. d.at BY <1>1
    <3> QED BY <1>4, <2>4, <3>1, WordsAre
  <2> QED BY <1>8, <2>1, <2>2, <2>3, <2>4
<1>7. ASSUME s[d.at].spans = <<>>
      PROVE  /\ s[d.at].action # None => x.action = s[d.at].action
             /\ s[d.at].location # None => x.location = s[d.at].location \/ CutOff(s, d.at)
             /\ \/ \E j \in 1 .. Len(s) : x.device \in Words(s[j], "device")
                \/ x.device = DefaultDevice(x.action, x.parameter)
             /\ x.value # None => \E j \in d.at .. Len(s) : x.value \in Words(s[j], "value")
  <2>1. /\ e.action = d.action /\ e.device \in {None, d.device} /\ e.value \in {None, d.value}
        /\ d.location # None => e.location = d.location \/ (d.parameter = "brightness" /\ ~d.ahead)
    BY <1>3, <1>4, <1>7
  <2>2. s[d.at].action # None => x.action = s[d.at].action BY <1>0, <2>1 DEF Told, ReadOf, Or
  <2>3. s[d.at].location # None => x.location = s[d.at].location \/ CutOff(s, d.at)
    <3> SUFFICES ASSUME s[d.at].location # None PROVE x.location = s[d.at].location \/ CutOff(s, d.at)
      OBVIOUS
    <3>1. d.location = s[d.at].location /\ Marked(s, d) BY DEF Told
    <3>2. CASE e.location = d.location BY <1>0, <3>1, <3>2 DEF ReadOf
    <3>3. CASE d.parameter = "brightness" /\ ~d.ahead BY <3>1, <3>3 DEF Marked, CutOff
    <3> QED BY <2>1, <3>1, <3>2, <3>3
  <2>5. \/ \E j \in 1 .. Len(s) : x.device \in Words(s[j], "device")
        \/ x.device = DefaultDevice(x.action, x.parameter)
    <3>1. CASE x.device = d.device
      <4>1. PICK j \in 1 .. Len(s) : s[j].device = d.device BY <1>2, <3>1 DEF Told
      <4> QED BY <3>1, <4>1, WordsAre
    <3> QED BY <1>0, <1>2, <2>1, <3>1 DEF ReadOf
  <2>6. x.value # None => \E j \in d.at .. Len(s) : x.value \in Words(s[j], "value")
    <3> SUFFICES ASSUME x.value # None PROVE \E j \in d.at .. Len(s) : x.value \in Words(s[j], "value")
      OBVIOUS
    <3>1. x.value = d.value BY <1>0, <2>1 DEF ReadOf
    <3>2. PICK j \in d.at .. Len(s) : s[j].value = d.value BY <3>1 DEF Told
    <3> QED BY <3>1, <3>2, WordsAre
  <2> QED BY <2>2, <2>3, <2>5, <2>6
<1> QED BY <1>1, <1>2, <1>5, <1>6, <1>7 DEF Said

\* The device and the place of a command whose clause names a device.
LEMMA CommandIsMeant ==
  ASSUME NEW s, Len(s) \in Nat, NEW d \in Clauses, Told(s, d), d.spans = <<>>, s[d.at].device # None,
         NEW ctx, NEW x, ReadFrom(x, d, ctx)
  PROVE  /\ \/ x.device = s[d.at].device \/ CutOff(s, d.at)
            \/ Muddled(s, d.at) /\ ctx.device = s[d.at].device /\ ctx.location # None
         /\ x.location # None /\ s[d.at].location = None =>
              \/ s[d.at].refers \/ Grounded(s, d.at, x.location) \/ CutOff(s, d.at)
              \/ ctx.device = s[d.at].device /\ x.location = ctx.location
<1>1. PICK e : ReadOf(x, e, ctx) /\ (e = d \/ (PartOf(e, d, ctx) /\ Unread(d))) BY DEF ReadFrom
<1>2. d.at \in 1 .. Len(s) /\ d.device = s[d.at].device /\ d.device # None /\ Marked(s, d)
  BY DEF Told
<1>3. d.parameter = "brightness" /\ ~d.ahead => CutOff(s, d.at) BY <1>2 DEF Marked, CutOff
<1>4. \/ e.location = d.location /\ e.device = d.device /\ (e.refers => d.refers)
      \/ d.parameter = "brightness" /\ ~d.ahead
      \/ /\ d.location = None /\ e.location = None /\ ctx.location # None /\ d.device = ctx.device
         /\ d.action # None /\ Unread(d)
  BY <1>1, <1>2 DEF PartOf, ToSet
<1>5. ASSUME e.location = d.location, e.device = d.device, e.refers => d.refers
      PROVE  /\ x.device = s[d.at].device
             /\ x.location # None /\ s[d.at].location = None =>
                  \/ s[d.at].refers \/ Grounded(s, d.at, x.location)
                  \/ ctx.device = s[d.at].device /\ x.location = ctx.location
  <2>1. x.device = s[d.at].device BY <1>1, <1>2, <1>5 DEF ReadOf
  <2>2. CASE x.location = d.location
    <3>1. x.location # None => Grounded(s, d.at, x.location) BY <1>2, <2>2 DEF Told
    <3> QED BY <2>1, <3>1
  <2>3. CASE x.location = ctx.location /\ (d.refers \/ d.device = ctx.device)
    <3>1. d.refers => s[d.at].refers BY DEF Told
    <3> QED BY <1>2, <2>1, <2>3, <3>1
  <2> QED BY <1>1, <1>2, <1>5, <2>2, <2>3 DEF ReadOf
<1>6. ASSUME d.location = None, e.location = None, ctx.location # None, d.device = ctx.device,
             d.action # None, Unread(d)
      PROVE  /\ Muddled(s, d.at) /\ ctx.device = s[d.at].device
             /\ x.location # None => x.location = ctx.location
  <2>1. d.noise \/ Payload(d) BY <1>2, <1>6 DEF Unread
  <2>2. Muddled(s, d.at) BY <1>2, <2>1 DEF Marked, Muddled
  <2>3. x.location # None => x.location = ctx.location BY <1>1, <1>6 DEF ReadOf
  <2> QED BY <1>2, <1>6, <2>2, <2>3
<1> QED BY <1>3, <1>4, <1>5, <1>6

LEMMA CommandsAre ==
  ASSUME NEW S, NEW p \in Seq(S), NEW q \in Seq(S), NEW r, r = p \o q
  PROVE  /\ r \in Seq(S) /\ Len(p) \in Nat /\ Len(q) \in Nat /\ Len(r) = Len(p) + Len(q)
         /\ \A k \in 1 .. Len(p) : r[k] = p[k] /\ k \in 1 .. Len(r)
         /\ \A k \in 1 .. Len(r) : k > Len(p) => k - Len(p) \in 1 .. Len(q) /\ r[k] = q[k - Len(p)]
OBVIOUS

\* A clause that is read as a whole makes one command at most, and that is at the
\* clause's place or at that of the last command.
FairFrom(s, r, n, b) == \A i \in 1 .. Len(r) : i > n => Fair(s, r, i) /\ r[i].at = b

LEMMA CommandIsFair ==
  ASSUME NEW s, Len(s) \in Nat, NEW d \in Separate, Told(s, d), NEW a \in Nat, a <= d.at, NEW acc, ReadUpTo(s, acc, a)
  PROVE  FairFrom(s, acc.commands \o ParseClause(d, acc.context), Len(acc.commands), d.at)
<1> SUFFICES ASSUME NEW r, r = acc.commands \o ParseClause(d, acc.context),
                    NEW i \in 1 .. Len(r), i > Len(acc.commands)
             PROVE  Fair(s, r, i) /\ r[i].at = d.at
  BY DEF FairFrom
<1> DEFINE q == acc.commands
           ctx == acc.context
           cmds == ParseClause(d, ctx)
           n == Len(q)
           x == r[i]
           c == s[d.at]
<1>1. /\ q \in Seq(Commands) /\ ctx \in Contexts /\ d \in Clauses /\ Apart(ToSet(d.spans))
      /\ Carried(s, ctx, a) /\ n \in Nat
  BY DEF ReadUpTo, Readings, Separate
<1>2. /\ cmds \in Seq(Commands)
      /\ \A k \in 1 .. Len(cmds) : ReadFrom(cmds[k], d, ctx)
      /\ d.spans = <<>> => Len(cmds) <= 1
  BY <1>1, ClauseIsRead
<1>9. r = q \o cmds OBVIOUS
<1> HIDE DEF cmds
<1>3. i - n \in 1 .. Len(cmds) /\ x = cmds[i - n] /\ i \in Nat /\ \A k \in 1 .. n : r[k] = q[k]
  <2> HIDE DEF q
  <2>1. /\ Len(r) \in Nat /\ \A k \in 1 .. Len(q) : r[k] = q[k]
        /\ \A k \in 1 .. Len(r) : k > Len(q) => k - Len(q) \in 1 .. Len(cmds) /\ r[k] = cmds[k - Len(q)]
    BY <1>1, <1>2, <1>9, CommandsAre
  <2>2. i > Len(q) /\ i \in 1 .. Len(r) BY DEF q
  <2>3. i \in Nat BY <2>1, <2>2
  <2> QED BY ONLY <2>1, <2>2, <2>3
<1>4. ReadFrom(x, d, ctx) BY <1>2, <1>3
<1>5. x \in Commands /\ x.at = d.at /\ Said(s, x)
  <2> HIDE DEF x, ctx
  <2> QED BY <1>1, <1>4, CommandIsSaid
<1>6. ASSUME c.spans = <<>>, c.device # None
      PROVE  /\ \/ x.device = c.device \/ CutOff(s, d.at)
                \/ Muddled(s, d.at) /\ ctx.device = c.device /\ ctx.location # None
             /\ x.location # None /\ c.location = None =>
                  \/ c.refers \/ Grounded(s, d.at, x.location) \/ CutOff(s, d.at)
                  \/ ctx.device = c.device /\ x.location = ctx.location
  <2>1. d.spans = <<>> BY <1>6 DEF Told
  <2> HIDE DEF x, ctx
  <2> QED BY <1>1, <1>4, <1>6, <2>1, CommandIsMeant
\* The clause is read right after the last command there is.
<1>7. ASSUME c.spans = <<>>, c.device # None, ctx.device = c.device
      PROVE  /\ n \in 1 .. n /\ i > 1 /\ i - 1 = n /\ r[i - 1] = q[n] /\ Latest(ctx, q[n])
             /\ Said(s, q[n])
  <2>1. d.spans = <<>> BY <1>7 DEF Told
  <2>2. i = n + 1 BY <1>1, <1>2, <1>3, <2>1
  <2>3. q # <<>> /\ Latest(ctx, q[n]) BY <1>7 DEF ReadUpTo
  <2>4. n \in 1 .. n BY <1>1, <2>3
  <2>5. Said(s, q[n]) BY <2>4 DEF ReadUpTo, Fair
  <2>6. i > 1 /\ i - 1 = n /\ r[n] = q[n]
    <3> HIDE DEF n, q
    <3>1. n >= 1 /\ r[n] = q[n] BY ONLY <1>1, <1>3, <2>4
    <3> QED BY <1>1, <2>2, <3>1
  <2> QED BY <2>3, <2>4, <2>5, <2>6
<1>8. Meant(s, r, i)
  <2> SUFFICES ASSUME c.spans = <<>>, c.device # None, Muddled(s, d.at), ctx.device = c.device, ctx.location # None
               PROVE  /\ i > 1 /\ r[i - 1].device = c.device
                      /\ \E j \in 1 .. i - 1 : r[j].location # None
    BY <1>5, <1>6 DEF Meant
  <2>1. n \in 1 .. n /\ i > 1 /\ i - 1 = n /\ r[i - 1] = q[n] /\ Latest(ctx, q[n]) BY <1>7
  <2>2. PICK j \in 1 .. n : q[j].location # None BY DEF ReadUpTo
  <2>3. r[j].location # None BY <1>3, <2>2
  <2> QED BY <2>1, <2>2, <2>3 DEF Latest
<1>10. ASSUME x.location # None, c.location = None, c.spans = <<>>, c.device # None,
              ctx.device = c.device, x.location = ctx.location
       PROVE  i > 1 /\ Succeeds(s, x, r[i - 1])
  <2>1. i > 1 /\ r[i - 1] = q[n] /\ Latest(ctx, q[n]) /\ Said(s, q[n]) BY <1>7, <1>10
  <2>2. q[n].location = None =>
          s[q[n].at].location = None \/ s[q[n].at].spans # <<>> \/ CutOff(s, q[n].at)
    BY <2>1 DEF Said
  <2> QED BY <1>5, <1>10, <2>1, <2>2 DEF Succeeds, Latest
<1> QED BY <1>5, <1>6, <1>8, <1>10 DEF Fair

LEMMA CommandCarriesOn ==
  ASSUME NEW s, NEW a \in Nat, NEW b \in Nat, a <= b, NEW ctx, Carried(s, ctx, a),
         NEW x \in Commands, Said(s, x), x.at = b
  PROVE  /\ Carried(s, Carry(ctx, x), b) /\ Latest(Carry(ctx, x), x)
         /\ Carry(ctx, x).location \in {ctx.location, x.location}
<1> DEFINE r == Carry(ctx, x)
<1>1. r \in Contexts BY CarryIs DEF Carried
<1>2. r.action = x.action /\ r.device = x.device /\ r.location = Or(x.location, ctx.location)
  BY DEF Carry, Or, Said
<1>3. \A j \in 1 .. a : j \in 1 .. b OBVIOUS
<1> HIDE DEF r
<1>4. r.action # None => \E j \in 1 .. Len(s) : r.action \in Words(s[j], "action") BY <1>2 DEF Said
<1>5. r.location # None => \E j \in 1 .. b : r.location \in Words(s[j], "location")
  <2>1. CASE x.location # None BY <1>2, <2>1 DEF Said, Or
  <2>2. CASE x.location = None BY <1>2, <1>3, <2>2 DEF Carried, Or
  <2> QED BY <2>1, <2>2
<1>6. Latest(r, x) /\ r.location \in {ctx.location, x.location} BY <1>2 DEF Latest, Or
<1> QED BY <1>1, <1>4, <1>5, <1>6 DEF Carried, r

LEMMA ClauseCarriesOn ==
  ASSUME NEW s, NEW a \in Nat, NEW b \in Nat, a <= b, NEW ctx, Carried(s, ctx, a), NEW cmds \in Seq(Commands),
         \A k \in 1 .. Len(cmds) : Said(s, cmds[k]) /\ cmds[k].at = b, NEW r, r = FoldLeft(Carry, ctx, cmds)
  PROVE  /\ Carried(s, r, b)
         /\ cmds = <<>> => r = ctx
         /\ cmds # <<>> => Latest(r, cmds[Len(cmds)])
         /\ r.location # None => ctx.location # None \/ \E k \in 1 .. Len(cmds) : cmds[k].location # None
<1> DEFINE n == Len(cmds)
<1>1. n \in Nat /\ \A k \in 1 .. n : cmds[k] \in Commands OBVIOUS
<1>2. ctx \in Contexts BY DEF Carried
<1>3. PICK f \in [0 .. n -> Contexts] : /\ f[0] = ctx /\ f[n] = FoldLeft(Carry, ctx, cmds)
                                        /\ \A m \in 1 .. n : f[m] = Carry(f[m - 1], cmds[m])
  BY <1>2, CarryFolds
<1> HIDE DEF n
<1> DEFINE Located(k) == f[k].location # None =>
                          ctx.location # None \/ \E l \in 1 .. k : cmds[l].location # None
           T == {k \in 0 .. n : Carried(s, f[k], b) /\ (k > 0 => Latest(f[k], cmds[k])) /\ Located(k)}
<1>4. 0 \in T
  <2>1. \A j \in 1 .. a : j \in 1 .. b OBVIOUS
  <2>2. Carried(s, ctx, b) BY <2>1 DEF Carried
  <2> QED BY <1>1, <1>3, <2>2
<1>5. ASSUME NEW k \in 0 .. n - 1, k \in T PROVE k + 1 \in T
  <2>1. k + 1 \in 1 .. n /\ k + 1 - 1 = k BY <1>1
  <2>2. f[k + 1] = Carry(f[k], cmds[k + 1]) BY <1>3, <2>1
  <2>3. cmds[k + 1] \in Commands /\ Said(s, cmds[k + 1]) /\ cmds[k + 1].at = b BY <1>1, <2>1 DEF n
  <2>4. Carried(s, f[k], b) /\ b <= b BY <1>5
  <2>5. /\ Carried(s, Carry(f[k], cmds[k + 1]), b) /\ Latest(Carry(f[k], cmds[k + 1]), cmds[k + 1])
        /\ Carry(f[k], cmds[k + 1]).location \in {f[k].location, cmds[k + 1].location}
    BY ONLY <2>3, <2>4, b \in Nat, CommandCarriesOn
  <2>6. Located(k + 1)
    <3>1. k + 1 \in 1 .. k + 1 /\ \A l \in 1 .. k : l \in 1 .. k + 1 BY <1>1
    <3>2. f[k + 1].location \in {f[k].location, cmds[k + 1].location} BY <2>2, <2>5
    <3> QED BY <1>5, <3>1, <3>2
  <2> QED BY <2>1, <2>2, <2>5, <2>6
<1>6. n \in T
  <2> HIDE DEF T
  <2>1. \A k \in 0 .. n : k \in T BY ONLY <1>1, <1>4, <1>5, Reaches
  <2> QED BY <1>1, <2>1
<1>7. cmds = <<>> <=> n = 0 BY DEF n
<1> QED BY <1>1, <1>3, <1>6, <1>7 DEF n

LEMMA ReadGoesOn ==
  ASSUME NEW s, Len(s) \in Nat, NEW d \in Separate, Told(s, d), NEW a \in Nat, a <= d.at, NEW acc, ReadUpTo(s, acc, a)
  PROVE  ReadUpTo(s, Read(acc, d), d.at)
<1> DEFINE q == acc.commands
           ctx == acc.context
           cmds == ParseClause(d, ctx)
           r == q \o cmds
           last == FoldLeft(Carry, ctx, cmds)
           n == Len(q)
           b == d.at
<1>1. /\ q \in Seq(Commands) /\ ctx \in Contexts /\ d \in Clauses /\ Apart(ToSet(d.spans))
      /\ Carried(s, ctx, a) /\ acc \in Readings
      /\ \A i \in 1 .. n : Fair(s, q, i) /\ q[i].at <= a
      /\ \A i, j \in 1 .. n : i <= j => q[i].at <= q[j].at
      /\ IF q = <<>> THEN ctx.device = None /\ ctx.location = None ELSE Latest(ctx, q[n])
      /\ ctx.location # None => \E j \in 1 .. n : q[j].location # None
  BY DEF ReadUpTo, Readings, Separate
<1>2. cmds \in Seq(Commands) BY <1>1, ClauseIsRead
<1>3. Read(acc, d).commands = r /\ Read(acc, d).context = last BY DEF Read
<1>4. Read(acc, d) \in Readings BY <1>1, ReadIs
<1>5. \A i \in 1 .. Len(r) : i > n => Fair(s, r, i) /\ r[i].at = b
  <2>1. FairFrom(s, acc.commands \o ParseClause(d, acc.context), Len(acc.commands), d.at) BY CommandIsFair
  <2> QED BY <2>1 DEF FairFrom
<1>6. b \in Nat BY DEF Told
<1> HIDE DEF cmds, q, ctx, b
<1>7. /\ r \in Seq(Commands) /\ n \in Nat /\ Len(cmds) \in Nat /\ Len(r) = n + Len(cmds)
      /\ \A k \in 1 .. n : r[k] = q[k] /\ k \in 1 .. Len(r)
      /\ \A k \in 1 .. Len(r) : k > n => k - n \in 1 .. Len(cmds) /\ r[k] = cmds[k - n]
  BY <1>1, <1>2, CommandsAre
<1> HIDE DEF r, n, last
<1>8. ASSUME NEW i \in 1 .. n PROVE Fair(s, r, i) /\ r[i].at <= a /\ r[i].at <= b
  <2>1. Fair(s, q, i) /\ q[i].at <= a /\ r[i] = q[i] BY <1>1, <1>7
  <2>2. i > 1 => r[i - 1] = q[i - 1]
    <3>1. i > 1 => i - 1 \in 1 .. n BY <1>7
    <3> QED BY <1>7, <3>1
  <2>3. q[i].at \in Nat BY <2>1 DEF Fair, Said
  <2>5. \A j \in 1 .. i - 1 : r[j] = q[j]
    <3>1. \A j \in 1 .. i - 1 : j \in 1 .. n BY <1>7
    <3> QED BY <1>7, <3>1
  <2>6. Meant(s, r, i)
    <3>1. Meant(s, q, i) BY <2>1 DEF Fair
    <3> QED BY <2>1, <2>2, <2>5, <3>1 DEF Meant
  <2>4. Fair(s, r, i) BY <2>1, <2>2, <2>6 DEF Fair
  <2> QED BY <1>6, <2>1, <2>3, <2>4 DEF b
<1>9. \A i \in 1 .. Len(r) : Fair(s, r, i) /\ r[i].at <= b /\ r[i].at \in Nat
  <2> SUFFICES ASSUME NEW i \in 1 .. Len(r) PROVE Fair(s, r, i) /\ r[i].at <= b /\ r[i].at \in Nat
    OBVIOUS
  <2>1. Fair(s, r, i) /\ r[i].at <= b
    <3>1. CASE i > n BY <1>5, <1>6, <3>1
    <3>2. CASE ~(i > n)
      <4>1. i \in 1 .. n BY <1>7, <3>2
      <4> QED BY <1>8, <4>1
    <3> QED BY <3>1, <3>2
  <2>2. r[i].at \in Nat BY <2>1 DEF Fair, Said
  <2> QED BY <2>1, <2>2
<1>10. ASSUME NEW i \in 1 .. Len(r), NEW j \in 1 .. Len(r), i <= j PROVE r[i].at <= r[j].at
  <2>1. CASE j > n BY <1>5, <1>9, <2>1
  <2>2. CASE ~(j > n)
    <3>1. i \in 1 .. n /\ j \in 1 .. n BY <1>7, <1>10, <2>2
    <3>2. r[i] = q[i] /\ r[j] = q[j] BY <1>7, <3>1
    <3> QED BY <1>1, <1>10, <3>1, <3>2
  <2> QED BY <2>1, <2>2
<1>11. /\ Carried(s, last, b)
       /\ cmds = <<>> => last = ctx
       /\ cmds # <<>> => Latest(last, cmds[Len(cmds)])
       /\ last.location # None => ctx.location # None \/ \E k \in 1 .. Len(cmds) : cmds[k].location # None
  <2>1. ASSUME NEW k \in 1 .. Len(cmds) PROVE Said(s, cmds[k]) /\ cmds[k].at = b
    <3>1. n + k \in 1 .. Len(r) /\ n + k > n /\ n + k - n = k BY <1>7
    <3>2. r[n + k] = cmds[k] BY <1>7, <3>1
    <3>3. Fair(s, r, n + k) /\ r[n + k].at = b BY <1>5, <3>1
    <3> QED BY <3>2, <3>3 DEF Fair
  <2>2. a <= b /\ last = FoldLeft(Carry, ctx, cmds) BY DEF b, last
  <2> QED BY ONLY a \in Nat, <1>1, <1>2, <1>6, <2>1, <2>2, ClauseCarriesOn
<1>12. IF r = <<>> THEN last.device = None /\ last.location = None ELSE Latest(last, r[Len(r)])
  <2>1. CASE cmds = <<>>
    <3>1. r = q BY <1>1, <2>1 DEF r
    <3> QED BY <1>1, <1>11, <2>1, <3>1 DEF n
  <2>2. CASE cmds # <<>>
    <3>1. Len(cmds) > 0 BY <1>2, <2>2
    <3>2. Len(r) \in 1 .. Len(r) /\ Len(r) > n /\ Len(r) - n = Len(cmds) BY <1>7, <3>1
    <3>3. r # <<>> /\ r[Len(r)] = cmds[Len(cmds)] BY <1>7, <3>2
    <3> QED BY <1>11, <2>2, <3>3
  <2> QED BY <2>1, <2>2
<1>13. ASSUME last.location # None PROVE \E j \in 1 .. Len(r) : r[j].location # None
  <2>1. CASE ctx.location # None
    <3>1. PICK j \in 1 .. n : q[j].location # None BY <1>1, <2>1
    <3>2. j \in 1 .. Len(r) /\ r[j] = q[j] BY <1>7
    <3> QED BY <3>1, <3>2
  <2>2. ASSUME NEW k \in 1 .. Len(cmds), cmds[k].location # None
        PROVE  \E j \in 1 .. Len(r) : r[j].location # None
    <3>1. n + k \in 1 .. Len(r) /\ n + k > n /\ n + k - n = k BY <1>7
    <3>2. r[n + k] = cmds[k] BY <1>7, <3>1
    <3> QED BY <2>2, <3>1, <3>2
  <2> QED BY <1>11, <1>13, <2>1, <2>2
<1> QED BY <1>3, <1>4, <1>9, <1>10, <1>11, <1>12, <1>13 DEF ReadUpTo, b

LEMMA SpansApart ==
  ASSUME NEW s, IsSentence(s, Vocabulary), NEW i \in 1 .. Len(s)
  PROVE  Apart(ToSet(s[i].spans))
<1>1. s[i] \in Clauses /\ i \in DOMAIN s BY NumberedIs
<1>2. s[i].spans \in Seq(Part(Vocabulary)) BY <1>1 DEF Clauses, Wording
<1>3. \A a \in ToSet(s[i].spans) : a \in Part(Vocabulary) BY <1>2 DEF ToSet
<1>4. \A a \in Part(Vocabulary) : a.from \in Nat /\ a.to \in Nat BY DEF Part
<1>5. \A a, b \in ToSet(s[i].spans) : a.from < a.to /\ (a.from = b.from /\ a.to = b.to => a = b)
  BY <1>1 DEF IsSentence
<1> QED BY <1>3, <1>4, <1>5 DEF Apart

\* What the clauses of a sentence are read as.
LEMMA SentenceIsRead ==
  ASSUME NEW s, IsSentence(s, Vocabulary), NEW r, r = ReadClauses(Decompose(MergeSplit(Numbered(s))))
  PROVE  /\ r \in Seq(Commands)
         /\ \A i \in 1 .. Len(r) : Fair(s, r, i)
         /\ \A i, j \in 1 .. Len(r) : i <= j => r[i].at <= r[j].at
<1> DEFINE d == Decompose(MergeSplit(Numbered(s)))
<1>1. Len(s) \in Nat /\ DOMAIN s = 1 .. Len(s) BY NumberedIs
<1>2. /\ d \in Seq(Clauses) /\ Len(d) \in Nat /\ \A i \in 1 .. Len(d) : d[i] \in Clauses
      /\ \A i \in 1 .. Len(d) : Told(s, d[i])
      /\ \A i \in 1 .. Len(d) - 1 : d[i].at <= d[i + 1].at
  BY DecomposedIsTold DEF Tale
<1> HIDE DEF d
<1>3. ASSUME NEW i \in 1 .. Len(d) PROVE d[i] \in Separate
  <2>1. Told(s, d[i]) /\ d[i] \in Clauses BY <1>2
  <2>2. d[i].at \in 1 .. Len(s) /\ d[i].spans \in {<<>>, s[d[i].at].spans} BY <2>1 DEF Told
  <2>3. Apart(ToSet(<<>>)) BY DEF Apart, ToSet
  <2>4. Apart(ToSet(s[d[i].at].spans)) BY <2>2, SpansApart
  <2> QED BY <2>1, <2>2, <2>3, <2>4 DEF Separate
<1>4. d \in Seq(Separate) BY <1>2, <1>3
<1>5. PICK f \in [0 .. Len(d) -> Readings] :
            /\ f[0] = [commands |-> <<>>, context |-> Fresh] /\ ReadClauses(d) = f[Len(d)].commands
            /\ \A m \in 1 .. Len(d) : f[m] = Read(f[m - 1], d[m])
  BY <1>4, ReadFolds
<1> DEFINE T == {q \in 0 .. Len(d) : ReadUpTo(s, f[q], End(d, q))}
<1>6. 0 \in T
  <2>1. f[0] \in Readings /\ f[0].commands = <<>> /\ f[0].context = Fresh /\ Fresh \in Contexts
    BY <1>2, <1>5 DEF Readings
  <2>2. Carried(s, Fresh, 0) BY <2>1 DEF Carried, Fresh
  <2>3. End(d, 0) = 0 BY DEF End
  <2>4. ReadUpTo(s, f[0], 0) BY <2>1, <2>2 DEF ReadUpTo, Fresh
  <2> QED BY <1>2, <2>3, <2>4
<1>7. ASSUME NEW q \in 0 .. Len(d) - 1, q \in T PROVE q + 1 \in T
  <2>1. q + 1 \in 1 .. Len(d) /\ q + 1 - 1 = q /\ q + 1 # 0 BY <1>2
  <2>2. f[q + 1] = Read(f[q], d[q + 1]) BY <1>5, <2>1
  <2>3. d[q + 1] \in Separate /\ Told(s, d[q + 1]) BY <1>2, <1>3, <2>1
  <2>4. d[q + 1].at \in Nat BY <2>3 DEF Told
  <2>5. End(d, q) \in Nat /\ End(d, q) <= d[q + 1].at
    <3>1. CASE q = 0 BY <2>4, <3>1 DEF End
    <3>2. CASE q # 0
      <4>1. q \in 1 .. Len(d) - 1 /\ q \in 1 .. Len(d) BY <1>2, <3>2
      <4>2. d[q].at <= d[q + 1].at /\ d[q].at \in Nat BY <1>2, <4>1 DEF Told
      <4> QED BY <3>2, <4>2 DEF End
    <3> QED BY <3>1, <3>2
  <2>6. ReadUpTo(s, f[q], End(d, q)) BY <1>7
  <2>7. ReadUpTo(s, Read(f[q], d[q + 1]), d[q + 1].at) BY ONLY <1>1, <2>3, <2>5, <2>6, ReadGoesOn
  <2> QED BY <2>1, <2>2, <2>7 DEF End
<1>8. Len(d) \in T
  <2> HIDE DEF T
  <2>1. \A q \in 0 .. Len(d) : q \in T BY ONLY <1>2, <1>6, <1>7, Reaches
  <2> QED BY <1>2, <2>1
<1>9. ReadUpTo(s, f[Len(d)], End(d, Len(d))) /\ r = f[Len(d)].commands BY <1>5, <1>8 DEF d
<1> QED BY <1>9 DEF ReadUpTo, Readings

-----------------------------------------------------------------------------
(***************************************************************************)
(* Settings without a place take one from the commands before them.        *)
(***************************************************************************)
\* z is x, if not at the place of one of r about a device of the same kind.
Relocated(r, x, z) ==
  /\ z \in Commands
  /\ z.action = x.action /\ z.device = x.device /\ z.parameter = x.parameter
  /\ z.value = x.value /\ z.at = x.at
  /\ \/ z.location = x.location
     \/ /\ x.location = None /\ z.location # None
        /\ \E j \in 1 .. Len(r) : r[j].location = z.location /\ Category(r[j].device) = Category(z.device)

LEMMA InheritedIs ==
  ASSUME NEW r \in Seq(Commands), NEW x \in Commands
  PROVE  \E z : Inherit(r, x) = Append(r, z) /\ Relocated(r, x, z)
<1> DEFINE same == {j \in DOMAIN r : r[j].device = x.device /\ r[j].location # None}
           kind == {j \in DOMAIN r : Category(r[j].device) = Category(x.device) /\ r[j].location # None}
           where == IF same # {} THEN same ELSE kind
           given == x.location = None /\ where # {} /\ (Payload(x) \/ x.action = "set")
           z == IF given THEN [x EXCEPT !.location = r[Max(where)].location] ELSE x
<1>1. Inherit(r, x) = Append(r, z) BY DEF Inherit
<1>2. CASE ~given
  <2>1. z = x BY <1>2
  <2> HIDE DEF z
  <2> QED BY <1>1, <2>1 DEF Relocated
<1>3. CASE given
  <2> DEFINE j == Max(where)
  <2>1. DOMAIN r = 1 .. Len(r) /\ Len(r) \in Nat /\ \A k \in 1 .. Len(r) : r[k] \in Commands OBVIOUS
  <2>2. where \in SUBSET kind BY DEF Category
  <2>3. kind \in SUBSET (0 .. Len(r)) BY <2>1
  <2>4. where # {} /\ where \in SUBSET (0 .. Len(r)) BY <1>3, <2>2, <2>3
  <2>5. Max(where) \in where
    <3> HIDE DEF where
    <3> QED BY <2>1, <2>4, MaxIs
  <2>6. j \in 1 .. Len(r) /\ r[j].location # None /\ Category(r[j].device) = Category(x.device)
    BY <2>1, <2>2, <2>5
  <2>7. z = [x EXCEPT !.location = r[j].location] /\ x.location = None BY <1>3
  <2>8. r[j].location \in Terms BY <2>1, <2>6 DEF Commands
  <2> HIDE DEF j, z, where, given, same, kind
  <2>9. /\ z \in Commands /\ z.action = x.action /\ z.device = x.device /\ z.parameter = x.parameter
        /\ z.value = x.value /\ z.at = x.at /\ z.location = r[j].location
    BY <2>7, <2>8 DEF Commands
  <2>10. Relocated(r, x, z) BY <2>6, <2>7, <2>9 DEF Relocated
  <2> QED BY <1>1, <2>10
<1> QED BY <1>2, <1>3

LEMMA InheritIs ==
  ASSUME NEW r \in Seq(Commands), NEW x \in Commands
  PROVE  Inherit(r, x) \in Seq(Commands)
<1>1. PICK z : Inherit(r, x) = Append(r, z) /\ Relocated(r, x, z) BY InheritedIs
<1>2. z \in Commands BY <1>1 DEF Relocated
<1> QED BY <1>1, <1>2

LEMMA InheritFolds ==
  ASSUME NEW s \in Seq(Commands)
  PROVE  \E f \in [0 .. Len(s) -> Seq(Commands)] :
            /\ f[0] = <<>> /\ f[Len(s)] = InheritLocation(s)
            /\ \A m \in 1 .. Len(s) : f[m] = Inherit(f[m - 1], s[m])
<1> DEFINE n == Len(s)
           A == Seq(Commands)
           base == <<>>
           G == [p \in (1 .. n) \X A |-> Inherit(p[2], s[p[1]])]
           R(h) == h = [S \in SUBSET DOMAIN s |-> IF S = {} THEN base ELSE Inherit(h[S \ {Max(S)}], s[Max(S)])]
           g == CHOOSE h : R(h)
<1>1. n \in Nat /\ DOMAIN s = 1 .. n /\ base \in A /\ \A i \in 1 .. n : s[i] \in Commands
  OBVIOUS
<1>2. G \in [(1 .. n) \X A -> A] BY <1>1, InheritIs
<1>3. \A S \in SUBSET (1 .. n) : S # {} => Max(S) \in 1 .. n BY <1>1, NextIsMax
<1>4. \E h : R(h)
  <2>1. \E h : IsFold(h, 1 .. n, A, base, G, NextMax(n))
    <3> HIDE DEF n, A, base, G
    <3> QED BY <1>1, <1>2, NextIsMax, FoldExists
  <2>2. PICK h : IsFold(h, 1 .. n, A, base, G, NextMax(n)) BY <2>1
  <2>3. ASSUME NEW S \in SUBSET (1 .. n), S # {} PROVE h[S] = Inherit(h[S \ {Max(S)}], s[Max(S)])
    <3>1. h[S \ {Max(S)}] \in A BY <2>2 DEF IsFold
    <3>2. h[S] = G[<<Max(S), h[S \ {Max(S)}]>>] BY <2>2, <2>3 DEF IsFold, NextMax
    <3> QED BY <1>3, <2>3, <3>1, <3>2
  <2> HIDE DEF G
  <2>4. R(h) BY <1>1, <2>2, <2>3 DEF IsFold
  <2> QED BY <2>4
<1>5. R(g)
  <2> HIDE DEF R
  <2> QED BY <1>4
<1>6. InheritLocation(s) = g[1 .. n]
  <2>1. InheritLocation(s) = g[DOMAIN s] BY DEF InheritLocation, FoldLeft, MapThenFoldSet
  <2> QED BY <1>1, <2>1
<1> HIDE DEF g
<1>7. Follows(g, n, A, base, G)
  <2> SUFFICES ASSUME NEW S \in SUBSET (1 .. n), S # {}, g[S \ {Max(S)}] \in A
               PROVE  g[S] = G[<<Max(S), g[S \ {Max(S)}]>>]
    BY <1>1, <1>5 DEF Follows
  <2>1. g[S] = Inherit(g[S \ {Max(S)}], s[Max(S)]) BY <1>1, <1>5
  <2> QED BY <1>3, <2>1
<1>8. PICK f : Along(f, g, n, A, base, G)
  <2> HIDE DEF n, A, base, G
  <2> QED BY ONLY <1>1, <1>2, <1>7, FoldAlong
<1>9. \A m \in 1 .. n : f[m] = Inherit(f[m - 1], s[m])
  <2> SUFFICES ASSUME NEW m \in 1 .. n PROVE f[m] = Inherit(f[m - 1], s[m]) OBVIOUS
  <2>1. m - 1 \in 0 .. n BY <1>1
  <2>2. f[m - 1] \in A /\ f[m] = G[<<m, f[m - 1]>>] BY <1>8, <2>1 DEF Along
  <2> QED BY <2>2
<1> QED BY <1>6, <1>8, <1>9 DEF Along

\* z is command i of r at a place that was spoken of, if not at its own then at
\* that of a command before it.
SpokenOf(s, r, out, i) ==
  LET x == r[i]
      z == out[i] IN
  /\ z \in Commands
  /\ z.action = x.action /\ z.device = x.device /\ z.parameter = x.parameter
  /\ z.value = x.value /\ z.at = x.at
  /\ z.location # None => \E j \in 1 .. z.at : z.location \in Words(s[j], "location")
  /\ \/ z.location = x.location
     \/ /\ x.location = None /\ z.location # None
        /\ \E j \in 1 .. i - 1 : out[j].location = z.location /\ Category(out[j].device) = Category(z.device)

PlacedUpTo(s, r, out, m) ==
  out \in Seq(Commands) /\ Len(out) = m /\ \A i \in 1 .. m : SpokenOf(s, r, out, i)

\* Commands made of the sentence, in its order.
Spoken(s, r) ==
  /\ r \in Seq(Commands)
  /\ \A i \in 1 .. Len(r) : Fair(s, r, i)
  /\ \A i, j \in 1 .. Len(r) : i <= j => r[i].at <= r[j].at

LEMMA PlacedGoesOn ==
  ASSUME NEW s, Len(s) \in Nat, NEW r, Spoken(s, r), NEW m \in 0 .. Len(r) - 1, NEW out, PlacedUpTo(s, r, out, m)
  PROVE  PlacedUpTo(s, r, Inherit(out, r[m + 1]), m + 1)
<1> DEFINE x == r[m + 1]
<1>1. Len(r) \in Nat /\ m \in Nat /\ m + 1 \in 1 .. Len(r) /\ x \in Commands /\ Said(s, x)
  BY DEF Spoken, Fair
<1>2. out \in Seq(Commands) /\ Len(out) = m /\ \A i \in 1 .. m : SpokenOf(s, r, out, i) BY DEF PlacedUpTo
<1> HIDE DEF x
<1>3. PICK z : Inherit(out, x) = Append(out, z) /\ Relocated(out, x, z) BY <1>1, <1>2, InheritedIs
<1> DEFINE new == Append(out, z)
<1>4. z \in Commands BY <1>3 DEF Relocated
<1>5. new \in Seq(Commands) /\ Len(new) = m + 1 /\ new[m + 1] = z /\ \A i \in 1 .. m : new[i] = out[i]
  BY <1>1, <1>2, <1>4
<1> HIDE DEF new
<1>6. ASSUME NEW i \in 1 .. m PROVE SpokenOf(s, r, new, i)
  <2>1. SpokenOf(s, r, out, i) /\ new[i] = out[i] BY <1>2, <1>5
  <2>2. \A j \in 1 .. i - 1 : j \in 1 .. m BY <1>1
  <2>3. \A j \in 1 .. i - 1 : new[j] = out[j] BY <1>5, <2>2
  <2> QED BY <2>1, <2>3 DEF SpokenOf
<1>7. SpokenOf(s, r, new, m + 1)
  <2>1. /\ z.action = x.action /\ z.device = x.device /\ z.parameter = x.parameter
        /\ z.value = x.value /\ z.at = x.at /\ x = r[m + 1]
    BY <1>3 DEF Relocated, x
  <2>2. CASE z.location = x.location
    <3>1. z.location # None => \E j \in 1 .. z.at : z.location \in Words(s[j], "location")
      BY <1>1, <2>1, <2>2 DEF Said
    <3> QED BY <1>4, <1>5, <2>1, <2>2, <3>1 DEF SpokenOf
  <2>3. CASE z.location # x.location
    <3>1. /\ x.location = None /\ z.location # None
          /\ \E j \in 1 .. m : out[j].location = z.location /\ Category(out[j].device) = Category(z.device)
      BY <1>2, <1>3, <2>3 DEF Relocated
    <3>2. PICK j \in 1 .. m : out[j].location = z.location /\ Category(out[j].device) = Category(z.device)
      BY <3>1
    <3>3. m + 1 - 1 = m /\ new[j] = out[j] BY <1>1, <1>5
    <3>4. \E k \in 1 .. m : new[k].location = z.location /\ Category(new[k].device) = Category(z.device)
      BY <3>2, <3>3
    <3>5. SpokenOf(s, r, out, j) BY <1>2
    <3>6. PICK k \in 1 .. out[j].at : out[j].location \in Words(s[k], "location") /\ out[j].at = r[j].at
      BY <3>1, <3>2, <3>5 DEF SpokenOf
    <3>7. j \in 1 .. Len(r) /\ j <= m + 1 BY <1>1
    <3>8. r[j].at <= r[m + 1].at /\ r[j].at \in Nat /\ r[m + 1].at \in Nat
      BY <1>1, <3>7 DEF Spoken, Fair, Said, x
    <3>9. k \in 1 .. z.at BY <2>1, <3>6, <3>8
    <3>10. \E l \in 1 .. z.at : z.location \in Words(s[l], "location") BY <3>2, <3>6, <3>9
    <3> QED BY <1>4, <1>5, <2>1, <3>1, <3>3, <3>4, <3>10 DEF SpokenOf
  <2> QED BY <2>2, <2>3
<1>8. \A i \in 1 .. m + 1 : SpokenOf(s, r, new, i)
  <2> SUFFICES ASSUME NEW i \in 1 .. m + 1 PROVE SpokenOf(s, r, new, i) OBVIOUS
  <2>1. i = m + 1 \/ i \in 1 .. m BY <1>1
  <2> QED BY <1>6, <1>7, <2>1
<1> QED BY <1>3, <1>5, <1>8 DEF PlacedUpTo, new, x

\* What a sentence is parsed as.
LEMMA SentenceIsParsed ==
  ASSUME NEW s, IsSentence(s, Vocabulary)
  PROVE  \E r : Spoken(s, r) /\ PlacedUpTo(s, r, Parse(s), Len(r))
<1> DEFINE r == ReadClauses(Decompose(MergeSplit(Numbered(s))))
<1>1. Spoken(s, r)
  <2> HIDE DEF r
  <2>1. r = ReadClauses(Decompose(MergeSplit(Numbered(s)))) BY DEF r
  <2> QED BY <2>1, SentenceIsRead DEF Spoken
<1>2. Parse(s) = InheritLocation(r) BY DEF Parse
<1> HIDE DEF r
<1>3. r \in Seq(Commands) /\ Len(r) \in Nat /\ Len(s) \in Nat BY <1>1, NumberedIs DEF Spoken
<1>4. PICK f \in [0 .. Len(r) -> Seq(Commands)] :
            /\ f[0] = <<>> /\ f[Len(r)] = InheritLocation(r)
            /\ \A m \in 1 .. Len(r) : f[m] = Inherit(f[m - 1], r[m])
  BY <1>3, InheritFolds
<1> DEFINE T == {m \in 0 .. Len(r) : PlacedUpTo(s, r, f[m], m)}
<1>5. 0 \in T
  <2>1. <<>> \in Seq(Commands) /\ Len(<<>>) = 0 OBVIOUS
  <2> QED BY <1>3, <1>4, <2>1 DEF PlacedUpTo
<1>6. ASSUME NEW m \in 0 .. Len(r) - 1, m \in T PROVE m + 1 \in T
  <2>1. m + 1 \in 1 .. Len(r) /\ m + 1 - 1 = m /\ m + 1 \in 0 .. Len(r) BY <1>3
  <2>2. f[m + 1] = Inherit(f[m], r[m + 1]) BY <1>4, <2>1
  <2>3. PlacedUpTo(s, r, Inherit(f[m], r[m + 1]), m + 1) BY <1>1, <1>3, <1>6, PlacedGoesOn
  <2> QED BY <2>1, <2>2, <2>3
<1>7. Len(r) \in T
  <2> HIDE DEF T
  <2>1. \A m \in 0 .. Len(r) : m \in T BY ONLY <1>3, <1>5, <1>6, Reaches
  <2> QED BY <1>3, <2>1
<1>8. PlacedUpTo(s, r, Parse(s), Len(r)) BY <1>2, <1>4, <1>7
<1> QED BY <1>1, <1>8

LEMMA WhatWasSaidIsKept ==
  ASSUME NEW s, IsSentence(s, Vocabulary)
  PROVE  SaysWhatWasSaid(s, Parse(s))
<1> DEFINE out == Parse(s)
<1>1. PICK r : Spoken(s, r) /\ PlacedUpTo(s, r, out, Len(r)) BY SentenceIsParsed
<1>2. Len(s) \in Nat /\ DOMAIN s = 1 .. Len(s) BY NumberedIs
<1> HIDE DEF out
<1>3. Len(r) \in Nat /\ DOMAIN out = 1 .. Len(r) BY <1>1 DEF Spoken, PlacedUpTo
<1> DEFINE c(i) == s[out[i].at]
<1> SUFFICES ASSUME NEW i \in 1 .. Len(r)
             PROVE  /\ out[i].at \in DOMAIN s /\ (i > 1 => out[i - 1].at <= out[i].at)
                    /\ c(i).spans = <<>> =>
                         /\ c(i).action # None => out[i].action = c(i).action
                         /\ c(i).location # None => out[i].location = c(i).location \/ CutOff(s, out[i].at)
                         /\ c(i).device # None =>
                              \/ out[i].device = c(i).device \/ CutOff(s, out[i].at)
                              \/ /\ Muddled(s, out[i].at) /\ i > 1 /\ out[i - 1].device = c(i).device
                                 /\ \E j \in 1 .. i - 1 : out[j].location # None
                         /\ \E j \in DOMAIN s : out[i]["action"] \in Words(s[j], "action")
                         /\ \/ \E j \in DOMAIN s : out[i]["device"] \in Words(s[j], "device")
                            \/ out[i].device = DefaultDevice(out[i].action, out[i].parameter)
                         /\ out[i].value # None =>
                              \E j \in out[i].at .. Len(s) : out[i]["value"] \in Words(s[j], "value")
  BY <1>3 DEF SaysWhatWasSaid, out
<1>4. SpokenOf(s, r, out, i) /\ Fair(s, r, i) /\ Said(s, r[i]) /\ Meant(s, r, i)
  BY <1>1 DEF PlacedUpTo, Spoken, Fair
<1>5. /\ out[i].action = r[i].action /\ out[i].device = r[i].device /\ out[i].parameter = r[i].parameter
      /\ out[i].value = r[i].value /\ out[i].at = r[i].at
      /\ out[i].location = r[i].location \/ r[i].location = None
  BY <1>4 DEF SpokenOf
<1>6. i > 1 => out[i - 1].at <= out[i].at
  <2> SUFFICES ASSUME i > 1 PROVE out[i - 1].at <= out[i].at OBVIOUS
  <2>1. i - 1 \in 1 .. Len(r) /\ i - 1 <= i BY <1>3
  <2>2. SpokenOf(s, r, out, i - 1) BY <1>1, <2>1 DEF PlacedUpTo
  <2>3. r[i - 1].at <= r[i].at BY <1>1, <2>1 DEF Spoken
  <2> QED BY <1>5, <2>2, <2>3 DEF SpokenOf
<1>7. ASSUME c(i).spans = <<>>
      PROVE  /\ c(i).action # None => out[i].action = c(i).action
             /\ c(i).location # None => out[i].location = c(i).location \/ CutOff(s, out[i].at)
  BY <1>4, <1>5, <1>7 DEF Said
<1>8. ASSUME c(i).spans = <<>>, c(i).device # None
      PROVE  \/ out[i].device = c(i).device \/ CutOff(s, out[i].at)
             \/ /\ Muddled(s, out[i].at) /\ i > 1 /\ out[i - 1].device = c(i).device
                /\ \E j \in 1 .. i - 1 : out[j].location # None
  <2> SUFFICES ASSUME i > 1, r[i - 1].device = c(i).device, NEW j \in 1 .. i - 1, r[j].location # None
               PROVE  out[i - 1].device = c(i).device /\ out[j].location # None
    BY <1>4, <1>5, <1>8 DEF Meant
  <2>1. i - 1 \in 1 .. Len(r) /\ j \in 1 .. Len(r) BY <1>3
  <2>2. SpokenOf(s, r, out, i - 1) /\ SpokenOf(s, r, out, j) BY <1>1, <2>1 DEF PlacedUpTo
  <2> QED BY <2>2 DEF SpokenOf
<1> QED BY <1>2, <1>4, <1>5, <1>6, <1>7, <1>8 DEF Said

LEMMA PlacesAreHandedOn ==
  ASSUME NEW s, IsSentence(s, Vocabulary)
  PROVE  PlacesHandedOn(s, Parse(s))
<1> DEFINE out == Parse(s)
<1>1. PICK r : Spoken(s, r) /\ PlacedUpTo(s, r, out, Len(r)) BY SentenceIsParsed
<1>2. Len(s) \in Nat BY NumberedIs
<1> HIDE DEF out
<1>3. Len(r) \in Nat /\ DOMAIN out = 1 .. Len(r) BY <1>1 DEF Spoken, PlacedUpTo
<1> DEFINE Right(i) ==
             \/ s[out[i].at].device = None \/ s[out[i].at].refers
             \/ Joined(s, out[i].at, out[i].location) \/ CutOff(s, out[i].at)
             \/ \E j \in 1 .. out[i].at - 1 :
                  /\ s[j].device = s[out[i].at].device
                  /\ s[j].location = out[i].location \/ s[j].refers \/ Joined(s, j, out[i].location)
             \/ \E j \in 1 .. i - 1 :
                  /\ out[j].location = out[i].location
                  /\ \E d \in {s[out[i].at].device, out[i].device} : Category(out[j].device) = Category(d)
             \/ /\ i > 1 /\ out[i - 1].device = s[out[i].at].device
                /\ \/ s[out[i - 1].at].location = None \/ s[out[i - 1].at].spans # <<>>
                   \/ CutOff(s, out[i - 1].at)
<1>4. ASSUME NEW i \in 1 .. Len(r), out[i].location # None, s[out[i].at].location = None,
             s[out[i].at].spans = <<>>
      PROVE  (\E j \in 1 .. out[i].at - 1 : out[i]["location"] \in Words(s[j], "location")) /\ Right(i)
  <2> DEFINE k == out[i].at
             l == out[i].location
  <2>1. SpokenOf(s, r, out, i) /\ Fair(s, r, i) /\ Said(s, r[i]) BY <1>1 DEF PlacedUpTo, Spoken, Fair
  <2>2. k = r[i].at /\ k \in 1 .. Len(s) BY <2>1 DEF SpokenOf, Said
  <2>3. \E j \in 1 .. k - 1 : l \in Words(s[j], "location")
    <3>1. PICK j \in 1 .. k : l \in Words(s[j], "location") BY <1>4, <2>1 DEF SpokenOf
    <3>2. j # k BY <1>4, <3>1, WordsAre
    <3> QED BY <2>2, <3>1, <3>2
  <2>4. CASE l # r[i].location
    <3>1. \E j \in 1 .. i - 1 : out[j].location = l /\ Category(out[j].device) = Category(out[i].device)
      BY <2>1, <2>4 DEF SpokenOf
    <3> QED BY <2>3, <3>1
  <2>5. CASE l = r[i].location
    <3>1. \/ s[k].device = None \/ s[k].refers \/ Grounded(s, k, l) \/ CutOff(s, k)
          \/ i > 1 /\ Succeeds(s, r[i], r[i - 1])
      BY <1>4, <2>1, <2>2, <2>5 DEF Fair
    <3>2. ASSUME Grounded(s, k, l) PROVE Right(i)
      <4>1. PICK j \in 1 .. k : /\ s[j].device = s[k].device
                                /\ s[j].location = l \/ s[j].refers \/ Joined(s, j, l)
        BY <3>2 DEF Grounded
      <4>2. CASE j = k BY <1>4, <4>1, <4>2
      <4>3. CASE j # k
        <5>1. j \in 1 .. k - 1 BY <2>2, <4>3
        <5> QED BY <4>1, <5>1
      <4> QED BY <4>2, <4>3
    <3>3. ASSUME i > 1, Succeeds(s, r[i], r[i - 1]) PROVE Right(i)
      <4>1. i - 1 \in 1 .. Len(r) /\ i - 1 \in 1 .. i - 1 BY <1>3, <3>3
      <4>2. SpokenOf(s, r, out, i - 1) BY <1>1, <4>1 DEF PlacedUpTo
      <4>3. out[i - 1].device = r[i - 1].device /\ out[i - 1].at = r[i - 1].at
        BY <4>2 DEF SpokenOf
      <4>4. r[i - 1].device = s[k].device BY <2>2, <3>3 DEF Succeeds
      <4>5. CASE r[i - 1].location = r[i].location
        <5>1. out[i - 1].location = l BY <1>4, <2>5, <4>2, <4>5 DEF SpokenOf
        <5> QED BY <4>1, <4>3, <4>4, <5>1
      <4>6. CASE s[r[i - 1].at].location = None \/ s[r[i - 1].at].spans # <<>> \/ CutOff(s, r[i - 1].at)
        BY <3>3, <4>3, <4>4, <4>6
      <4> QED BY <3>3, <4>5, <4>6 DEF Succeeds
    <3> QED BY <2>3, <3>1, <3>2, <3>3
  <2> QED BY <2>4, <2>5
<1> QED BY <1>3, <1>4 DEF PlacesHandedOn, out

\* RulesSound: of a sentence of any length and any words, every command does what
\* its clause says, or what another clause said of what it leaves out, in the order
\* of the clauses; a place is handed on only to a command that may have it; and of
\* a noisy clause nothing is recovered twice, nor left that could be taken
\* (parse, _decompose_compound_segments and _select_recovery_candidates of the engine).
THEOREM RulesAreSound == SharedSpec => []RulesSound
<1> DEFINE Asked == party \in Parties
<1>1. SharedInit => Asked BY DEF SharedInit
<1>2. Asked /\ [SharedNext]_sharedVars => Asked'
  BY DEF SharedNext, sharedVars, Receive, LookUp, Fetch, Raise, DropStale, MoveToEnd, ParseText, MakeRoom,
         Evict, Insert, BecomeStale, Finish, Publish, Check, Measure, Delete
<1>3. Asked => RulesSound
  <2> SUFFICES ASSUME party \in Parties, NEW s \in party.texts
               PROVE  /\ SaysWhatWasSaid(s, Parse(s)) /\ PlacesHandedOn(s, Parse(s))
                      /\ \A i \in DOMAIN s : RecoversMost(s[i])
    BY DEF RulesSound
  <2>1. IsSentence(s, Vocabulary) BY TextsAssumption
  <2>2. \A i \in DOMAIN s : RecoversMost(s[i]) BY <2>1, NumberedIs, SpansApart, MostIsRecovered
  <2> QED BY <2>1, <2>2, WhatWasSaidIsKept, PlacesAreHandedOn
<1> HIDE DEF Asked
<1> QED BY <1>1, <1>2, <1>3, PTL DEF SharedSpec
=============================================================================
