--------------------------- MODULE CardPathProofs ---------------------------
(***************************************************************************)
(* Proofs about module CardPath, for every configuration file, work tree   *)
(* and run: the lanes' way over JSON, what git's listing is read as, what  *)
(* a run's leavings come to, and from these the properties of the path.    *)
(***************************************************************************)
EXTENDS CardPath, FiniteSetTheorems, TLAPS

-----------------------------------------------------------------------------
(***************************************************************************)
(* A lane's way from the file to its supervisor                            *)
(***************************************************************************)
\* What _spawn passes and the supervisor parses.
Sent(body) == FromDict(ToDict(Lane(body)))

Empty == {"null", "[]", "", "()"}

\* The values of an accepted body, key by key.
LEMMA LaneValues ==
  ASSUME NEW body, LaneOk(body)
  PROVE  /\ Lane(body)["assignee"] = Get(body)["assignee"] /\ Lane(body)["assignee"] \in Assignees
         /\ Lane(body)["adapter"] = Get(body)["adapter"] /\ Lane(body)["adapter"] \in Adapters
         /\ \A k \in Argvs : Lane(body)[k] = (IF Get(body)[k] = "null" THEN "()" ELSE "list")
         /\ \A k \in Argvs : Get(body)[k] \in {"null", "list"}
         /\ \A k \in Counts : Lane(body)[k] = "int"
         /\ Lane(body)["on_success"] \in SuccessActions
         /\ Lane(body)["on_failure"] \in FailureActions
         /\ Lane(body)["permission_policy"] \in PermissionPolicies
         /\ Lane(body)["reviewer"] \in {"null", "text"}
         /\ Lane(body)["instructions"] \in {"", "blank", "text"}
         /\ Lane(body)["env"] \in EnvPolicies
         /\ Lane(body)["agent"] = Get(body)["agent"]
         /\ WorkerOk(Get(body))
BY ConfigAssumption DEF LaneOk, FieldsOk, Lane, LaneKeys, Argvs, Counts

\* What is left out on the way is what is empty.
LEMMA SentValues ==
  ASSUME NEW body
  PROVE  /\ DOMAIN Sent(body) \subseteq LaneKeys
         /\ \A k \in LaneKeys : Lane(body)[k] \notin Empty =>
              k \in DOMAIN Sent(body) /\ Sent(body)[k] = Lane(body)[k]
         /\ \A k \in LaneKeys : Lane(body)[k] \in Empty => k \notin DOMAIN Sent(body)
<1>1. \A k \in LaneKeys : ToDict(Lane(body))[k] = IF Lane(body)[k] = "()" THEN "[]" ELSE Lane(body)[k]
  BY DEF ToDict
<1> QED BY <1>1 DEF Sent, FromDict, Empty

\* Parsed again, a key left out gets its default.
LEMMA GetSent ==
  ASSUME NEW body, LaneOk(body), NEW k \in LaneKeys
  PROVE  Get(Sent(body))[k] = IF Lane(body)[k] \in Empty
                              THEN LaneDefault(Get(body)["adapter"])[k] ELSE Lane(body)[k]
<1>1. "adapter" \in LaneKeys /\ Lane(body)["adapter"] \notin Empty
  BY LaneValues DEF LaneKeys, Adapters, Empty
<1>2. Adapter(Sent(body)) = Get(body)["adapter"]
  BY <1>1, LaneValues, SentValues DEF Adapter
<1> QED BY <1>2, SentValues DEF Get

\* Every accepted body is accepted again on the other side of the JSON, and gives
\* the lane it gave; but for a command lane's empty agent, which is dropped.
THEOREM LaneSurvivesJson ==
  ASSUME NEW body, LaneOk(body)
  PROVE  /\ LaneOk(Sent(body))
         /\ \A k \in LaneKeys : \/ Lane(Sent(body))[k] = Lane(body)[k]
                                \/ k = "agent" /\ Lane(body)["adapter"] = "command"
<1> DEFINE g == Get(Sent(body))
<1>1. \A k \in LaneKeys \ (Argvs \cup {"agent", "reviewer", "instructions"}) :
        Lane(body)[k] \notin Empty /\ g[k] = Lane(body)[k]
  <2>1. \A k \in LaneKeys \ (Argvs \cup {"agent", "reviewer", "instructions"}) : Lane(body)[k] \notin Empty
    BY LaneValues, ConfigAssumption
       DEF LaneKeys, Empty, Adapters, SuccessActions, FailureActions, PermissionPolicies
  <2> QED BY <2>1, GetSent
<1>a. \A adapter : \A k \in Argvs \cup {"agent", "reviewer"} : LaneDefault(adapter)[k] = "null"
  BY DEF LaneDefault, LaneKeys, Argvs, Counts
<1>b. \A adapter : LaneDefault(adapter)["instructions"] = ""
  BY DEF LaneDefault, LaneKeys, Counts
<1>2. \A k \in Argvs : g[k] = Get(body)[k]
  <2> SUFFICES ASSUME NEW k \in Argvs PROVE g[k] = Get(body)[k]
    OBVIOUS
  <2>1. g[k] = IF Lane(body)[k] \in Empty THEN "null" ELSE Lane(body)[k]
    BY <1>a, GetSent DEF LaneKeys
  <2>2. Lane(body)[k] = (IF Get(body)[k] = "null" THEN "()" ELSE "list") /\ Get(body)[k] \in {"null", "list"}
    BY LaneValues
  <2> QED BY <2>1, <2>2 DEF Empty
<1>3. g["reviewer"] = Lane(body)["reviewer"] /\ g["instructions"] = Lane(body)["instructions"]
  <2>1. g["reviewer"] = IF Lane(body)["reviewer"] \in Empty THEN "null" ELSE Lane(body)["reviewer"]
    BY <1>a, GetSent DEF LaneKeys
  <2>2. g["instructions"] = IF Lane(body)["instructions"] \in Empty THEN "" ELSE Lane(body)["instructions"]
    BY <1>b, GetSent DEF LaneKeys
  <2>3. Lane(body)["reviewer"] \in {"null", "text"} /\ Lane(body)["instructions"] \in {"", "blank", "text"}
    BY LaneValues
  <2> QED BY <2>1, <2>2, <2>3 DEF Empty
<1>4. g["agent"] = IF Get(body)["agent"] \in Empty THEN "null" ELSE Get(body)["agent"]
  <2>1. g["agent"] = IF Lane(body)["agent"] \in Empty THEN "null" ELSE Lane(body)["agent"]
    BY <1>a, GetSent DEF LaneKeys
  <2> QED BY <2>1, LaneValues
<1>5. FieldsOk(g)
  <2>1. \A k \in {"assignee", "adapter", "on_success", "on_failure", "permission_policy", "env"} \cup Counts :
          g[k] = Lane(body)[k]
    BY <1>1 DEF LaneKeys, Argvs, Counts
  <2>2. /\ g["assignee"] \in Assignees /\ g["adapter"] \in Adapters
        /\ g["on_success"] \in SuccessActions /\ g["on_failure"] \in FailureActions
        /\ g["permission_policy"] \in PermissionPolicies /\ g["env"] \in EnvPolicies
        /\ \A k \in Counts : g[k] = "int"
    BY <2>1, LaneValues
  <2>3. g["reviewer"] \in {"null", "text"} /\ g["instructions"] \in {"", "blank", "text"}
    BY <1>3, LaneValues
  <2>4. \A k \in Argvs : g[k] \in {"null", "list"}
    BY <1>2, LaneValues
  <2> QED BY <2>2, <2>3, <2>4 DEF FieldsOk
<1>6. WorkerOk(g)
  <2>1. g["adapter"] = Get(body)["adapter"] /\ g["command"] = Get(body)["command"]
        /\ g["agent_command"] = Get(body)["agent_command"]
    BY <1>1, <1>2, LaneValues DEF LaneKeys, Argvs
  <2>2. WorkerOk(Get(body))
    BY LaneValues
  <2> QED BY <1>4, <2>1, <2>2 DEF WorkerOk, Falsy, Empty, Presets
<1>7. LaneOk(Sent(body))
  BY <1>5, <1>6, SentValues DEF LaneOk
<1>8. ASSUME NEW k \in LaneKeys
      PROVE  Lane(Sent(body))[k] = Lane(body)[k] \/ (k = "agent" /\ Lane(body)["adapter"] = "command")
  <2>1. CASE k \in Argvs
    BY <1>2, <2>1 DEF Lane
  <2>2. CASE k = "agent"
    BY <1>4, <2>2, LaneValues DEF Lane, Argvs, WorkerOk, Falsy, Adapters, Presets, Empty
  <2>3. CASE k = "env"
    BY <1>1, <2>3, LaneValues, ConfigAssumption DEF Lane, Argvs
  <2>4. CASE k \notin Argvs \cup {"agent", "env"}
    <3>1. g[k] = Lane(body)[k]
      BY <1>1, <1>3, <2>4
    <3> QED BY <2>4, <3>1 DEF Lane
  <2> QED BY <2>1, <2>2, <2>3, <2>4
<1> QED BY <1>7, <1>8

\* Whatever is accepted can be executed: there is a command, or an agent.
THEOREM AcceptedIsExecutable ==
  ASSUME NEW body, LaneOk(body)
  PROVE  Executable(Lane(body))
BY LaneValues DEF Executable, WorkerOk, Adapters, Argvs, Presets

\* Every lane of every accepted file reaches its supervisor whole, under its own
\* assignee, and can be executed there (config.py:69-75, :109-142, scheduler.py:103).
THEOREM EveryLaneStarts ==
  ASSUME NEW f, ConfigOk(f), NEW a \in DOMAIN ParseConfig(f)
  PROVE  \E n \in DOMAIN f.lanes :
           LET body == f.lanes[n]
               sent == FromDict(ToDict(ParseConfig(f)[a]))
           IN /\ body["assignee"] = a
              /\ LaneOk(sent) /\ Executable(Lane(sent))
              /\ \A k \in LaneKeys : \/ Lane(sent)[k] = Lane(body)[k]
                                     \/ k = "agent" /\ Lane(body)["adapter"] = "command"
<1> DEFINE n == CHOOSE m \in DOMAIN f.lanes : f.lanes[m]["assignee"] = a
<1>1. n \in DOMAIN f.lanes /\ f.lanes[n]["assignee"] = a /\ ParseConfig(f)[a] = Lane(f.lanes[n])
  BY DEF ParseConfig
<1>2. LaneOk(f.lanes[n])
  BY <1>1 DEF ConfigOk
<1>3. FromDict(ToDict(ParseConfig(f)[a])) = Sent(f.lanes[n])
  BY <1>1 DEF Sent
<1>4. Executable(Lane(Sent(f.lanes[n])))
  BY <1>2, LaneSurvivesJson, AcceptedIsExecutable
<1>5. /\ LaneOk(Sent(f.lanes[n]))
      /\ \A k \in LaneKeys : \/ Lane(Sent(f.lanes[n]))[k] = Lane(f.lanes[n])[k]
                             \/ k = "agent" /\ Lane(f.lanes[n])["adapter"] = "command"
  BY <1>2, LaneSurvivesJson
<1> HIDE DEF n
<1> QED BY <1>1, <1>3, <1>4, <1>5

-----------------------------------------------------------------------------
(***************************************************************************)
(* Least and greatest numbers.  An induction over the length of a list     *)
(* looks at the least length for which the claim fails.                    *)
(***************************************************************************)
\* Every set of numbers has a least member, since the order of finite sets by
\* inclusion is well-founded.
LEMMA Least ==
  ASSUME NEW T \in SUBSET Nat, T # {}
  PROVE  \E n \in T : \A m \in T : n <= m
<1> DEFINE Below(n) == {m \in T : m <= n}
           R == {Below(n) : n \in T}
<1>1. ASSUME NEW n \in T PROVE IsFiniteSet(Below(n))
  <2>1. IsFiniteSet(0..n)
    BY FS_Interval
  <2>2. Below(n) \subseteq 0..n
    <3> SUFFICES ASSUME NEW m \in T, m <= n PROVE m \in 0..n
      OBVIOUS
    <3>1. n \in Nat /\ m \in Nat
      OBVIOUS
    <3> HIDE DEF Below, R
    <3> QED BY <3>1
  <2> QED BY <2>1, <2>2, FS_Subset
<1>2. R \subseteq FiniteSubsetsOf(Nat) /\ R # {}
  BY <1>1 DEF FiniteSubsetsOf
<1> HIDE DEF R
<1>3. PICK x \in R : \A y \in R : ~ (<<y, x>> \in StrictSubsetOrdering(Nat))
  BY <1>2, FS_StrictSubsetOrderingWellFounded, WFMin
<1>4. PICK n \in T : x = Below(n)
  BY DEF R
<1>5. ASSUME NEW m \in T PROVE n <= m
  <2>1. SUFFICES ASSUME m < n PROVE FALSE
    <3>1. n \in Nat /\ m \in Nat
      OBVIOUS
    <3> QED BY <3>1
  <2>2. n \in Nat /\ m \in Nat /\ \A k \in T : k \in Nat
    OBVIOUS
  <2>3. Below(m) \subseteq Below(n) /\ n \in Below(n) /\ n \notin Below(m)
    <3>1. \A k \in T : k <= m => k <= n
      <4> TAKE k \in T
      <4>1. k \in Nat
        OBVIOUS
      <4> HIDE DEF Below
      <4> QED BY <2>1, <2>2, <4>1
    <3>2. n <= n /\ ~(n <= m)
      <4> HIDE DEF Below
      <4> QED BY <2>1, <2>2
    <3> QED BY <3>1, <3>2
  <2>4. Below(m) \in SUBSET Nat /\ Below(n) \in SUBSET Nat /\ Below(m) \in R
    BY <2>2 DEF R
  <2>5. <<Below(m), x>> \in StrictSubsetOrdering(Nat)
    <3> HIDE DEF Below
    <3> QED BY <1>4, <2>3, <2>4 DEF StrictSubsetOrdering
  <2> QED BY <2>4, <2>5, <1>3
<1> QED BY <1>5

\* A set of numbers with a bound has a greatest member.
LEMMA Greatest ==
  ASSUME NEW T \in SUBSET Nat, T # {}, NEW n \in Nat, \A m \in T : m <= n
  PROVE  Max(T) \in T /\ \A m \in T : m <= Max(T)
<1> DEFINE D == {n - m : m \in T}
<1>0. \A m \in T : m \in Nat /\ n - m \in Nat
  OBVIOUS
<1>1. D \in SUBSET Nat /\ D # {}
  BY <1>0
<1> HIDE DEF D
<1>2. PICK d \in D : \A e \in D : d <= e
  BY <1>1, Least
<1>3. PICK g \in T : d = n - g
  BY DEF D
<1>4. ASSUME NEW m \in T PROVE m <= g
  <2>1. n - g <= n - m
    BY <1>2, <1>3 DEF D
  <2> QED BY <2>1, <1>0
<1>5. \A m \in T : g >= m
  BY <1>0, <1>4
<1>6. Max(T) \in T /\ \A m \in T : Max(T) >= m
  BY <1>5 DEF Max
<1> QED BY <1>0, <1>6

\* The function the fold of ReadEntry over s is computed by.
IsFold(it, s) ==
  it = [t \in SUBSET DOMAIN s |->
          IF t = {} THEN [paths |-> {}, skip |-> FALSE]
          ELSE ReadEntry(it[t \ {Max(t)}], s[Max(t)])]

\* The last of the first n numbers.
LEMMA MaxOfInterval ==
  ASSUME NEW n \in Nat, n # 0
  PROVE  Max(1..n) = n /\ (1..n) \ {n} = 1..(n-1)
<1>1. n \in 1..n /\ \A m \in 1..n : n >= m
  OBVIOUS
<1>2. Max(1..n) \in 1..n /\ \A m \in 1..n : Max(1..n) >= m
  BY <1>1 DEF Max
<1> QED BY <1>1, <1>2

\* The recursion of the fold over a list has a solution: one for the lists of
\* length k is continued to one for k + 1.
LEMMA FoldExists ==
  ASSUME NEW s, NEW n \in Nat, DOMAIN s = 1..n
  PROVE  \E it : IsFold(it, s)
<1> DEFINE Eq(it, k) ==
      it = [t \in SUBSET (1..k) |->
              IF t = {} THEN [paths |-> {}, skip |-> FALSE]
              ELSE ReadEntry(it[t \ {Max(t)}], s[Max(t)])]
           Bad == {k \in Nat : ~ \E it : Eq(it, k)}
<1>1. SUFFICES ASSUME Bad # {} PROVE FALSE
  <2>1. \A it : Eq(it, n) => IsFold(it, s)
    BY DEF IsFold
  <2>2. Bad = {} => \E it : Eq(it, n)
    <3> HIDE DEF Eq
    <3> QED OBVIOUS
  <2> HIDE DEF Eq, Bad
  <2> QED BY <2>1, <2>2
<1>2. PICK k \in Bad : \A m \in Bad : k <= m
  BY <1>1, Least
<1>3. k # 0
  <2> DEFINE z == [t \in SUBSET (1..0) |-> [paths |-> {}, skip |-> FALSE]]
  <2>1. \A t \in SUBSET (1..0) : t = {}
    OBVIOUS
  <2>2. Eq(z, 0)
    BY <2>1
  <2> QED BY <2>2
<1>4. PICK it : Eq(it, k - 1)
  <2>1. k - 1 \in Nat /\ ~(k <= k - 1)
    BY <1>3
  <2> QED BY <1>2, <2>1
<1> DEFINE next == [t \in SUBSET (1..k) |-> IF k \notin t THEN it[t] ELSE ReadEntry(it[t \ {k}], s[k])]
<1>5. ASSUME NEW t \in SUBSET (1..k)
      PROVE  next[t] = IF t = {} THEN [paths |-> {}, skip |-> FALSE]
                       ELSE ReadEntry(next[t \ {Max(t)}], s[Max(t)])
  <2>1. CASE t = {}
    <3>1. it[t] = [paths |-> {}, skip |-> FALSE]
      BY <1>4, <2>1
    <3> QED BY <2>1, <3>1
  <2>2. CASE t # {} /\ k \notin t
    <3>1. t \in SUBSET (1..(k-1))
      BY <2>2
    <3>2. Max(t) \in t
      <4>1. t \in SUBSET Nat /\ \A m \in t : m <= k
        OBVIOUS
      <4> QED BY <4>1, <2>2, Greatest
    <3>3. it[t] = ReadEntry(it[t \ {Max(t)}], s[Max(t)])
      BY <1>4, <2>2, <3>1
    <3>4. next[t] = it[t] /\ next[t \ {Max(t)}] = it[t \ {Max(t)}]
      BY <2>2, <3>2
    <3> QED BY <2>2, <3>3, <3>4
  <2>3. CASE k \in t
    <3>1. Max(t) = k
      <4>1. t \in SUBSET Nat /\ \A m \in t : m <= k
        OBVIOUS
      <4>2. Max(t) \in t /\ \A m \in t : m <= Max(t)
        BY <4>1, <2>3, Greatest
      <4>3. Max(t) \in Nat /\ Max(t) <= k /\ k <= Max(t)
        <5> HIDE DEF next, Bad
        <5> QED BY <4>1, <4>2, <2>3
      <4>4. k \in Nat
        OBVIOUS
      <4> HIDE DEF next, Bad
      <4> QED BY <4>3, <4>4
    <3>2. next[t \ {k}] = it[t \ {k}]
      OBVIOUS
    <3> QED BY <2>3, <3>1, <3>2
  <2> QED BY <2>1, <2>2, <2>3
<1>6. Eq(next, k)
  <2> HIDE DEF next
  <2>1. next = [t \in SUBSET (1..k) |-> next[t]]
    BY DEF next
  <2> QED BY <1>5, <2>1
<1> QED BY <1>6

\* The community module's fold is that solution.
LEMMA FoldIsAFold ==
  ASSUME NEW s, NEW n \in Nat, DOMAIN s = 1..n
  PROVE  \E it : /\ IsFold(it, s)
                 /\ FoldLeft(ReadEntry, [paths |-> {}, skip |-> FALSE], s) = it[1..n]
<1> DEFINE it == CHOOSE it : IsFold(it, s)
<1>1. IsFold(it, s)
  BY FoldExists
<1>2. FoldLeft(ReadEntry, [paths |-> {}, skip |-> FALSE], s) = it[1..n]
  BY DEF FoldLeft, MapThenFoldSet, IsFold
<1> QED BY <1>1, <1>2

\* Read with one more entry, the fold takes one more step of the loop.
LEMMA FoldSteps ==
  ASSUME NEW s, NEW n \in Nat, DOMAIN s = 1..n, NEW it, IsFold(it, s), NEW k \in 1..n
  PROVE  it[1..k] = ReadEntry(it[1..(k-1)], s[k])
<1>1. 1..k \in SUBSET DOMAIN s /\ 1..k # {} /\ k \in Nat /\ k # 0
  <2>1. k \in Int /\ 1 <= k /\ k <= n
    OBVIOUS
  <2>2. \A i \in 1..k : i \in 1..n
    BY <2>1
  <2>3. 1 \in 1..k /\ k \in Nat /\ k # 0
    BY <2>1
  <2>4. 1..k \subseteq DOMAIN s
    BY <2>2, Zenon
  <2> QED BY <2>3, <2>4, Zenon
<1>2. it[1..k] = ReadEntry(it[(1..k) \ {Max(1..k)}], s[Max(1..k)])
  BY <1>1 DEF IsFold
<1>3. Max(1..k) = k /\ (1..k) \ {k} = 1..(k-1)
  BY <1>1, MaxOfInterval
<1> QED BY <1>2, <1>3

-----------------------------------------------------------------------------
\* The function FlattenSeq is computed by.
IsFlat(flat, s) == flat = [i \in 1..Len(s) |-> IF i = 1 THEN s[i] ELSE flat[i-1] \o s[i]]

\* So has the recursion that flattens a list of lists.
LEMMA FlatExists ==
  ASSUME NEW s, Len(s) \in Nat
  PROVE  \E flat : IsFlat(flat, s)
<1> DEFINE Eq(flat, k) == flat = [i \in 1..k |-> IF i = 1 THEN s[i] ELSE flat[i-1] \o s[i]]
           Bad == {k \in Nat : ~ \E flat : Eq(flat, k)}
<1>1. SUFFICES ASSUME Bad # {} PROVE FALSE
  <2>1. \A flat : Eq(flat, Len(s)) => IsFlat(flat, s)
    BY DEF IsFlat
  <2>2. Bad = {} => \E flat : Eq(flat, Len(s))
    <3> HIDE DEF Eq
    <3> QED OBVIOUS
  <2> HIDE DEF Eq, Bad
  <2> QED BY <2>1, <2>2
<1>2. PICK k \in Bad : \A m \in Bad : k <= m
  BY <1>1, Least
<1>3. k # 0
  <2>1. Eq([i \in 1..0 |-> 0], 0)
    OBVIOUS
  <2> QED BY <2>1
<1>4. PICK flat : Eq(flat, k - 1)
  <2>1. k - 1 \in Nat /\ ~(k <= k - 1)
    BY <1>3
  <2> QED BY <1>2, <2>1
<1> DEFINE next == [i \in 1..k |-> IF i < k THEN flat[i] ELSE IF k = 1 THEN s[k] ELSE flat[k-1] \o s[k]]
<1>5. ASSUME NEW i \in 1..k
      PROVE  next[i] = IF i = 1 THEN s[i] ELSE next[i-1] \o s[i]
  <2>0. k \in Nat /\ i \in Int /\ 1 <= i /\ i <= k
    OBVIOUS
  <2>1. CASE i < k
    <3>1. i \in 1..(k-1) /\ (i # 1 => i - 1 \in 1..k /\ i - 1 < k)
      BY <2>0, <2>1
    <3>2. flat[i] = IF i = 1 THEN s[i] ELSE flat[i-1] \o s[i]
      BY <1>4, <3>1
    <3> QED BY <2>1, <3>1, <3>2
  <2>2. CASE i = k
    <3>1. i # 1 => i - 1 \in 1..k /\ i - 1 < k
      BY <2>0, <2>2
    <3> QED BY <2>2, <3>1
  <2> HIDE DEF next, Bad
  <2> QED BY <2>0, <2>1, <2>2
<1>6. Eq(next, k)
  <2> HIDE DEF next
  <2>1. next = [i \in 1..k |-> next[i]]
    BY DEF next
  <2> QED BY <1>5, <2>1
<1> QED BY <1>6

\* The entries of the first i changes of a listing.
Prefix(flat, i) == IF i = 0 THEN <<>> ELSE flat[i]

\* What an entry may be.
Lines(changes) == [code : {"M", "R"}, path : {c.path : c \in changes} \cup {Cut}]

\* A change is listed in one entry, or in two of which the first is its path.
LEMMA EntriesAreLines ==
  ASSUME NEW changes, NEW c \in changes
  PROVE  /\ Entries(c) \in Seq(Lines(changes))
         /\ \/ Len(Entries(c)) = 1 /\ Entries(c)[1].code = "M"
            \/ Len(Entries(c)) = 2 /\ Entries(c)[1].code = "R"
         /\ Entries(c)[1].path = c.path
<1>1. CASE c.source = NoSource
  <2>1. Entries(c) = <<[code |-> "M", path |-> c.path]>>
    BY <1>1 DEF Entries
  <2>2. [code |-> "M", path |-> c.path] \in Lines(changes)
    BY DEF Lines
  <2> QED BY <2>1, <2>2
<1>2. CASE c.source # NoSource
  <2>1. Entries(c) = <<[code |-> "R", path |-> c.path], [code |-> "M", path |-> Cut]>>
    BY <1>2 DEF Entries
  <2>2. /\ [code |-> "R", path |-> c.path] \in Lines(changes)
        /\ [code |-> "M", path |-> Cut] \in Lines(changes)
    BY DEF Lines
  <2> QED BY <2>1, <2>2
<1> QED BY <1>1, <1>2

\* What git lists, in a sequence, and what the loop has read after each change.
LEMMA ListingRead ==
  ASSUME NEW changes, NEW n \in Nat, NEW order \in [1..n -> changes],
         NEW flat, IsFlat(flat, [i \in 1..n |-> Entries(order[i])])
  PROVE  /\ Prefix(flat, n) \in Seq(Lines(changes))
         /\ FoldLeft(ReadEntry, [paths |-> {}, skip |-> FALSE], Prefix(flat, n))
              = [paths |-> {order[i].path : i \in 1..n}, skip |-> FALSE]
<1> DEFINE P(i) == Prefix(flat, i)
           L == Lines(changes)
<1>1. ASSUME NEW i \in 1..n PROVE P(i) = P(i-1) \o Entries(order[i])
  <2>0. i \in Int /\ 1 <= i /\ i <= n
    OBVIOUS
  <2>1. flat[i] = IF i = 1 THEN Entries(order[i]) ELSE flat[i-1] \o Entries(order[i])
    <3> DEFINE s == [j \in 1..n |-> Entries(order[j])]
    <3>1. Len(s) = n /\ s[i] = Entries(order[i])
      OBVIOUS
    <3> HIDE DEF s
    <3>2. flat = [j \in 1..n |-> IF j = 1 THEN s[j] ELSE flat[j-1] \o s[j]]
      BY <3>1 DEF IsFlat, s
    <3> QED BY <3>1, <3>2
  <2>2. Entries(order[i]) \in Seq(L)
    BY EntriesAreLines
  <2>3. CASE i = 1
    <3> HIDE DEF L
    <3> QED BY <2>1, <2>2, <2>3 DEF Prefix
  <2>4. CASE i # 1
    <3>1. i - 1 # 0 /\ i # 0
      BY <2>0, <2>4
    <3> QED BY <2>1, <2>4, <3>1 DEF Prefix
  <2> QED BY <2>3, <2>4
<1>2. ASSUME NEW i \in 0..n PROVE P(i) \in Seq(L)
  <2> DEFINE Bad == {k \in 0..n : P(k) \notin Seq(L)}
  <2>1. SUFFICES ASSUME Bad # {} PROVE FALSE
    OBVIOUS
  <2>2. PICK k \in Bad : \A m \in Bad : k <= m
    <3>1. Bad \in SUBSET Nat
      OBVIOUS
    <3> QED BY <2>1, <3>1, Least
  <2>3. CASE k = 0
    BY <2>3 DEF Prefix
  <2>4. CASE k # 0
    <3>1. k \in 1..n /\ k - 1 \in 0..n /\ ~(k <= k - 1)
      BY <2>4
    <3>2. P(k-1) \in Seq(L)
      BY <2>2, <3>1
    <3>3. Entries(order[k]) \in Seq(L)
      BY <3>1, EntriesAreLines
    <3>4. P(k) \in Seq(L)
      <4> HIDE DEF L, P
      <4>1. P(k) = P(k-1) \o Entries(order[k])
        BY <1>1, <3>1
      <4> QED BY <3>2, <3>3, <4>1
    <3> QED BY <3>4
  <2> QED BY <2>3, <2>4
<1>3. ASSUME NEW i \in 1..n
      PROVE  /\ Len(P(i)) = Len(P(i-1)) + Len(Entries(order[i]))
             /\ \A k \in 1..Len(P(i-1)) : P(i)[k] = P(i-1)[k]
             /\ \A k \in 1..Len(Entries(order[i])) : P(i)[Len(P(i-1)) + k] = Entries(order[i])[k]
  <2>1. P(i-1) \in Seq(L)
    BY <1>2
  <2>2. Entries(order[i]) \in Seq(L)
    BY EntriesAreLines
  <2>3. P(i) = P(i-1) \o Entries(order[i])
    BY <1>1
  <2> HIDE DEF P, L
  <2> QED BY <2>1, <2>2, <2>3
\* An earlier prefix is a prefix of the whole.
<1>4. ASSUME NEW i \in 0..n
      PROVE  Len(P(i)) <= Len(P(n)) /\ \A k \in 1..Len(P(i)) : P(n)[k] = P(i)[k]
  <2> DEFINE Ok(j) == Len(P(j)) <= Len(P(n)) /\ \A k \in 1..Len(P(j)) : P(n)[k] = P(j)[k]
             Bad == {j \in 0..n : ~Ok(n - j)}
  <2>0. \A j \in 0..n : Len(P(j)) \in Nat
    <3> HIDE DEF P, L
    <3> QED BY <1>2
  <2>1. SUFFICES ASSUME Bad # {} PROVE FALSE
    <3>1. n - i \in 0..n /\ n - (n - i) = i
      OBVIOUS
    <3> HIDE DEF Ok
    <3>2. Bad = {} => Ok(n - (n - i))
      BY <3>1
    <3> QED BY <2>1, <3>1, <3>2 DEF Ok
  <2>2. PICK j \in Bad : \A m \in Bad : j <= m
    <3>1. Bad \in SUBSET Nat
      OBVIOUS
    <3> QED BY <2>1, <3>1, Least
  <2>3. CASE j = 0
    <3>1. n - 0 = n /\ n \in 0..n
      OBVIOUS
    <3>2. Ok(n)
      <4> HIDE DEF P
      <4> QED BY <2>0, <3>1
    <3> HIDE DEF Ok
    <3> QED BY <2>2, <2>3, <3>1, <3>2
  <2>4. CASE j # 0
    <3>1. j - 1 \in 0..n /\ ~(j <= j - 1) /\ n - (j-1) \in 1..n /\ n - (j-1) - 1 = n - j /\ n - j \in 0..n
      BY <2>4
    <3>2. Ok(n - (j-1))
      <4> HIDE DEF Ok
      <4> QED BY <2>2, <3>1
    <3>3. Len(Entries(order[n-(j-1)])) \in Nat
      <4>1. Entries(order[n-(j-1)]) \in Seq(L)
        BY <3>1, EntriesAreLines
      <4> HIDE DEF L
      <4> QED BY <4>1
    <3>4. /\ Len(P(n-(j-1))) = Len(P(n-j)) + Len(Entries(order[n-(j-1)]))
          /\ \A k \in 1..Len(P(n-j)) : P(n-(j-1))[k] = P(n-j)[k]
      <4> HIDE DEF P
      <4>1. \A k \in 1..n : /\ Len(P(k)) = Len(P(k-1)) + Len(Entries(order[k]))
                            /\ \A h \in 1..Len(P(k-1)) : P(k)[h] = P(k-1)[h]
        BY <1>3
      <4> QED BY <4>1, <3>1
    <3>5. Ok(n-j)
      <4> DEFINE a == Len(P(n-j))  b == Len(P(n-(j-1)))  c == Len(P(n))
      <4>1. a \in Nat /\ b \in Nat /\ c \in Nat /\ a <= b
        <5>1. a \in Nat /\ b \in Nat /\ c \in Nat
          <6> HIDE DEF P
          <6> QED BY <2>0, <3>1
        <5> HIDE DEF P
        <5> QED BY <5>1, <3>3, <3>4
      <4>2. b <= c /\ \A k \in 1..b : P(n)[k] = P(n-(j-1))[k]
        <5> HIDE DEF P
        <5> QED BY <3>2
      <4>3. \A k \in 1..a : P(n-(j-1))[k] = P(n-j)[k]
        BY <3>4
      <4>4. a <= c /\ \A k \in 1..a : P(n)[k] = P(n-j)[k]
        <5> HIDE DEF a, b, c, P
        <5> QED BY <4>1, <4>2, <4>3
      <4> QED BY <4>4
    <3> HIDE DEF Ok
    <3> QED BY <2>2, <3>5
  <2> QED BY <2>3, <2>4
<1> DEFINE m == Len(P(n))
<1>5. m \in Nat /\ DOMAIN P(n) = 1..m
  <2>1. P(n) \in Seq(L)
    BY <1>2
  <2> HIDE DEF P, L
  <2> QED BY <2>1
<1>6. PICK it : /\ IsFold(it, P(n))
                /\ FoldLeft(ReadEntry, [paths |-> {}, skip |-> FALSE], P(n)) = it[1..m]
  <2> HIDE DEF P, m
  <2> QED BY <1>5, FoldIsAFold
<1> DEFINE Read(i) == [paths |-> {order[j].path : j \in 1..i}, skip |-> FALSE]
\* One change, of one entry or of two.
<1>7. ASSUME NEW i \in 1..n, it[1..Len(P(i-1))] = Read(i-1)
      PROVE  it[1..Len(P(i))] = Read(i)
  <2> DEFINE a == Len(P(i-1))  b == Len(P(i))  e == Entries(order[i])
  <2>1. /\ a \in Nat /\ b \in Nat /\ b <= m /\ b = a + Len(e)
        /\ \A k \in 1..Len(e) : P(i)[a + k] = e[k]
        /\ \A k \in 1..b : P(n)[k] = P(i)[k]
    <3>0. i \in 0..n /\ i - 1 \in 0..n
      OBVIOUS
    <3>1. a \in Nat /\ b \in Nat
      <4>1. P(i-1) \in Seq(L) /\ P(i) \in Seq(L)
        BY <3>0, <1>2
      <4> HIDE DEF P, L
      <4> QED BY <4>1
    <3> HIDE DEF P
    <3> QED BY <3>0, <3>1, <1>3, <1>4
  <2>2. \A k \in 1..m : it[1..k] = ReadEntry(it[1..(k-1)], P(n)[k])
    <3> HIDE DEF P, m
    <3> QED BY <1>5, <1>6, FoldSteps
  <2>3. \/ Len(e) = 1 /\ e[1].code = "M"
        \/ Len(e) = 2 /\ e[1].code = "R"
    BY EntriesAreLines
  <2>4. e[1].path = order[i].path
    BY EntriesAreLines
  <2>5. Read(i).paths = Read(i-1).paths \cup {order[i].path}
    <3>1. \A j : j \in 1..i <=> j \in 1..(i-1) \/ j = i
      OBVIOUS
    <3> QED BY <3>1
  <2>6. it[1..(a+1)] = [paths |-> Read(i).paths, skip |-> e[1].code = "R"]
    <3>1. a + 1 \in 1..m /\ (a + 1) - 1 = a /\ P(n)[a+1] = e[1]
      <4>1. 1 \in 1..Len(e) /\ a + 1 \in 1..b /\ a + 1 \in 1..m /\ (a + 1) - 1 = a
        <5> HIDE DEF P, m, a, b, e
        <5> QED BY <2>1, <2>3, <1>5
      <4>2. P(i)[a + 1] = e[1] /\ P(n)[a + 1] = P(i)[a + 1]
        <5> HIDE DEF P, m, a, b, e
        <5> QED BY <2>1, <4>1
      <4> HIDE DEF P, m, a, b, e
      <4> QED BY <4>1, <4>2
    <3>2. it[1..(a+1)] = ReadEntry(it[1..a], e[1])
      <4> HIDE DEF P, m, a, b, e
      <4> QED BY <2>2, <3>1
    <3>3. it[1..a] = Read(i-1)
      BY <1>7
    <3>4. it[1..a].skip = FALSE /\ it[1..a].paths = Read(i-1).paths
      <4> HIDE DEF P, m, a, b, e
      <4> QED BY <3>3
    <3> HIDE DEF P, m, a, b, e, Read
    <3> QED BY <2>4, <2>5, <3>2, <3>4 DEF ReadEntry
  <2>7. CASE Len(e) = 1 /\ e[1].code = "M"
    <3>1. b = a + 1
      BY <2>1, <2>7
    <3> HIDE DEF P, m, a, b, e
    <3>2. it[1..b] = Read(i)
      BY <2>6, <2>7, <3>1
    <3> QED BY <3>2 DEF b
  <2>8. CASE Len(e) = 2 /\ e[1].code = "R"
    <3>1. b = a + 2 /\ b \in 1..m /\ b - 1 = a + 1
      <4> HIDE DEF P, m, a, b, e
      <4> QED BY <2>1, <2>8, <1>5
    <3> HIDE DEF P, m, a, b, e
    <3>2. it[1..b] = ReadEntry(it[1..(a+1)], P(n)[b])
      BY <2>2, <3>1
    <3>3. it[1..(a+1)] = [paths |-> Read(i).paths, skip |-> TRUE]
      <4> HIDE DEF Read
      <4> QED BY <2>6, <2>8
    <3>4. it[1..b] = [paths |-> Read(i).paths, skip |-> FALSE]
      <4>1. \A p, line : ReadEntry([paths |-> p, skip |-> TRUE], line) = [paths |-> p, skip |-> FALSE]
        BY DEF ReadEntry
      <4> HIDE DEF Read
      <4> QED BY <3>2, <3>3, <4>1
    <3>5. it[1..b] = Read(i)
      BY <3>4
    <3> QED BY <3>5 DEF b
  <2> QED BY <2>3, <2>7, <2>8
<1>8. it[1..Len(P(n))] = Read(n)
  <2> DEFINE Bad == {i \in 0..n : it[1..Len(P(i))] # Read(i)}
  <2>1. SUFFICES ASSUME Bad # {} PROVE FALSE
    <3>1. n \in 0..n
      OBVIOUS
    <3> HIDE DEF P, Read
    <3> QED BY <2>1, <3>1
  <2>2. PICK k \in Bad : \A h \in Bad : k <= h
    <3>1. Bad \in SUBSET Nat
      OBVIOUS
    <3> QED BY <2>1, <3>1, Least
  <2>3. CASE k = 0
    <3>1. Len(P(0)) = 0 /\ 1..0 = {}
      BY DEF Prefix
    <3>2. it[1..0] = [paths |-> {}, skip |-> FALSE]
      BY <1>6, <3>1 DEF IsFold
    <3>3. Read(0) = [paths |-> {}, skip |-> FALSE]
      BY <3>1
    <3> HIDE DEF P, Read
    <3> QED BY <2>2, <2>3, <3>1, <3>2, <3>3
  <2>4. CASE k # 0
    <3>1. k \in 1..n /\ k - 1 \in 0..n /\ ~(k <= k - 1)
      BY <2>4
    <3> HIDE DEF P, Read
    <3>2. it[1..Len(P(k-1))] = Read(k-1)
      BY <2>2, <3>1
    <3>3. it[1..Len(P(k))] = Read(k)
      BY <1>7, <3>1, <3>2
    <3> QED BY <3>3
  <2> QED BY <2>3, <2>4
<1>9. P(n) \in Seq(L)
  BY <1>2
<1> QED BY <1>6, <1>8, <1>9

\* A finite set is listed in some order, each member once.
LEMMA Ordered ==
  ASSUME NEW S, IsFiniteSet(S)
  PROVE  /\ Cardinality(S) \in Nat
         /\ SetToSeq(S) \in [1..Cardinality(S) -> S]
         /\ S = {SetToSeq(S)[i] : i \in 1..Cardinality(S)}
<1> DEFINE n == Cardinality(S)  f == SetToSeq(S)
<1>1. n \in Nat /\ \E g \in Bijection(1..n, S) : TRUE
  BY FS_CardinalityType DEF ExistsBijection
<1>2. f \in [1..n -> S] /\ IsInjective(f)
  <2>1. PICK g \in Bijection(1..n, S) : TRUE
    BY <1>1
  <2>2. g \in [1..n -> S] /\ IsInjective(g)
    BY <2>1 DEF Bijection, Injection, IsInjective
  <2> QED BY <2>2 DEF SetToSeq
<1>3. S = {f[i] : i \in 1..n}
  <2> DEFINE T == {f[i] : i \in 1..n}
  <2>1. f \in Bijection(1..n, T)
    <3> HIDE DEF n, f
    <3> QED BY <1>2 DEF Bijection, Injection, Surjection, IsInjective
  <2>2. ExistsBijection(1..n, T)
    BY <2>1 DEF ExistsBijection
  <2>3. Cardinality(T) = n
    <3> HIDE DEF n, f, T
    <3> QED BY <1>1, <2>2, FS_CountingElements
  <2>4. T \in SUBSET S
    <3> HIDE DEF n, f
    <3> QED BY <1>2
  <2> HIDE DEF T, f
  <2>5. T = S
    BY <2>3, <2>4, FS_Subset
  <2> QED BY <2>5 DEF T, f
<1> QED BY <1>1, <1>2, <1>3

\* Whatever the changes of a work tree, with renames anywhere among them: the loop
\* over the entries of "git status -z" collects the changed paths and nothing of
\* the renames' sources (gitstate.py:10-34).
THEOREM PorcelainReads ==
  ASSUME NEW changes, IsFiniteSet(changes)
  PROVE  Porcelain(TRUE, changes) = {c.path : c \in changes}
<1> DEFINE n == Cardinality(changes)  order == SetToSeq(changes)
           s == [i \in 1..n |-> Entries(order[i])]
<1>1. n \in Nat /\ order \in [1..n -> changes] /\ changes = {order[i] : i \in 1..n}
  BY Ordered
<1>2. Listing(changes) = FlattenSeq(s)
  BY DEF Listing
<1>3. Len(s) = n
  <2> HIDE DEF n, order
  <2> QED BY <1>1
<1> DEFINE flat == CHOOSE flat : IsFlat(flat, s)
<1>4. IsFlat(flat, s)
  <2> HIDE DEF n, order, s
  <2> QED BY <1>1, <1>3, FlatExists
<1>5. FlattenSeq(s) = Prefix(flat, n)
  <2>1. CASE n = 0
    <3>1. s = <<>>
      <4> HIDE DEF n, order
      <4> QED BY <2>1
    <3> HIDE DEF s, n
    <3> QED BY <2>1, <1>3, <3>1 DEF FlattenSeq, Prefix
  <2>2. CASE n # 0
    <3>1. FlattenSeq(s) = flat[n]
      <4> HIDE DEF s, n
      <4> QED BY <2>2, <1>3 DEF FlattenSeq, IsFlat
    <3> HIDE DEF s, n, flat
    <3> QED BY <2>2, <3>1 DEF Prefix
  <2> QED BY <2>1, <2>2
<1>6. FoldLeft(ReadEntry, [paths |-> {}, skip |-> FALSE], Prefix(flat, n))
              = [paths |-> {order[i].path : i \in 1..n}, skip |-> FALSE]
  <2>1. IsFlat(flat, [i \in 1..n |-> Entries(order[i])])
    BY <1>4
  <2> HIDE DEF n, order, flat, s
  <2>2. n \in Nat /\ order \in [1..n -> changes]
    BY <1>1
  <2> QED BY <2>1, <2>2, ListingRead, Zenon
<1>7. Porcelain(TRUE, changes) = {order[i].path : i \in 1..n}
  <2> HIDE DEF n, order, flat, s
  <2> QED BY <1>2, <1>5, <1>6 DEF Porcelain
<1> QED 
  <2> HIDE DEF n, order
  <2> QED BY <1>1, <1>7

-----------------------------------------------------------------------------
(***************************************************************************)
(* What a child gets, and what its run comes to                            *)
(***************************************************************************)
\* The layers of an environment, one over the other.
LEMMA EnvIsConfined ==
  ASSUME NEW policy, NEW parent
  PROVE  LET e == ChildEnv(policy, parent)
         IN  /\ \A n \in RunNames : n \in DOMAIN e /\ e[n] = "run"
             /\ DOMAIN e \cap DeniedNames = {}
             /\ DOMAIN e \subseteq RunNames \cup BaseAllowlist \cup policy.pass \cup DOMAIN policy.set
<1>1. DOMAIN ChildEnv(policy, parent)
        = RunNames \cup (DOMAIN policy.set \ DeniedNames) \cup Passed(policy, parent)
  BY DEF ChildEnv, Over, RunEnv, OfLane, Restricted
<1>2. \A n \in RunNames : ChildEnv(policy, parent)[n] = "run"
  BY DEF ChildEnv, Over, RunEnv
<1> QED BY <1>1, <1>2, PathAssumption DEF Passed

\* The first kind of the policy's two that is on offer.
LEMMA AnswerIsWanted ==
  ASSUME NEW policy, NEW options
  PROVE  LET once   == IF policy = "allow" THEN "allow_once" ELSE "reject_once"
             always == IF policy = "allow" THEN "allow_always" ELSE "reject_always"
             fit    == {once, always} \cap ToSet(options)
         IN  /\ once \in fit    => Answer(policy, options) = once
             /\ fit = {always} => Answer(policy, options) = always
             /\ fit = {}       => Answer(policy, options) = "cancelled"
<1> DEFINE once   == IF policy = "allow" THEN "allow_once" ELSE "reject_once"
           always == IF policy = "allow" THEN "allow_always" ELSE "reject_always"
           offered == ToSet(options)
           fit == Among(Wanted(policy), offered)
<1>1. Wanted(policy) = <<once, always>> /\ once # always
  BY DEF Wanted
<1>2. fit = {i \in {1, 2} : (i = 1 /\ once \in offered) \/ (i = 2 /\ always \in offered)}
  <2> HIDE DEF offered, once, always
  <2> QED BY <1>1 DEF Among
<1> HIDE DEF once, always, offered
<1>3. Answer(policy, options) = IF fit = {} THEN "cancelled" ELSE Wanted(policy)[Min(fit)]
  BY DEF Answer, offered
<1>4. CASE once \in offered
  <2>1. 1 \in fit /\ \A i \in fit : 1 <= i
    BY <1>2, <1>4
  <2>2. Min(fit) \in fit /\ Min(fit) <= 1
    <3> HIDE DEF fit
    <3> QED BY <2>1 DEF Min
  <2>3. Min(fit) = 1
    BY <1>2, <2>2
  <2>4. Answer(policy, options) = once
    <3> HIDE DEF fit
    <3> QED BY <1>1, <1>3, <2>1, <2>3
  <2> QED BY <1>1, <1>4, <2>4 DEF once, always, offered
<1>5. CASE once \notin offered /\ always \in offered
  <2>1. fit = {2}
    BY <1>2, <1>5
  <2>2. Min(fit) = 2
    <3> HIDE DEF fit
    <3> QED BY <2>1 DEF Min
  <2>3. Answer(policy, options) = always
    <3> HIDE DEF fit
    <3> QED BY <1>1, <1>3, <2>1, <2>2
  <2> QED BY <1>1, <1>5, <2>3 DEF once, always, offered
<1>6. CASE once \notin offered /\ always \notin offered
  <2>1. Answer(policy, options) = "cancelled"
    BY <1>2, <1>3, <1>6
  <2> QED BY <1>1, <1>6, <2>1 DEF once, always, offered
<1> QED BY <1>4, <1>5, <1>6

Blocks == Seq(Status \cup {"malformed"})

\* No block counts, or the last that does.
LEMMA LastWellFormed ==
  ASSUME NEW blocks \in Blocks
  PROVE  \/ Parsed(blocks) = "none" /\ \A i \in DOMAIN blocks : blocks[i] \notin AgentStatuses
         \/ \E i \in DOMAIN blocks :
              /\ Parsed(blocks) = blocks[i] /\ blocks[i] \in AgentStatuses
              /\ \A j \in DOMAIN blocks : j > i => blocks[j] \notin AgentStatuses
<1> DEFINE good == Among(blocks, AgentStatuses)
<1>1. CASE good = {}
  BY <1>1 DEF Parsed, Among
<1>2. CASE good # {}
  <2>1. /\ good \in SUBSET Nat /\ Len(blocks) \in Nat
        /\ \A i \in good : i <= Len(blocks)
        /\ \A i \in DOMAIN blocks : i \in Nat
    BY DEF Among, Blocks
  <2>2. Max(good) \in good /\ \A i \in good : i <= Max(good)
    <3> HIDE DEF good
    <3> QED BY <1>2, <2>1, Greatest
  <2>3. Parsed(blocks) = blocks[Max(good)]
    BY <1>2 DEF Parsed
  <2>4. \A i \in DOMAIN blocks : i \in good <=> blocks[i] \in AgentStatuses
    BY DEF Among
  <2>5. good \subseteq DOMAIN blocks
    BY DEF Among
  <2>6. ASSUME NEW j \in DOMAIN blocks, j > Max(good) PROVE j \notin good
    <3> HIDE DEF good
    <3>1. Max(good) \in Nat /\ j \in Nat
      BY <2>1, <2>2
    <3> QED BY <2>2, <2>6, <3>1
  <2> HIDE DEF good
  <2> QED BY <2>2, <2>3, <2>4, <2>5, <2>6
<1> QED BY <1>1, <1>2

\* What an ACP run comes to.
LEMMA AcpResultOf ==
  ASSUME NEW o, o.blocks \in Blocks
  PROVE  /\ AcpResult(o) \in Status
         /\ AcpResult(o) \in {"cancelled", "timed_out"} => o.cancelled
         /\ AcpResult(o) = "success" =>
              /\ ~o.cancelled /\ o.error = "none" /\ o.stop # "refusal"
              /\ \E i \in DOMAIN o.blocks :
                   /\ o.blocks[i] = "success"
                   /\ \A j \in DOMAIN o.blocks : j > i => o.blocks[j] \notin AgentStatuses
<1>1. Parsed(o.blocks) \in AgentStatuses \cup {"none"}
  BY LastWellFormed
<1>2. Parsed(o.blocks) = "success" =>
        \E i \in DOMAIN o.blocks :
          /\ o.blocks[i] = "success"
          /\ \A j \in DOMAIN o.blocks : j > i => o.blocks[j] \notin AgentStatuses
  BY LastWellFormed
<1>3. ErrorStatus(o.error) \in {"unavailable", "rate_limited", "failed"}
  BY DEF ErrorStatus
<1>4. CASE o.cancelled
  BY <1>4 DEF AcpResult, Status
<1>5. CASE ~o.cancelled /\ o.error # "none"
  <2>1. AcpResult(o) = ErrorStatus(o.error)
    BY <1>5 DEF AcpResult
  <2> QED BY <1>3, <2>1 DEF Status
<1>6. CASE ~o.cancelled /\ o.error = "none"
  <2>1. AcpResult(o) =
         IF o.stop = "refusal" THEN "blocked"
         ELSE IF Parsed(o.blocks) # "none" THEN Parsed(o.blocks)
         ELSE IF o.stop \in {"max_tokens", "max_turn_requests"} THEN "failed"
         ELSE IF o.blocks # <<>> \/ o.prose THEN "needs_review"
         ELSE IF o.noise THEN "rate_limited"
         ELSE "failed"
    BY <1>6 DEF AcpResult
  <2>2. CASE o.stop # "refusal" /\ Parsed(o.blocks) # "none"
    <3>1. AcpResult(o) = Parsed(o.blocks)
      BY <2>1, <2>2
    <3> QED BY <1>1, <1>2, <1>6, <2>2, <3>1 DEF Status, AgentStatuses
  <2>3. CASE o.stop = "refusal" \/ Parsed(o.blocks) = "none"
    <3>1. AcpResult(o) \in {"blocked", "failed", "needs_review", "rate_limited"}
      BY <2>1, <2>3
    <3> QED BY <3>1 DEF Status
  <2> QED BY <2>2, <2>3
<1> QED BY <1>4, <1>5, <1>6

\* What a command comes to.
LEMMA CommandOutcomeOf ==
  ASSUME NEW o
  PROVE  /\ CommandOutcome(o) \in Status
         /\ CommandOutcome(o) \in {"cancelled", "timed_out"} => o.cancelled
         /\ CommandOutcome(o) = "success" => ~o.cancelled /\ o.code = 0
BY DEF CommandOutcome, CommandResult, Status

\* A card is done only of a success, and of a lane that says so.
LEMMA PlanDone ==
  ASSUME NEW l, NEW status, NEW pidTracked, Plan(l, status, pidTracked).to = "done"
  PROVE  status = "success" /\ l.on_success # "review"
<1>1. CASE status = "success"
  BY <1>1 DEF Plan, Write, NoWrite
<1>2. CASE status # "success"
  BY <1>2 DEF Plan, Write, NoWrite
<1> QED BY <1>1, <1>2

-----------------------------------------------------------------------------
(***************************************************************************)
(* The invariant, action by action                                         *)
(***************************************************************************)
\* The lanes of an accepted file are of its assignees.
LEMMA LanesAreOfAssignees ==
  ASSUME NEW f, ConfigOk(f), NEW a \in DOMAIN ParseConfig(f)
  PROVE  a \in Assignees
<1>1. PICK n \in DOMAIN f.lanes : f.lanes[n]["assignee"] = a
  BY DEF ParseConfig
<1>2. LaneOk(f.lanes[n])
  BY DEF ConfigOk
<1>3. Get(f.lanes[n])["assignee"] \in Assignees
  BY <1>2 DEF LaneOk, FieldsOk
<1>4. "assignee" \in DOMAIN f.lanes[n]
  <2>1. \A adapter : LaneDefault(adapter)["assignee"] = "null"
    BY DEF LaneDefault, LaneKeys, Counts
  <2>2. "null" \notin Assignees
    BY ConfigAssumption
  <2> QED BY <1>3, <2>1, <2>2 DEF Get, LaneKeys
<1> QED BY <1>1, <1>3, <1>4 DEF Get, LaneKeys

\* A listing that does not fail is of the work tree.
LEMMA PorcelainIsDirty ==
  ASSUME IsFiniteSet(dirty), NEW ok \in BOOLEAN
  PROVE  Porcelain(ok, dirty) = IF ok THEN Dirty ELSE NotARepository
BY PorcelainReads DEF Porcelain, Dirty

\* The paths and changes of the card's kind.
Changes == [path : Paths[kind], source : Paths[kind] \cup {NoSource}]

\* An edit of the work tree, whoever makes it, changes only the tree and its
\* history, and lists no path anew that it does not book.
LEMMA EditIsBooked ==
  ASSUME TypeOK, IsFiniteSet(dirty), EditTree
  PROVE  /\ stage = "launched"
         /\ UNCHANGED <<stage, kind, file, lanes, card, lane, env, before, asked, left, result, evidence, plan>>
         /\ IsFiniteSet(dirty') /\ dirty' \subseteq Changes
         /\ touched \subseteq touched' /\ touched' \subseteq Paths[kind]
         /\ foreign \subseteq foreign' /\ foreign' \subseteq Paths[kind]
         /\ Dirty' \subseteq Dirty \cup touched' \cup foreign'
<1>t. dirty \subseteq Changes /\ touched \subseteq Paths[kind] /\ foreign \subseteq Paths[kind]
  BY DEF TypeOK, Changes
<1>1. /\ stage = "launched"
      /\ UNCHANGED <<stage, kind, file, lanes, card, lane, env, before, asked, left, result, evidence, plan>>
  BY DEF EditTree, Commit, Edit, Rename, Unpair
<1>b. ASSUME NEW who, NEW paths \in SUBSET Paths[kind], NEW listed \in SUBSET Paths[kind],
             Books(who, paths, listed)
      PROVE  /\ touched \subseteq touched' /\ touched' \subseteq Paths[kind]
             /\ foreign \subseteq foreign' /\ foreign' \subseteq Paths[kind]
             /\ paths \cup listed \subseteq touched' \cup foreign'
  BY <1>b, <1>t DEF Books
\* Changes on top of a part of the tree list their paths, and no more.
<1>d. ASSUME NEW rest \in SUBSET dirty, NEW c \in Changes, NEW d \in Changes, dirty' = rest \cup {c, d}
      PROVE  /\ IsFiniteSet(dirty') /\ dirty' \subseteq Changes
             /\ Dirty' \subseteq Dirty \cup {c.path, d.path}
  <2>1. IsFiniteSet(rest)
    BY FS_Subset
  <2>2. IsFiniteSet(rest \cup {c})
    BY <2>1, FS_AddElement
  <2>3. IsFiniteSet((rest \cup {c}) \cup {d})
    BY <2>2, FS_AddElement
  <2>4. (rest \cup {c}) \cup {d} = rest \cup {c, d}
    OBVIOUS
  <2>5. Dirty' = {x.path : x \in rest \cup {c, d}}
    BY <1>d DEF Dirty
  <2> QED BY <1>d, <1>t, <2>3, <2>4, <2>5 DEF Dirty
<1>2. CASE Commit
  <2>1. dirty' = {} /\ touched' = touched /\ foreign' = foreign
    BY <1>2 DEF Commit
  <2>2. IsFiniteSet(dirty') /\ Dirty' = {}
    BY <2>1, FS_EmptySet DEF Dirty
  <2> QED BY <1>1, <1>t, <2>1, <2>2
<1>3. ASSUME NEW who \in Editors, Edit(who)
      PROVE  /\ IsFiniteSet(dirty') /\ dirty' \subseteq Changes
             /\ touched \subseteq touched' /\ touched' \subseteq Paths[kind]
             /\ foreign \subseteq foreign' /\ foreign' \subseteq Paths[kind]
             /\ Dirty' \subseteq Dirty \cup touched' \cup foreign'
  <2>1. PICK p \in Paths[kind], change \in BOOLEAN :
          /\ dirty' = IF change /\ p \notin Dirty THEN dirty \cup {Change(p, NoSource)}
                      ELSE IF ~change THEN {c \in dirty : c.path # p}
                      ELSE dirty
          /\ Books(who, {p}, {})
    BY <1>3 DEF Edit
  <2>2. /\ touched \subseteq touched' /\ touched' \subseteq Paths[kind]
        /\ foreign \subseteq foreign' /\ foreign' \subseteq Paths[kind]
        /\ p \in touched' \cup foreign'
    BY <2>1, <1>b
  <2>3. CASE dirty' = dirty \cup {Change(p, NoSource)}
    <3>1. Change(p, NoSource) \in Changes /\ Change(p, NoSource).path = p
      BY DEF Change, Changes
    <3>2. dirty' = dirty \cup {Change(p, NoSource), Change(p, NoSource)}
      BY <2>3
    <3>3. IsFiniteSet(dirty') /\ dirty' \subseteq Changes /\ Dirty' \subseteq Dirty \cup {p}
      BY <1>d, <3>1, <3>2
    <3> QED BY <2>2, <3>3
  <2>4. CASE dirty' \in SUBSET dirty
    <3>1. IsFiniteSet(dirty')
      BY <2>4, FS_Subset
    <3>2. Dirty' \subseteq Dirty
      BY <2>4 DEF Dirty
    <3> QED BY <2>2, <2>4, <3>1, <3>2, <1>t
  <2> QED BY <2>1, <2>3, <2>4
<1>4. ASSUME NEW who \in Editors, Rename(who)
      PROVE  /\ IsFiniteSet(dirty') /\ dirty' \subseteq Changes
             /\ touched \subseteq touched' /\ touched' \subseteq Paths[kind]
             /\ foreign \subseteq foreign' /\ foreign' \subseteq Paths[kind]
             /\ Dirty' \subseteq Dirty \cup touched' \cup foreign'
  <2>1. PICK p \in Paths[kind], q \in Paths[kind] :
          dirty' = dirty \cup {Change(q, p)} /\ Books(who, {p, q}, {})
    BY <1>4 DEF Rename
  <2>2. /\ touched \subseteq touched' /\ touched' \subseteq Paths[kind]
        /\ foreign \subseteq foreign' /\ foreign' \subseteq Paths[kind]
        /\ q \in touched' \cup foreign'
    BY <2>1, <1>b
  <2>3. Change(q, p) \in Changes /\ Change(q, p).path = q
    BY DEF Change, Changes
  <2>4. dirty' = dirty \cup {Change(q, p), Change(q, p)}
    BY <2>1
  <2>5. IsFiniteSet(dirty') /\ dirty' \subseteq Changes /\ Dirty' \subseteq Dirty \cup {q}
    BY <1>d, <2>3, <2>4
  <2> QED BY <2>2, <2>5
<1>5. ASSUME NEW who \in Editors, Unpair(who)
      PROVE  /\ IsFiniteSet(dirty') /\ dirty' \subseteq Changes
             /\ touched \subseteq touched' /\ touched' \subseteq Paths[kind]
             /\ foreign \subseteq foreign' /\ foreign' \subseteq Paths[kind]
             /\ Dirty' \subseteq Dirty \cup touched' \cup foreign'
  <2>1. PICK c \in dirty :
          /\ c.source # NoSource
          /\ dirty' = (dirty \ {c}) \cup {Change(c.path, NoSource), Change(c.source, NoSource)}
          /\ Books(who, {c.path}, {c.source})
    BY <1>5 DEF Unpair
  <2>2. c.path \in Paths[kind] /\ c.source \in Paths[kind]
    BY <2>1, <1>t DEF Changes
  <2>3. /\ touched \subseteq touched' /\ touched' \subseteq Paths[kind]
        /\ foreign \subseteq foreign' /\ foreign' \subseteq Paths[kind]
        /\ {c.path, c.source} \subseteq touched' \cup foreign'
    BY <2>1, <2>2, <1>b
  <2>4. /\ Change(c.path, NoSource) \in Changes /\ Change(c.path, NoSource).path = c.path
        /\ Change(c.source, NoSource) \in Changes /\ Change(c.source, NoSource).path = c.source
    BY <2>2 DEF Change, Changes
  <2>5. IsFiniteSet(dirty') /\ dirty' \subseteq Changes /\ Dirty' \subseteq Dirty \cup {c.path, c.source}
    <3>1. dirty \ {c} \in SUBSET dirty
      OBVIOUS
    <3>2. /\ IsFiniteSet(dirty') /\ dirty' \subseteq Changes
          /\ Dirty' \subseteq Dirty \cup {Change(c.path, NoSource).path, Change(c.source, NoSource).path}
      BY <1>d, <2>1, <2>4, <3>1
    <3> QED BY <2>4, <3>2
  <2> QED BY <2>3, <2>5
<1> QED BY <1>1, <1>2, <1>3, <1>4, <1>5 DEF EditTree

\* A list of at most n names is a part of the paths, and all of them if it is not full.
LEMMA TruncatedIsPart ==
  ASSUME NEW S, NEW n \in Nat, NEW some \in Truncated(S, n)
  PROVE  some \subseteq S /\ (Cardinality(some) < n => some = S)
BY DEF Truncated

\* Where the stages are named.
Stages == {"off", "refused", "serving", "started", "broken", "launched", "ended", "applied"}

\* The invariant holds before the daemon has read its configuration.
LEMMA InitPath == Init => PathInv
<1> SUFFICES ASSUME Init PROVE PathInv
  OBVIOUS
<1>1. /\ kind \in Kinds /\ file \in Files[kind] /\ dirty \in Trees[kind]
      /\ stage = "off" /\ lanes = <<>> /\ card = Nobody /\ lane = None /\ env = <<>>
      /\ before = {} /\ touched = {} /\ foreign = {} /\ asked = None /\ left = None
      /\ result = "none" /\ evidence = NoEvidence /\ plan = None
  BY DEF Init
<1>2. IsFiniteSet(dirty) /\ dirty \subseteq [path : Paths[kind], source : Paths[kind] \cup {NoSource}]
  BY <1>1, PathAssumption
<1>3. TypeOK
  BY <1>1, <1>2 DEF TypeOK, NoEvidence
<1>4. LaneInv
  BY <1>1 DEF LaneInv, AcceptedLaneStarts, Running
<1>5. ChildInv
  BY <1>1 DEF ChildInv
<1>6. OutcomeInv
  BY <1>1 DEF OutcomeInv
<1>7. TreeInv
  BY <1>1, <1>2 DEF TreeInv, NoEvidence
<1> QED BY <1>3, <1>4, <1>5, <1>6, <1>7 DEF PathInv

\* What the supervisor parses of a lane the daemon serves.
LEMMA ServedLane ==
  ASSUME ConfigOk(file), lanes = ParseConfig(file), NEW a \in DOMAIN lanes
  PROVE  LET body == FromDict(ToDict(lanes[a]))
         IN  LaneOk(body) /\ Executable(Lane(body))
BY EveryLaneStarts

\* Only Serve makes a lane, and it makes it of an accepted one.
LEMMA LaneStep == PathInv /\ [Next]_vars => LaneInv'
<1> SUFFICES ASSUME PathInv, [Next]_vars PROVE LaneInv'
  OBVIOUS
<1>i. LaneInv /\ stage \in Stages
  BY DEF PathInv, TypeOK, Stages
<1>e. EditTree => stage = "launched" /\ UNCHANGED <<stage, file, lanes, card, lane>>
  BY EditIsBooked DEF PathInv, TreeInv
<1>1. CASE LoadConfig
  BY <1>1, <1>i DEF LoadConfig, LaneInv, AcceptedLaneStarts, Running, Go
<1>2. CASE Serve
  <2>1. stage = "serving" /\ ConfigOk(file) /\ lanes = ParseConfig(file)
    BY <1>2, <1>i DEF Serve, Go, LaneInv
  <2>2. PICK a \in DOMAIN lanes :
          /\ card' = a
          /\ IF LaneOk(FromDict(ToDict(lanes[a])))
             THEN stage' = "started" /\ lane' = Lane(FromDict(ToDict(lanes[a])))
             ELSE stage' = "broken"
    BY <1>2 DEF Serve, Go
  <2>3. LaneOk(FromDict(ToDict(lanes[a])))
    BY <2>1, ServedLane
  <2>4. stage' = "started" /\ lane' = Lane(FromDict(ToDict(lanes[a]))) /\ card' = a
    BY <2>2, <2>3
  <2>5. file' = file /\ lanes' = lanes
    BY <1>2 DEF Serve
  <2> QED BY <2>1, <2>4, <2>5 DEF LaneInv, AcceptedLaneStarts, Running
<1>3. CASE Unfit
  <2>1. stage = "started" /\ ConfigOk(file) /\ lanes = ParseConfig(file)
        /\ card \in DOMAIN lanes /\ lane = Lane(FromDict(ToDict(lanes[card])))
    BY <1>3, <1>i DEF Unfit, LaneInv, Running
  <2>2. Executable(lane)
    BY <2>1, ServedLane
  <2>3. stage' = "ended" /\ UNCHANGED <<file, lanes, card, lane>>
    BY <1>3, <2>2 DEF Unfit, Go
  <2> QED BY <2>1, <2>3 DEF LaneInv, AcceptedLaneStarts, Running
<1>4. CASE NotLaunched \/ Launch \/ LaunchRaises \/ EditTree \/ WorkerAsks \/ Collect \/ Apply
  <2>1. /\ stage \in Running /\ stage' \in Running
        /\ UNCHANGED <<file, lanes, card, lane>>
    BY <1>4, <1>e DEF NotLaunched, Launch, LaunchRaises, WorkerAsks, Collect, Apply, Go, Running
  <2> QED BY <2>1, <1>i DEF LaneInv, AcceptedLaneStarts, Running
<1>5. CASE UNCHANGED vars
  BY <1>5, <1>i DEF vars, LaneInv, AcceptedLaneStarts
<1> QED BY <1>1, <1>2, <1>3, <1>4, <1>5 DEF Next

\* Only Launch makes an environment and only WorkerAsks asks.
LEMMA ChildStep == PathInv /\ [Next]_vars => ChildInv'
<1> SUFFICES ASSUME PathInv, [Next]_vars PROVE ChildInv'
  OBVIOUS
<1>i. ChildInv
  BY DEF PathInv
<1>e. EditTree => UNCHANGED <<stage, kind, lane, env, asked>>
  BY EditIsBooked DEF PathInv, TreeInv
<1>1. CASE LoadConfig \/ Serve \/ Unfit \/ NotLaunched \/ LaunchRaises
  <2>1. /\ stage' # "launched" /\ asked' = asked
        /\ stage \notin {"launched", "ended", "applied"}
    BY <1>1 DEF LoadConfig, Serve, Unfit, NotLaunched, LaunchRaises, Go
  <2>2. asked = None
    BY <2>1, <1>i DEF ChildInv, Running
  <2> QED BY <2>1, <2>2 DEF ChildInv
<1>2. CASE Launch
  <2>1. /\ stage = "started" /\ stage' = "launched" /\ lane' = lane /\ kind' = kind /\ asked' = asked
        /\ \E parent \in Parents[kind] : env' = ChildEnv(Policies[lane.env], parent)
    BY <1>2 DEF Launch, Go
  <2>2. asked = None
    BY <2>1, <1>i DEF ChildInv, Running
  <2> QED BY <2>1, <2>2 DEF ChildInv
<1>3. CASE EditTree
  BY <1>3, <1>e, <1>i DEF ChildInv
<1>4. CASE WorkerAsks
  <2>1. /\ stage = "launched" /\ UNCHANGED <<stage, kind, lane, env>>
        /\ asked'.answer = Answer(lane.permission_policy, asked'.options)
    BY <1>4 DEF WorkerAsks
  <2> QED BY <2>1, <1>i DEF ChildInv, Running
<1>5. CASE Collect \/ Apply
  <2>1. /\ stage' \in {"ended", "applied"} /\ UNCHANGED <<kind, lane, asked>>
    BY <1>5 DEF Collect, Apply, Go
  <2> QED BY <2>1, <1>i DEF ChildInv, Running
<1>6. CASE UNCHANGED vars
  BY <1>6, <1>i DEF vars, ChildInv
<1> QED BY <1>1, <1>2, <1>3, <1>4, <1>5, <1>6 DEF Next

\* Results come from Unfit, NotLaunched and Collect, transitions from Apply and LaunchRaises.
LEMMA OutcomeStep == PathInv /\ [Next]_vars => OutcomeInv'
<1> SUFFICES ASSUME PathInv, [Next]_vars PROVE OutcomeInv'
  OBVIOUS
<1>i. OutcomeInv
  BY DEF PathInv
<1>e. EditTree => stage = "launched" /\ UNCHANGED <<stage, result>>
  BY EditIsBooked DEF PathInv, TreeInv
<1>1. CASE LoadConfig \/ Serve \/ Launch \/ EditTree \/ WorkerAsks
  <2>1. stage \notin {"ended", "applied"} /\ stage' \notin {"ended", "applied"} /\ result' = result
    BY <1>1, <1>e DEF LoadConfig, Serve, Launch, WorkerAsks, Go
  <2> QED BY <2>1, <1>i DEF OutcomeInv
<1>2. CASE Unfit
  <2>1. result' \in {"none", "unavailable"} /\ stage' # "applied" /\ (stage' # "ended" => result' = "none")
    BY <1>2, <1>i DEF Unfit, Go, OutcomeInv
  <2> QED BY <2>1 DEF OutcomeInv
<1>7. CASE NotLaunched
  <2>1. /\ stage' = "ended"
        /\ \/ result' = "failed"
           \/ left'.cancelled /\ result' = "cancelled"
    BY <1>7 DEF NotLaunched, Go
  <2> QED BY <2>1 DEF OutcomeInv, Overrides
<1>3. CASE LaunchRaises
  <2>1. /\ stage = "started" /\ stage' = "applied" /\ result' = result /\ plan' = NoWrite(ExitFailed)
    BY <1>3 DEF LaunchRaises, Go
  <2> QED BY <2>1, <1>i DEF OutcomeInv
<1>4. CASE Collect
  <2>1. /\ stage' = "ended" /\ lane' = lane /\ kind' = kind
        /\ IF lane.adapter = "command"
           THEN result' \in Final(left', CommandOutcome(left'))
           ELSE left' \in Acps[kind] /\ result' \in Final(left', AcpResult(left'))
    BY <1>4 DEF Collect, Go
  <2>2. CASE left'.cancelled
    BY <2>1, <2>2 DEF OutcomeInv, Final
  <2>3. CASE ~left'.cancelled
    BY <2>1, <2>3 DEF OutcomeInv, Final
  <2> QED BY <2>2, <2>3
<1>5. CASE Apply
  <2>1. /\ stage' = "applied" /\ UNCHANGED <<lane, kind, left, result>>
        /\ \E pidTracked \in BOOLEAN : plan' = Plan(lane, result, pidTracked)
    BY <1>5 DEF Apply, Go
  <2> QED BY <2>1, <1>i DEF OutcomeInv
<1>6. CASE UNCHANGED vars
  BY <1>6, <1>i DEF vars, OutcomeInv
<1> QED BY <1>1, <1>2, <1>3, <1>4, <1>5, <1>6, <1>7 DEF Next

\* While the worker runs, a path that was not dirty becomes so only if that is booked.
LEMMA TreeStep == PathInv /\ [Next]_vars => TreeInv'
<1> SUFFICES ASSUME PathInv, [Next]_vars PROVE TreeInv'
  OBVIOUS
<1>i. TreeInv /\ IsFiniteSet(dirty)
  BY DEF PathInv, TreeInv
<1>1. CASE LoadConfig \/ Serve \/ Unfit \/ NotLaunched \/ LaunchRaises \/ Apply
  <2>1. /\ UNCHANGED <<dirty, before, touched, foreign, evidence>> /\ stage' # "launched"
        /\ stage \in {"ended", "applied"} => stage' \in {"ended", "applied"}
    BY <1>1 DEF LoadConfig, Serve, Unfit, NotLaunched, LaunchRaises, Apply, Go
  <2>2. Dirty' = Dirty
    BY <2>1 DEF Dirty
  <2> QED BY <2>1, <2>2, <1>i DEF TreeInv
<1>2. CASE Launch
  <2>1. /\ stage = "started" /\ UNCHANGED <<dirty, touched, foreign, evidence>>
        /\ \E ok \in BOOLEAN : before' = Porcelain(ok, dirty)
    BY <1>2 DEF Launch, Go
  <2>2. evidence = NoEvidence
    BY <2>1, <1>i DEF TreeInv
  <2>3. before' \in {Dirty, NotARepository}
    BY <2>1, <1>i, PorcelainIsDirty
  <2>4. Dirty' = Dirty
    BY <2>1 DEF Dirty
  <2>5. before' = NotARepository \/ Dirty' \ before' \subseteq touched' \cup foreign'
    BY <2>3, <2>4
  <2> QED BY <2>1, <2>2, <2>5, <1>i DEF TreeInv
<1>3. CASE EditTree
  <2>1. /\ stage = "launched" /\ UNCHANGED <<stage, before, evidence>>
        /\ IsFiniteSet(dirty') /\ touched \subseteq touched' /\ foreign \subseteq foreign'
        /\ Dirty' \subseteq Dirty \cup touched' \cup foreign'
    BY <1>3, <1>i, EditIsBooked DEF PathInv
  <2>2. evidence = NoEvidence /\ (before = NotARepository \/ Dirty \ before \subseteq touched \cup foreign)
    BY <2>1, <1>i DEF TreeInv
  <2>3. before' = NotARepository \/ Dirty' \ before' \subseteq touched' \cup foreign'
    BY <2>1, <2>2
  <2> QED BY <2>1, <2>2, <2>3 DEF TreeInv
<1>4. CASE WorkerAsks
  <2>1. UNCHANGED <<stage, dirty, before, touched, foreign, evidence>>
    BY <1>4 DEF WorkerAsks
  <2>2. Dirty' = Dirty
    BY <2>1 DEF Dirty
  <2> QED BY <2>1, <2>2, <1>i DEF TreeInv
<1>5. CASE Collect
  <2>1. /\ stage = "launched" /\ stage' = "ended" /\ UNCHANGED <<dirty, before, touched, foreign>>
        /\ \E ok \in BOOLEAN : evidence' \in ChangeMetadata(before, Porcelain(ok, dirty))
    BY <1>5 DEF Collect, Go
  <2>2. before = NotARepository \/ Dirty \ before \subseteq touched \cup foreign
    BY <2>1, <1>i DEF TreeInv
  <2>3. evidence' \in ChangeMetadata(before, Dirty) \cup {NoEvidence}
    <3>1. ChangeMetadata(before, NotARepository) = {NoEvidence}
      BY DEF ChangeMetadata
    <3> QED BY <2>1, <3>1, <1>i, PorcelainIsDirty
  <2>4. Dirty' = Dirty
    BY <2>1 DEF Dirty
  <2> QED BY <2>1, <2>2, <2>3, <2>4, <1>i DEF TreeInv
<1>6. CASE UNCHANGED vars
  <2>1. UNCHANGED <<stage, dirty, before, touched, foreign, evidence>>
    BY <1>6 DEF vars
  <2>2. Dirty' = Dirty
    BY <2>1 DEF Dirty
  <2> QED BY <2>1, <2>2, <1>i DEF TreeInv
<1> QED BY <1>1, <1>2, <1>3, <1>4, <1>5, <1>6 DEF Next

\* Types, which need the listing to be of the work tree's paths only.
LEMMA TypeStep == PathInv /\ [Next]_vars => TypeOK'
<1> SUFFICES ASSUME PathInv, [Next]_vars PROVE TypeOK'
  OBVIOUS
<1>i. TypeOK /\ IsFiniteSet(dirty) /\ Dirty \subseteq Paths[kind]
  <2>1. TypeOK /\ IsFiniteSet(dirty)
    BY DEF PathInv, TreeInv
  <2> QED BY <2>1 DEF TypeOK, Dirty
<1>p. \A ok \in BOOLEAN : Porcelain(ok, dirty) \subseteq Paths[kind] \/ Porcelain(ok, dirty) = NotARepository
  BY <1>i, PorcelainIsDirty
<1>1. CASE LoadConfig
  BY <1>1, <1>i DEF LoadConfig, Go, TypeOK
<1>2. CASE Serve
  <2>1. PICK a \in DOMAIN lanes : card' = a
    BY <1>2 DEF Serve
  <2>2. a \in Assignees
    <3>1. ConfigOk(file) /\ lanes = ParseConfig(file)
      BY <1>2 DEF Serve, Go, PathInv, LaneInv
    <3> QED BY <2>1, <3>1, LanesAreOfAssignees
  <2> QED BY <1>2, <1>i, <2>1, <2>2 DEF Serve, Go, TypeOK
<1>3. CASE Unfit
  BY <1>3, <1>i DEF Unfit, Go, TypeOK, Status
<1>11. CASE NotLaunched
  BY <1>11, <1>i DEF NotLaunched, Go, TypeOK, Status
<1>4. CASE Launch
  <2>1. before' \subseteq Paths[kind] \/ before' = NotARepository
    BY <1>4, <1>p DEF Launch
  <2> QED BY <1>4, <1>i, <2>1 DEF Launch, Go, TypeOK
<1>5. CASE LaunchRaises
  BY <1>5, <1>i DEF LaunchRaises, Go, TypeOK
<1>6. CASE EditTree
  <2>1. /\ UNCHANGED <<stage, kind, file, card, before, result, evidence>>
        /\ dirty' \subseteq Changes /\ touched' \subseteq Paths[kind] /\ foreign' \subseteq Paths[kind]
    BY <1>6, <1>i, EditIsBooked
  <2> QED BY <2>1, <1>i DEF TypeOK, Changes
<1>7. CASE WorkerAsks
  BY <1>7, <1>i DEF WorkerAsks, TypeOK
<1>8. CASE Collect
  <2>1. result' \in Status
    <3>1. CASE lane.adapter = "command"
      BY <1>8, <3>1, CommandOutcomeOf DEF Collect, Final, Overrides, Status
    <3>2. CASE lane.adapter # "command"
      <4>1. PICK o \in Acps[kind] : result' \in Final(o, AcpResult(o))
        BY <1>8, <3>2 DEF Collect
      <4>2. o.blocks \in Blocks
        BY <1>i, PathAssumption DEF TypeOK, Blocks
      <4> QED BY <4>1, <4>2, AcpResultOf DEF Final, Overrides, Status
    <3> QED BY <3>1, <3>2
  <2>2. evidence'.changed \subseteq Paths[kind] /\ evidence'.preexisting \subseteq Paths[kind]
    <3>1. PICK ok \in BOOLEAN : evidence' \in ChangeMetadata(before, Porcelain(ok, dirty))
      BY <1>8 DEF Collect
    <3>2. Known(before) \subseteq Paths[kind]
      BY <1>i DEF Known, TypeOK
    <3>3. CASE Porcelain(ok, dirty) = NotARepository
      BY <3>1, <3>3 DEF ChangeMetadata, NoEvidence
    <3>4. CASE Porcelain(ok, dirty) # NotARepository
      <4>1. /\ evidence'.changed \in Truncated(Porcelain(ok, dirty) \ Known(before), MaxChanged)
            /\ evidence'.preexisting \in Truncated(Known(before), MaxPreexisting)
        BY <3>1, <3>4 DEF ChangeMetadata
      <4>2. Porcelain(ok, dirty) \subseteq Paths[kind]
        BY <1>p, <3>4
      <4> QED BY <3>2, <4>1, <4>2 DEF Truncated
    <3> QED BY <3>3, <3>4
  <2> QED BY <1>8, <1>i, <2>1, <2>2 DEF Collect, Go, TypeOK
<1>9. CASE Apply
  BY <1>9, <1>i DEF Apply, Go, TypeOK
<1>10. CASE UNCHANGED vars
  BY <1>10, <1>i DEF vars, TypeOK
<1> QED BY <1>1, <1>2, <1>3, <1>4, <1>5, <1>6, <1>7, <1>8, <1>9, <1>10, <1>11 DEF Next

\* The invariant of the path.
LEMMA PathInvariance == Spec => []PathInv
<1>1. PathInv /\ [Next]_vars => PathInv'
  BY TypeStep, LaneStep, ChildStep, OutcomeStep, TreeStep DEF PathInv
<1> QED BY InitPath, <1>1, PTL DEF Spec

-----------------------------------------------------------------------------
(***************************************************************************)
(* The properties of the path                                              *)
(***************************************************************************)
\* Every value keeps its type; the work tree's, for one, are paths that may be
\* in it and never what is left of a rename's source (gitstate.py:24-33).
THEOREM PathTypes == Spec => []TypeOK
<1>1. PathInv => TypeOK
  BY DEF PathInv
<1> QED BY PathInvariance, <1>1, PTL

\* Whatever the configuration file says: once the daemon has accepted it, every
\* supervisor it starts can make an executable lane of what it is given
\* (config.py:98-142, scheduler.py:100-106, supervisor.py:105-108).
THEOREM PathStarts == Spec => []AcceptedLaneStarts
<1>1. PathInv => AcceptedLaneStarts
  BY DEF PathInv, LaneInv
<1> QED BY PathInvariance, <1>1, PTL

\* And it is the one lane of the file for its card's assignee, whole
\* (config.py:52-75, :109-142).
THEOREM PathKeepsTheLane == Spec => []LaneIsTheFiles
<1>1. ASSUME PathInv, stage \in Running
      PROVE  \E n \in DOMAIN file.lanes :
               /\ \A m \in DOMAIN file.lanes : file.lanes[m]["assignee"] = card <=> m = n
               /\ \A k \in LaneKeys : \/ lane[k] = Lane(file.lanes[n])[k]
                                      \/ k = "agent" /\ lane.adapter = "command"
  <2>1. /\ ConfigOk(file) /\ lanes = ParseConfig(file) /\ card \in DOMAIN lanes
        /\ lane = Lane(FromDict(ToDict(lanes[card])))
    BY <1>1 DEF PathInv, LaneInv, Running
  <2>2. PICK n \in DOMAIN file.lanes :
          /\ file.lanes[n]["assignee"] = card
          /\ \A k \in LaneKeys : \/ lane[k] = Lane(file.lanes[n])[k]
                                 \/ k = "agent" /\ Lane(file.lanes[n])["adapter"] = "command"
    BY <2>1, EveryLaneStarts
  <2>3. \A m \in DOMAIN file.lanes : file.lanes[m]["assignee"] = card <=> m = n
    BY <2>1, <2>2 DEF ConfigOk
  <2>4. lane["adapter"] = Lane(file.lanes[n])["adapter"]
    BY <2>2 DEF LaneKeys
  <2> QED BY <2>2, <2>3, <2>4
<1>2. PathInv => LaneIsTheFiles
  BY <1>1 DEF LaneIsTheFiles, Running
<1> QED BY PathInvariance, <1>2, PTL

\* For every environment of the supervisor and every policy of the lane, however
\* greedy, a child is confined to its own; and it is told of a permission what
\* the lane's policy says (envpolicy.py:30-45, acp.py:43-55).
THEOREM PathConfines == Spec => []ChildIsConfined
<1>1. ASSUME PathInv PROVE ChildIsConfined
  <2>1. ChildInv
    BY <1>1 DEF PathInv
  <2>2. stage = "launched" =>
          LET policy == Policies[lane.env] IN
          /\ \A n \in RunNames : n \in DOMAIN env /\ env[n] = "run"
          /\ DOMAIN env \cap DeniedNames = {}
          /\ DOMAIN env \subseteq RunNames \cup BaseAllowlist \cup policy.pass \cup DOMAIN policy.set
    BY <2>1, EnvIsConfined DEF ChildInv
  <2>3. asked # None => asked.answer = Answer(lane.permission_policy, asked.options)
    BY <2>1 DEF ChildInv
  <2> QED BY <2>2, <2>3, AnswerIsWanted DEF ChildIsConfined
<1> QED BY PathInvariance, <1>1, PTL

\* Whatever an agent writes, however many blocks and of whatever kind: no card is
\* done without what the README asks for, and no agent can say that it was
\* stopped (result.py:75-94, acp.py:151-192, command.py:67-83, lifecycle.py:29-76).
THEOREM PathEarnsOutcomes == Spec => []OutcomeIsEarned
<1>1. ASSUME PathInv PROVE OutcomeIsEarned
  <2>1. OutcomeInv /\ TypeOK
    BY <1>1 DEF PathInv
  <2>2. CASE result \in {"none", "unavailable", "failed"}
    <3>1. ~(stage = "applied" /\ plan.to = "done")
      BY <2>1, <2>2, PlanDone DEF OutcomeInv, NoWrite
    <3> QED BY <2>2, <3>1 DEF OutcomeIsEarned
  <2>3. CASE left.cancelled /\ result \in Overrides
    <3>1. ~(stage = "applied" /\ plan.to = "done")
      BY <2>1, <2>3, PlanDone DEF OutcomeInv, NoWrite, Overrides
    <3> QED BY <2>3, <3>1 DEF OutcomeIsEarned
  <2>4. CASE ~(result \in {"none", "unavailable", "failed"} \/ (left.cancelled /\ result \in Overrides))
    <3>1. \/ lane.adapter = "command" /\ result = CommandOutcome(left)
          \/ lane.adapter # "command" /\ left.blocks \in Blocks /\ result = AcpResult(left)
      BY <2>1, <2>4, PathAssumption DEF OutcomeInv, TypeOK, Blocks
    <3>2. result \in {"cancelled", "timed_out"} => left.cancelled
      BY <3>1, AcpResultOf, CommandOutcomeOf
    <3>3. ASSUME stage = "applied", plan.to = "done"
          PROVE  result = "success" /\ lane.on_success = "complete"
      <4>1. result = "success" /\ lane.on_success # "review"
        BY <2>1, <3>3, PlanDone DEF OutcomeInv, NoWrite
      <4>2. PICK a \in DOMAIN lanes : LaneOk(FromDict(ToDict(lanes[a])))
                                      /\ lane = Lane(FromDict(ToDict(lanes[a])))
        BY <1>1, <3>3, ServedLane DEF PathInv, LaneInv, Running
      <4>3. lane["on_success"] \in SuccessActions
        BY <4>2, LaneValues
      <4> QED BY <4>1, <4>3 DEF SuccessActions
    <3>4. result = "success" =>
            /\ ~left.cancelled
            /\ IF lane.adapter = "command" THEN left.code = 0
               ELSE /\ left.error = "none" /\ left.stop # "refusal"
                    /\ \E i \in DOMAIN left.blocks :
                         /\ left.blocks[i] = "success"
                         /\ \A j \in DOMAIN left.blocks : j > i => left.blocks[j] \notin AgentStatuses
      BY <3>1, AcpResultOf, CommandOutcomeOf
    <3> QED BY <3>2, <3>3, <3>4 DEF OutcomeIsEarned
  <2> QED BY <2>2, <2>3, <2>4
<1> QED BY PathInvariance, <1>1, PTL

\* For work trees of any size, with renames anywhere in the listing, whoever
\* else edits them during the run and wherever the two lists are cut off: what is
\* reported as changed was not before, and was changed by the run, by those
\* others, or together with what was renamed from it; and a list that is not full
\* has all of what the run has touched and left changed (gitstate.py:10-43).
THEOREM PathShowsChanges == Spec => []EvidenceIsTheRuns
<1>1. ASSUME PathInv PROVE EvidenceIsTheRuns
  <2>1. TreeInv
    BY <1>1 DEF PathInv
  <2> SUFFICES ASSUME evidence.listed, before # NotARepository
               PROVE  /\ evidence.changed \subseteq (touched \cup foreign) \ before
                      /\ Cardinality(evidence.changed) < MaxChanged =>
                           (Dirty \cap touched) \ before \subseteq evidence.changed
                      /\ Cardinality(evidence.preexisting) < MaxPreexisting =>
                           Dirty \cap touched \cap before \subseteq evidence.preexisting
    BY DEF EvidenceIsTheRuns
  <2>2. evidence \in ChangeMetadata(before, Dirty) /\ Dirty \ before \subseteq touched \cup foreign
    BY <2>1 DEF TreeInv, NoEvidence
  <2>3. Dirty # NotARepository
    <3>1. NoEvidence.listed = FALSE
      BY DEF NoEvidence
    <3>2. evidence # NoEvidence
      BY <3>1, Zenon
    <3> QED BY <2>2, <3>2 DEF ChangeMetadata
  <2>4. /\ evidence.changed \in Truncated(Dirty \ before, MaxChanged)
        /\ evidence.preexisting \in Truncated(before, MaxPreexisting)
    BY <2>2, <2>3 DEF ChangeMetadata, Known
  <2>5. /\ evidence.changed \subseteq Dirty \ before
        /\ Cardinality(evidence.changed) < MaxChanged => evidence.changed = Dirty \ before
        /\ Cardinality(evidence.preexisting) < MaxPreexisting => evidence.preexisting = before
    BY <2>4, CapAssumption, TruncatedIsPart
  <2> QED BY <2>2, <2>5
<1> QED BY PathInvariance, <1>1, PTL
=============================================================================
