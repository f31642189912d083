------------------------- MODULE BuildAdmissionProofs ------------------------
(***************************************************************************)
(* Lemmas about PodConstruction: what the controllers make of a template   *)
(* that the webhook has admitted, and what the init container reads back   *)
(* from the texts that it is given.  StandbyForecasterProofs applies them  *)
(* to the builds that are stored.                                          *)
(*                                                                         *)
(* The texts are written and read by loops, which PodConstruction defines  *)
(* by recursion on the number of rounds.  The first section has what is    *)
(* needed to reason about those.                                           *)
(***************************************************************************)
EXTENDS BuildAdmission, FiniteSetTheorems, WellFoundedInduction, TLAPS

-----------------------------------------------------------------------------
(* Induction and recursion on 0 .. n                                       *)

(* A set of numbers has a least one.                                       *)
LEMMA LeastNat ==
    ASSUME NEW T \in SUBSET Nat, T # {}
    PROVE  \E x \in T : \A y \in T : x <= y
<1>. DEFINE R == OpToRel(<, Nat)
<1>1. IsWellFoundedOn(R, Nat)
  BY NatLessThanWellFounded
<1>2. \A x, y \in Nat : <<x, y>> \in R <=> x < y
  BY DEF OpToRel
<1>. HIDE DEF R
<1>3. \E x \in T : \A y \in T : ~ (<<y, x>> \in R)
  BY <1>1, WFMin
<1>4. PICK x \in T : \A y \in T : ~ (<<y, x>> \in R)
  BY <1>3
<1>5. \A y \in T : y \in Nat /\ x \in Nat /\ ~(y < x)
  BY <1>2, <1>4
<1>6. \A y \in T : x <= y
  BY <1>5
<1>. QED  BY <1>6

(* What holds at first and is kept by every round holds until the last.    *)
LEMMA UpTo ==
    ASSUME NEW n \in Nat, NEW S, 0 \in S,
           \A i \in 1 .. n : i - 1 \in S => i \in S
    PROVE  0 .. n \subseteq S
<1>. DEFINE T == (0 .. n) \ S
<1>1. SUFFICES ASSUME T # {} PROVE FALSE
  OBVIOUS
<1>2. T \in SUBSET Nat
  OBVIOUS
<1>3. PICK x \in T : \A y \in T : x <= y
  <2>. HIDE DEF T
  <2>. QED  BY <1>1, <1>2, LeastNat
<1>4. x # 0 /\ x - 1 \in 0 .. n /\ x - 1 \notin T
  BY <1>3
<1>. QED  BY <1>4

(* f[i] is what i rounds of a loop make of the first value.                *)
Runs(f, n, V, first, Round) ==
    /\ f \in [0 .. n -> V]
    /\ f[0] = first
    /\ \A i \in 1 .. n : f[i] = Round[i][f[i - 1]]

(* There is such a function.                                               *)
LEMMA Recursion ==
    ASSUME NEW n \in Nat, NEW V, NEW first \in V,
           NEW Round \in [1 .. n -> [V -> V]]
    PROVE  \E f : Runs(f, n, V, first, Round)
<1>. DEFINE S == {m \in 0 .. n : \E f : Runs(f, m, V, first, Round)}
<1>1. 0 \in S
  <2>1. [i \in 0 .. 0 |-> first] \in [0 .. 0 -> V]
    OBVIOUS
  <2>2. Runs([i \in 0 .. 0 |-> first], 0, V, first, Round)
    BY <2>1 DEF Runs
  <2>. QED  BY <2>2
<1>2. ASSUME NEW m \in 1 .. n, m - 1 \in S
      PROVE  m \in S
  <2>1. PICK f : Runs(f, m - 1, V, first, Round)
    BY <1>2
  <2>. DEFINE g == [i \in 0 .. m |->
                      IF i = m THEN Round[m][f[m - 1]] ELSE f[i]]
  <2>2. g \in [0 .. m -> V]
    <3>1. f[m - 1] \in V
      BY <2>1 DEF Runs
    <3>2. Round[m] \in [V -> V]
      OBVIOUS
    <3>3. Round[m][f[m - 1]] \in V
      BY <3>1, <3>2
    <3>4. ASSUME NEW i \in 0 .. m, i # m
          PROVE  f[i] \in V
      <4>1. i \in 0 .. m - 1
        BY <3>4
      <4>. QED  BY <2>1, <4>1 DEF Runs
    <3>. QED  BY <3>3, <3>4
  <2>3. g[0] = first
    BY <2>1 DEF Runs
  <2>4. ASSUME NEW i \in 1 .. m
        PROVE  g[i] = Round[i][g[i - 1]]
    <3>1. CASE i = m
      BY <3>1
    <3>2. CASE i # m
      <4>1. i \in 1 .. m - 1 /\ i - 1 \in 0 .. m
        BY <3>2
      <4>2. g[i] = f[i] /\ g[i - 1] = f[i - 1]
        BY <3>2, <4>1
      <4>. QED  BY <2>1, <4>1, <4>2 DEF Runs
    <3>. QED  BY <3>1, <3>2
  <2>. HIDE DEF g
  <2>5. Runs(g, m, V, first, Round)
    BY <2>2, <2>3, <2>4 DEF Runs
  <2>. QED  BY <2>5
<1>3. 0 .. n \subseteq S
  <2>. HIDE DEF S
  <2>. QED  BY <1>1, <1>2, UpTo
<1>4. n \in S
  BY <1>3
<1>. QED  BY <1>4

(* Its values stay in a set that every round stays in.                     *)
LEMMA RoundsStay ==
    ASSUME NEW n \in Nat, NEW V, NEW f, f[0] \in V,
           \A i \in 1 .. n : f[i - 1] \in V => f[i] \in V
    PROVE  \A i \in 0 .. n : f[i] \in V
<1>. DEFINE S == {i \in 0 .. n : f[i] \in V}
<1>1. 0 \in S
  OBVIOUS
<1>2. \A i \in 1 .. n : i - 1 \in S => i \in S
  OBVIOUS
<1>3. 0 .. n \subseteq S
  <2>. HIDE DEF S
  <2>. QED  BY <1>1, <1>2, UpTo
<1>. QED  BY <1>3

-----------------------------------------------------------------------------
(* Sequences                                                               *)

LEMMA Single ==
    ASSUME NEW C, NEW c \in C
    PROVE  <<c>> \in Seq(C) /\ Len(<<c>>) = 1 /\ <<c>>[1] = c
OBVIOUS

Joined(s, t, r) ==
    /\ Len(r) = Len(s) + Len(t)
    /\ \A i \in 1 .. Len(s) : r[i] = s[i]
    /\ \A i \in 1 .. Len(t) : r[Len(s) + i] = t[i]

LEMMA Concat ==
    ASSUME NEW C, NEW s \in Seq(C), NEW t \in Seq(C)
    PROVE  s \o t \in Seq(C) /\ Joined(s, t, s \o t)
<1>1. s \o t \in Seq(C) /\ Len(s \o t) = Len(s) + Len(t)
  OBVIOUS
<1>2. \A i \in 1 .. Len(s) : (s \o t)[i] = s[i]
  OBVIOUS
<1>3. ASSUME NEW i \in 1 .. Len(t)
      PROVE  (s \o t)[Len(s) + i] = t[i]
  <2>1. /\ Len(s) + i \in 1 .. Len(s) + Len(t)
        /\ ~(Len(s) + i <= Len(s)) /\ Len(s) + i - Len(s) = i
    OBVIOUS
  <2>. QED  BY <2>1
<1>. QED  BY <1>1, <1>2, <1>3 DEF Joined

LEMMA Associative ==
    ASSUME NEW C, NEW s \in Seq(C), NEW t \in Seq(C), NEW r \in Seq(C)
    PROVE  s \o (t \o r) = (s \o t) \o r
OBVIOUS

(* Two sequences that agree everywhere are one.                            *)
LEMMA SameSeq ==
    ASSUME NEW C, NEW s \in Seq(C), NEW t \in Seq(C), Len(s) = Len(t),
           \A i \in 1 .. Len(s) : s[i] = t[i]
    PROVE  s = t
OBVIOUS

LEMMA WiderSeq ==
    ASSUME NEW C, NEW D, C \subseteq D, NEW s \in Seq(C)
    PROVE  s \in Seq(D)
OBVIOUS

-----------------------------------------------------------------------------
(* The loops                                                               *)

PortRecords  == [number : Int, name : STRING, host : Int]
Tokens       == STRING \cup {",", "?"}
MetadataItem == [key : Seq(Tokens), value : Seq(Tokens)]

(* What a template is made of, as far as these proofs need it.             *)
IsTemplate(t) ==
    /\ t.ports \in Seq(PortRecords)
    /\ t.expose \in Seq(Int)
    /\ t.metadata \in Seq(MetadataItem)
    /\ t = [ports |-> t.ports, hostNetwork |-> t.hostNetwork,
            expose |-> t.expose, metadata |-> t.metadata,
            windows |-> t.windows, envs |-> t.envs]

(* The loop of strings.Split: at a separator a new part begins, any other  *)
(* token goes to the last part.                                            *)
Reads(parts, s, separator, C) ==
    /\ parts[0] = << <<>> >>
    /\ \A i \in 0 .. Len(s) : parts[i] \in Seq(Seq(C)) \ {<<>>}
    /\ \A i \in 1 .. Len(s) : parts[i] = ReadToken(parts[i - 1], s[i], separator)

LEMMA PartsReadStep ==
    ASSUME NEW C, NEW s \in Seq(C), NEW separator
    PROVE  Reads(PartsRead(s, separator), s, separator, C)
<1>. DEFINE f == PartsRead(s, separator)
            n == Len(s)
            V == Seq(Seq(C)) \ {<<>>}
            first == << <<>> >>
            After(i, p) == ReadToken(p, s[i], separator)
            Round == [i \in 1 .. n |-> [p \in V |-> After(i, p)]]
            Solves(g) == g = [i \in 0 .. n |-> IF i = 0 THEN first
                                               ELSE After(i, g[i - 1])]
<1>1. f = CHOOSE g : Solves(g)
  BY DEF PartsRead
<1>2. ASSUME NEW i \in 1 .. n, NEW p \in V
      PROVE  After(i, p) \in V
  <2>1. Append(p, <<>>) \in V
    OBVIOUS
  <2>2. s[i] \in C
    OBVIOUS
  <2>3. Len(p) \in 1 .. Len(p) /\ p[Len(p)] \in Seq(C)
    OBVIOUS
  <2>4. Append(p[Len(p)], s[i]) \in Seq(C)
    BY <2>2, <2>3
  <2>5. [p EXCEPT ![Len(p)] = Append(@, s[i])] \in V
    BY <2>4
  <2>. QED  BY <2>1, <2>5 DEF ReadToken
<1>3. Round \in [1 .. n -> [V -> V]]
  BY <1>2
<1>4. first \in V /\ n \in Nat
  OBVIOUS
<1>5. PICK h : Runs(h, n, V, first, Round)
  <2>. HIDE DEF V, Round, n, first
  <2>. QED  BY <1>3, <1>4, Recursion
<1>6. ASSUME NEW i \in 1 .. n
      PROVE  h[i] = After(i, h[i - 1])
  <2>1. h[i - 1] \in V
    <3>. HIDE DEF V, Round, first, n
    <3>. QED  BY <1>4, <1>5 DEF Runs
  <2>. HIDE DEF After, V
  <2>. QED  BY <1>5, <2>1 DEF Runs
<1>7. Solves(h)
  <2>. HIDE DEF After, V, n
  <2>. QED  BY <1>4, <1>5, <1>6 DEF Runs
<1>8. Solves(f)
  <2>. HIDE DEF f, Solves
  <2>. QED  BY <1>1, <1>7
<1>9. f[0] = << <<>> >> /\ \A i \in 1 .. n : f[i] = After(i, f[i - 1])
  <2>. HIDE DEF After, f
  <2>. QED  BY <1>4, <1>8
<1>10. \A i \in 0 .. n : f[i] \in V
  <2>. HIDE DEF After, f, V, n
  <2>. QED  BY <1>2, <1>4, <1>9, RoundsStay
<1>. HIDE DEF f
<1>. QED  BY <1>9, <1>10 DEF f, Reads

(* The loop of PF_GAMESERVER_PORTS.                                        *)
LEMMA PortsWrittenStep ==
    ASSUME NEW t, IsTemplate(t)
    PROVE  LET written == PortsWritten(t)
               n       == Len(t.ports)
           IN  /\ written[0] = <<>>
               /\ \A i \in 0 .. n : written[i] \in Seq(PortRecords)
               /\ \A i \in 1 .. n :
                     written[i] = IF t.ports[i].host > 0
                                  THEN Append(written[i - 1], t.ports[i])
                                  ELSE written[i - 1]
<1>. DEFINE f == PortsWritten(t)
            n == Len(t.ports)
            V == Seq(PortRecords)
            first == <<>>
            After(i, p) == IF t.ports[i].host > 0 THEN Append(p, t.ports[i])
                           ELSE p
            Round == [i \in 1 .. n |-> [p \in V |-> After(i, p)]]
            Solves(g) == g = [i \in 0 .. n |-> IF i = 0 THEN first
                                               ELSE After(i, g[i - 1])]
<1>1. f = CHOOSE g : Solves(g)
  BY DEF PortsWritten
<1>2. ASSUME NEW i \in 1 .. n, NEW p \in V
      PROVE  After(i, p) \in V
  BY DEF IsTemplate
<1>3. Round \in [1 .. n -> [V -> V]]
  BY <1>2
<1>4. first \in V /\ n \in Nat
  BY DEF IsTemplate
<1>5. PICK h : Runs(h, n, V, first, Round)
  <2>. HIDE DEF V, Round, n, first
  <2>. QED  BY <1>3, <1>4, Recursion
<1>6. ASSUME NEW i \in 1 .. n
      PROVE  h[i] = After(i, h[i - 1])
  <2>1. h[i - 1] \in V
    <3>. HIDE DEF V, Round, first, n
    <3>. QED  BY <1>4, <1>5 DEF Runs
  <2>. HIDE DEF After, V
  <2>. QED  BY <1>5, <2>1 DEF Runs
<1>7. Solves(h)
  <2>. HIDE DEF After, V, n
  <2>. QED  BY <1>4, <1>5, <1>6 DEF Runs
<1>8. Solves(f)
  <2>. HIDE DEF f, Solves
  <2>. QED  BY <1>1, <1>7
<1>9. f[0] = <<>> /\ \A i \in 1 .. n : f[i] = After(i, f[i - 1])
  <2>. HIDE DEF After, f
  <2>. QED  BY <1>4, <1>8
<1>10. \A i \in 0 .. n : f[i] \in V
  <2>. HIDE DEF After, f, V, n
  <2>. QED  BY <1>2, <1>4, <1>9, RoundsStay
<1>. HIDE DEF f
<1>. QED  BY <1>9, <1>10 DEF f

(* An item is its key, a comma, its value, and the mark that ends it.      *)
ItemBody(m) == (m.key \o <<",">>) \o m.value

LEMMA ItemTextIs ==
    ASSUME NEW m \in MetadataItem
    PROVE  /\ ItemText(m) = ItemBody(m) \o <<"?">>
           /\ <<",">> \in Seq(Tokens) /\ <<"?">> \in Seq(Tokens)
           /\ m.key \o <<",">> \in Seq(Tokens)
           /\ ItemBody(m) \in Seq(Tokens)
           /\ ItemText(m) \in Seq(Tokens)
           /\ ItemBody(m) # <<>>
<1>1. m.key \in Seq(Tokens) /\ m.value \in Seq(Tokens)
  BY DEF MetadataItem
<1>2. /\ <<",">> \in Seq(Tokens) /\ Len(<<",">>) = 1
      /\ <<"?">> \in Seq(Tokens)
  <2>1. "," \in Tokens /\ "?" \in Tokens
    BY DEF Tokens
  <2>. QED  BY <2>1, Single
<1>. DEFINE comma == <<",">>
            key1  == m.key \o comma
<1>. HIDE DEF comma
<1>3. key1 \in Seq(Tokens) /\ Joined(m.key, comma, key1)
  BY <1>1, <1>2, Concat DEF comma
<1>4. Len(key1) = Len(m.key) + 1
  BY <1>2, <1>3 DEF Joined, comma
<1>. HIDE DEF key1
<1>5. /\ ItemBody(m) \in Seq(Tokens) /\ ItemBody(m) # <<>>
      /\ key1 \in Seq(Tokens)
  <2>1. key1 \o m.value \in Seq(Tokens) /\ Joined(key1, m.value, key1 \o m.value)
    BY <1>1, <1>3, Concat
  <2>2. Len(key1 \o m.value) = Len(m.key) + 1 + Len(m.value)
    BY <1>4, <2>1 DEF Joined
  <2>3. ItemBody(m) = key1 \o m.value
    BY DEF ItemBody, key1, comma
  <2>4. Len(ItemBody(m)) # 0
    <3>1. \A a, c \in Nat : a + 1 + c # 0
      OBVIOUS
    <3>2. Len(m.key) \in Nat /\ Len(m.value) \in Nat
      BY <1>1
    <3>. QED  BY <2>2, <2>3, <3>1, <3>2
  <2>. QED  BY <1>3, <2>1, <2>3, <2>4
<1>6. ItemText(m) = ItemBody(m) \o <<"?">>
  BY DEF ItemText, ItemBody
<1>7. ItemText(m) \in Seq(Tokens)
  BY <1>2, <1>5, <1>6, Concat
<1>. QED  BY <1>2, <1>5, <1>6, <1>7 DEF key1, comma

(* The loop of PF_GAMESERVER_BUILD_METADATA.                               *)
LEMMA MetadataWrittenStep ==
    ASSUME NEW t, IsTemplate(t)
    PROVE  LET written == MetadataWritten(t)
               n       == Len(t.metadata)
           IN  /\ written[0] = <<>>
               /\ \A i \in 0 .. n : written[i] \in Seq(Tokens)
               /\ \A i \in 1 .. n : written[i] = written[i - 1] \o ItemText(t.metadata[i])
<1>. DEFINE f == MetadataWritten(t)
            n == Len(t.metadata)
            V == Seq(Tokens)
            first == <<>>
            After(i, p) == p \o ItemText(t.metadata[i])
            Round == [i \in 1 .. n |-> [p \in V |-> After(i, p)]]
            Solves(g) == g = [i \in 0 .. n |-> IF i = 0 THEN first
                                               ELSE After(i, g[i - 1])]
<1>1. f = CHOOSE g : Solves(g)
  BY DEF MetadataWritten
<1>2. ASSUME NEW i \in 1 .. n, NEW p \in V
      PROVE  After(i, p) \in V
  <2>1. ItemText(t.metadata[i]) \in Seq(Tokens)
    <3>1. t.metadata[i] \in MetadataItem
      BY DEF IsTemplate
    <3>. QED  BY <3>1, ItemTextIs
  <2>. QED  BY <2>1
<1>3. Round \in [1 .. n -> [V -> V]]
  BY <1>2
<1>4. first \in V /\ n \in Nat
  BY DEF IsTemplate
<1>5. PICK h : Runs(h, n, V, first, Round)
  <2>. HIDE DEF V, Round, n, first
  <2>. QED  BY <1>3, <1>4, Recursion
<1>6. ASSUME NEW i \in 1 .. n
      PROVE  h[i] = After(i, h[i - 1])
  <2>1. h[i - 1] \in V
    <3>. HIDE DEF V, Round, first, n
    <3>. QED  BY <1>4, <1>5 DEF Runs
  <2>. HIDE DEF After, V
  <2>. QED  BY <1>5, <2>1 DEF Runs
<1>7. Solves(h)
  <2>. HIDE DEF After, V, n
  <2>. QED  BY <1>4, <1>5, <1>6 DEF Runs
<1>8. Solves(f)
  <2>. HIDE DEF f, Solves
  <2>. QED  BY <1>1, <1>7
<1>9. f[0] = <<>> /\ \A i \in 1 .. n : f[i] = After(i, f[i - 1])
  <2>. HIDE DEF After, f
  <2>. QED  BY <1>4, <1>8
<1>10. \A i \in 0 .. n : f[i] \in V
  <2>. HIDE DEF After, f, V, n
  <2>. QED  BY <1>2, <1>4, <1>9, RoundsStay
<1>. HIDE DEF f
<1>. QED  BY <1>9, <1>10 DEF f

-----------------------------------------------------------------------------
(* From an admitted template to a Pod                                      *)

(* The ports that get a host port map one-to-one into those to expose: the *)
(* index into the host ports stays inside the slice.                       *)
LEMMA PickedFit ==
    ASSUME NEW t, IsTemplate(t), NumbersExposedOnce(t)
    PROVE  EnoughHostPorts(t)
<1>. DEFINE At(i) == CHOOSE j \in DOMAIN t.expose : t.expose[j] = t.ports[i].number
            f == [i \in Picked(t) |-> At(i)]
            S == Picked(t)
            n == Len(t.expose)
<1>1. n \in Nat /\ DOMAIN t.expose = 1..n
  BY DEF IsTemplate
<1>2. ASSUME NEW i \in S
      PROVE  f[i] \in 1..n /\ t.expose[f[i]] = t.ports[i].number
  <2>1. \E j \in DOMAIN t.expose : t.expose[j] = t.ports[i].number
    BY DEF Picked, Exposed
  <2>2. At(i) \in DOMAIN t.expose /\ t.expose[At(i)] = t.ports[i].number
    BY <2>1
  <2>. QED  BY <1>1, <2>2
<1>3. f \in [S -> 1..n]
  BY <1>2
<1>4. ASSUME NEW i \in S, NEW k \in S, f[i] = f[k]
      PROVE  i = k
  <2>1. t.ports[i].number = t.ports[k].number
    BY <1>2, <1>4
  <2>. QED  BY <2>1 DEF NumbersExposedOnce
<1>. HIDE DEF f, S, n
<1>5. f \in Injection(S, 1..n)
  BY <1>3, <1>4 DEF Injection, IsInjective
<1>6. IsFiniteSet(1..n) /\ Cardinality(1..n) = n
  BY <1>1, FS_Interval
<1>7. Cardinality(S) <= n
  BY <1>5, <1>6, FS_Injection
<1>. QED  BY <1>7 DEF EnoughHostPorts, S, n

(* What assigning the host ports leaves alone, and what it does.           *)
LEMMA AssignedPorts ==
    ASSUME NEW t, IsTemplate(t), NEW ports
    PROVE  LET gs == GameServerTemplate(t, ports) IN
           /\ DOMAIN gs.ports = DOMAIN t.ports
           /\ \A i \in DOMAIN t.ports :
                /\ gs.ports[i].name = t.ports[i].name
                /\ i \notin Picked(t) => gs.ports[i].number = t.ports[i].number
                /\ ~t.hostNetwork => gs.ports[i].number = t.ports[i].number
           /\ gs.expose = t.expose
           /\ gs.hostNetwork = t.hostNetwork
<1>. DEFINE gs == GameServerTemplate(t, ports)
            Given(i) == LET host == ports[HostPortIndex(t, i)]
                        IN  [t.ports[i] EXCEPT
                                !.host = host,
                                !.number = IF t.hostNetwork THEN host ELSE @]
<1>1. gs = [t EXCEPT !.ports = [i \in DOMAIN t.ports |->
                                  IF i \in Picked(t) THEN Given(i) ELSE t.ports[i]]]
  BY DEF GameServerTemplate
<1>2. gs.ports = [i \in DOMAIN t.ports |->
                    IF i \in Picked(t) THEN Given(i) ELSE t.ports[i]]
  BY <1>1 DEF IsTemplate
<1>3. gs.expose = t.expose /\ gs.hostNetwork = t.hostNetwork
  BY <1>1 DEF IsTemplate
<1>4. ASSUME NEW i \in DOMAIN t.ports
      PROVE  /\ Given(i).name = t.ports[i].name
             /\ ~t.hostNetwork => Given(i).number = t.ports[i].number
  BY DEF IsTemplate
<1>. HIDE DEF Given, gs
<1>. QED  BY <1>2, <1>3, <1>4 DEF gs

(* The webhook of the GameServer accepts what that of the build admitted:  *)
(* also when the numbers become those of the host, among which may be one  *)
(* to expose, every port with such a number has a name.                    *)
LEMMA GameServerIsValid ==
    ASSUME NEW t, IsTemplate(t), NumbersExposedOnce(t), ValidateBuildPorts(t),
           NEW ports
    PROVE  ValidateGameServer(GameServerTemplate(t, ports))
<1>. DEFINE gs == GameServerTemplate(t, ports)
            Grouped(u, n) == {p \in ToSet(u.ports) : p.number = n /\ n # 0}
<1>1. /\ DOMAIN gs.ports = DOMAIN t.ports
      /\ \A i \in DOMAIN t.ports :
           /\ gs.ports[i].name = t.ports[i].name
           /\ i \notin Picked(t) => gs.ports[i].number = t.ports[i].number
           /\ ~t.hostNetwork => gs.ports[i].number = t.ports[i].number
      /\ gs.expose = t.expose
      /\ gs.hostNetwork = t.hostNetwork
  BY AssignedPorts
<1>. HIDE DEF gs
<1>2. ASSUME NEW n \in ToSet(t.expose)
      PROVE  /\ n # 0
             /\ t.hostNetwork \/ Grouped(t, n) # {}
             /\ \A p \in Grouped(t, n) : p.name # ""
  BY DEF ValidateBuildPorts, ValidatePorts, NumbersExposedOnce
<1>3. ASSUME NEW i \in Picked(t)
      PROVE  i \in DOMAIN t.ports /\ t.ports[i].name # ""
  <2>1. PICK j \in DOMAIN t.expose : t.expose[j] = t.ports[i].number
    BY DEF Picked, Exposed
  <2>2. i \in DOMAIN t.ports /\ t.expose[j] \in ToSet(t.expose)
    BY DEF Picked, ToSet
  <2>3. t.ports[i] \in Grouped(t, t.expose[j])
    BY <1>2, <2>1, <2>2 DEF ToSet
  <2>. QED  BY <1>2, <2>2, <2>3
<1>4. ASSUME NEW n \in ToSet(t.expose), NEW p \in Grouped(gs, n)
      PROVE  p.name # ""
  <2>1. PICK i \in DOMAIN t.ports : p = gs.ports[i]
    BY <1>1 DEF ToSet
  <2>2. CASE i \in Picked(t)
    BY <1>1, <1>3, <2>1, <2>2
  <2>3. CASE i \notin Picked(t)
    <3>1. t.ports[i].number = n
      BY <1>1, <1>4, <2>1, <2>3
    <3>. QED  BY <2>3, <3>1 DEF Picked, Exposed, ToSet
  <2>. QED  BY <2>2, <2>3
<1>5. ASSUME NEW n \in ToSet(t.expose), ~t.hostNetwork
      PROVE  Grouped(gs, n) # {}
  <2>1. PICK p \in Grouped(t, n) : TRUE
    BY <1>2, <1>5
  <2>2. PICK i \in DOMAIN t.ports : t.ports[i].number = n
    BY <2>1 DEF ToSet
  <2>3. gs.ports[i].number = n /\ n # 0
    BY <1>1, <1>2, <1>5, <2>2
  <2>4. gs.ports[i] \in ToSet(gs.ports)
    BY <1>1 DEF ToSet
  <2>. QED  BY <2>3, <2>4
<1>6. ValidateGameServer(gs)
  BY <1>1, <1>4, <1>5 DEF ValidateGameServer, ValidatePorts
<1>. QED  BY <1>6 DEF gs

(* All containers mount the volume of the file that the variables name,    *)
(* and no variable of the template hides one of those.                     *)
LEMMA FilesAreFound ==
    ASSUME NEW b, NEW t
    PROVE  /\ FoldersCreated(PodForGameServer(b, t).init)
           /\ ConfigIsFound(PodForGameServer(b, t))
<1>. DEFINE init == InitContainer(b, t)
            env  == GameServerEnv(b, t)
<1>1. /\ init.mount = DataVolumeMountPath(t.windows)
      /\ init.env.GSDK_CONFIG_FILE = GsdkConfigFile(t.windows)
      /\ init.env.PF_SERVER_LOG_DIRECTORY = LogDirectory(t.windows)
      /\ init.env.PF_GAMESERVER_NAME = b
  BY DEF InitContainer, InitContainerEnv
<1>2. /\ GsdkConfigFile(t.windows)[1] = DataVolumeMountPath(t.windows)
      /\ LogDirectory(t.windows)[1] = DataVolumeMountPath(t.windows)
  BY DEF GsdkConfigFile, LogDirectory
<1>3. /\ GsdkConfig(init).logFolder = init.env.PF_SERVER_LOG_DIRECTORY
      /\ GsdkConfig(init).sessionHostId = init.env.PF_GAMESERVER_NAME
  BY DEF GsdkConfig
<1>4. ASSUME NEW own
      PROVE  LET c == Container(b, t, own) IN
             /\ c.mount = DataVolumeMountPath(t.windows)
             /\ c.env.GSDK_CONFIG_FILE = GsdkConfigFile(t.windows)
             /\ c.env.PF_GAMESERVER_NAME = b
  <2>1. /\ env.GSDK_CONFIG_FILE = GsdkConfigFile(t.windows)
        /\ env.PF_GAMESERVER_NAME = b
        /\ {"GSDK_CONFIG_FILE", "PF_GAMESERVER_NAME"} \subseteq DOMAIN env
    BY DEF GameServerEnv
  <2>. HIDE DEF env
  <2>2. Container(b, t, own).env
           = [v \in DOMAIN own \cup DOMAIN env |->
                IF v \in DOMAIN env THEN env[v] ELSE own[v]]
    BY DEF Container, env
  <2>3. Container(b, t, own).mount = DataVolumeMountPath(t.windows)
    BY DEF Container
  <2>. QED  BY <2>1, <2>2, <2>3
<1>5. /\ PodForGameServer(b, t).init = init
      /\ PodForGameServer(b, t).name = b
      /\ \A c \in PodForGameServer(b, t).containers :
            \E own : c = Container(b, t, own)
  BY DEF PodForGameServer
<1>. HIDE DEF init, env
<1>6. FoldersCreated(init)
  BY <1>1, <1>2 DEF FoldersCreated, InVolume
<1>7. ConfigIsFound(PodForGameServer(b, t))
  BY <1>1, <1>2, <1>3, <1>4, <1>5 DEF ConfigIsFound, InVolume
<1>. QED  BY <1>5, <1>6, <1>7

-----------------------------------------------------------------------------
(* What the init container makes of the ports                              *)

(* The last index at which something is found.                             *)
LEMMA MaxIndex ==
    ASSUME NEW n \in Nat, NEW S \in SUBSET (1 .. n), S # {}
    PROVE  Max(S) \in S /\ \A y \in S : y <= Max(S)
<1>. DEFINE T == {k \in 0 .. n : n - k \in S}
<1>1. T \in SUBSET Nat
  OBVIOUS
<1>2. T # {}
  <2>1. PICK y \in S : TRUE
    OBVIOUS
  <2>2. n - y \in 0 .. n /\ n - (n - y) = y
    OBVIOUS
  <2>3. n - y \in T
    BY <2>2
  <2>. QED  BY <2>3
<1>3. PICK k \in T : \A l \in T : k <= l
  <2>. HIDE DEF T
  <2>. QED  BY <1>1, <1>2, LeastNat
<1>4. n - k \in S
  OBVIOUS
<1>5. ASSUME NEW y \in S PROVE n - k >= y
  <2>1. n - y \in 0 .. n /\ n - (n - y) = y
    OBVIOUS
  <2>2. n - y \in T
    BY <2>1
  <2>3. k <= n - y
    BY <1>3, <2>2
  <2>. QED  BY <2>3
<1>6. \E x \in S : \A y \in S : x >= y
  BY <1>4, <1>5
<1>7. Max(S) \in S /\ \A y \in S : Max(S) >= y
  BY <1>6 DEF Max
<1>8. \A y \in S : y \in Int
  OBVIOUS
<1>. QED  BY <1>7, <1>8

LEMMA AppendSet ==
    ASSUME NEW C, NEW s \in Seq(C), NEW e \in C
    PROVE  ToSet(Append(s, e)) = ToSet(s) \cup {e}
<1>1. /\ DOMAIN s = 1 .. Len(s) /\ Len(s) \in Nat
      /\ DOMAIN Append(s, e) = 1 .. Len(s) + 1
      /\ \A i \in 1 .. Len(s) : Append(s, e)[i] = s[i]
      /\ Append(s, e)[Len(s) + 1] = e
  OBVIOUS
<1>2. 1 .. Len(s) + 1 = (1 .. Len(s)) \cup {Len(s) + 1}
  BY <1>1
<1>. HIDE <1>2
<1>3. ToSet(Append(s, e)) \subseteq ToSet(s) \cup {e}
  BY <1>1, <1>2 DEF ToSet
<1>4. ToSet(s) \cup {e} \subseteq ToSet(Append(s, e))
  BY <1>1, <1>2 DEF ToSet
<1>. QED  BY <1>3, <1>4

(* PF_GAMESERVER_PORTS says the ports with a host port, and no others.     *)
LEMMA PortsWrittenAre ==
    ASSUME NEW t, IsTemplate(t)
    PROVE  /\ GamePortsEnv(t) \in Seq(PortRecords)
           /\ ToSet(GamePortsEnv(t))
                = {t.ports[k] : k \in {j \in DOMAIN t.ports : t.ports[j].host > 0}}
<1>. DEFINE written == PortsWritten(t)
            n       == Len(t.ports)
            Hosted(i) == {t.ports[k] : k \in {j \in 1 .. i : t.ports[j].host > 0}}
            S == {i \in 0 .. n : ToSet(written[i]) = Hosted(i)}
<1>1. n \in Nat /\ DOMAIN t.ports = 1 .. n
  BY DEF IsTemplate
<1>2. /\ written[0] = <<>>
      /\ \A i \in 0 .. n : written[i] \in Seq(PortRecords)
      /\ \A i \in 1 .. n : written[i] = IF t.ports[i].host > 0
                                       THEN Append(written[i - 1], t.ports[i])
                                       ELSE written[i - 1]
  BY PortsWrittenStep
<1>. HIDE DEF written
<1>3. 0 \in S
  <2>1. ToSet(written[0]) = {} /\ Hosted(0) = {}
    BY <1>2 DEF ToSet
  <2>. QED  BY <1>1, <2>1
<1>4. ASSUME NEW i \in 1 .. n, i - 1 \in S
      PROVE  i \in S
  <2>1. 1 .. i = (1 .. i - 1) \cup {i} /\ i - 1 \in 0 .. n
    BY <1>1
  <2>2. ToSet(written[i - 1]) = Hosted(i - 1)
    BY <1>4
  <2>3. written[i - 1] \in Seq(PortRecords) /\ t.ports[i] \in PortRecords
    BY <1>1, <1>2, <2>1 DEF IsTemplate
  <2>4. CASE t.ports[i].host > 0
    <3>1. ToSet(written[i]) = ToSet(written[i - 1]) \cup {t.ports[i]}
      BY <1>2, <2>3, <2>4, AppendSet
    <3>2. Hosted(i) = Hosted(i - 1) \cup {t.ports[i]}
      BY <2>1, <2>4
    <3>3. ToSet(written[i]) = Hosted(i)
      BY <2>2, <3>1, <3>2
    <3>. QED  BY <1>1, <3>3
  <2>5. CASE ~(t.ports[i].host > 0)
    <3>1. written[i] = written[i - 1]
      BY <1>2, <2>5
    <3>2. Hosted(i) = Hosted(i - 1)
      BY <2>1, <2>5
    <3>3. ToSet(written[i]) = Hosted(i)
      BY <2>2, <3>1, <3>2
    <3>. QED  BY <1>1, <3>3
  <2>. QED  BY <2>4, <2>5
<1>5. 0 .. n \subseteq S
  <2>. HIDE DEF S
  <2>. QED  BY <1>1, <1>3, <1>4, UpTo
<1>6. n \in 0 .. n
  BY <1>1
<1>. QED  BY <1>1, <1>2, <1>5, <1>6 DEF GamePortsEnv, written

(* The j-th port that is picked gets the j-th host port: the indices are   *)
(* inside the slice, and no two are the same.                              *)
LEMMA HostPortIndices ==
    ASSUME NEW t, IsTemplate(t), EnoughHostPorts(t)
    PROVE  /\ IsFiniteSet(Picked(t))
           /\ \A i \in Picked(t) : HostPortIndex(t, i) \in 1 .. Len(t.expose)
           /\ \A i, k \in Picked(t) : HostPortIndex(t, i) = HostPortIndex(t, k) => i = k
<1>. DEFINE n == Len(t.ports)
            P == Picked(t)
            Before(i) == {k \in P : k <= i}
<1>1. n \in Nat /\ P \subseteq 1 .. n /\ Len(t.expose) \in Nat
  BY DEF IsTemplate, Picked
<1>2. IsFiniteSet(1 .. n)
  BY <1>1, FS_Interval
<1>3. IsFiniteSet(P)
  BY <1>1, <1>2, FS_Subset
<1>4. Cardinality(P) \in Nat /\ Cardinality(P) <= Len(t.expose)
  BY <1>3, FS_CardinalityType DEF EnoughHostPorts
<1>. HIDE DEF P, n
<1>5. ASSUME NEW i \in P
      PROVE  /\ IsFiniteSet(Before(i))
             /\ Cardinality(Before(i)) \in 1 .. Len(t.expose)
  <2>1. Before(i) \in SUBSET P /\ i \in Before(i)
    BY <1>1
  <2>. HIDE DEF Before
  <2>2. IsFiniteSet(Before(i)) /\ Cardinality(Before(i)) <= Cardinality(P)
    BY <1>3, <2>1, FS_Subset
  <2>3. Cardinality(Before(i)) \in Nat
    BY <2>2, FS_CardinalityType
  <2>4. Cardinality(Before(i)) # 0
    BY <2>1, <2>2, FS_EmptySet
  <2>. QED  BY <1>1, <1>4, <2>2, <2>3, <2>4
<1>6. ASSUME NEW i \in P, NEW k \in P, i < k
      PROVE  Cardinality(Before(i)) # Cardinality(Before(k))
  <2>0. /\ i \in Int /\ k \in Int /\ k <= k /\ ~(k <= i)
        /\ \A j \in P : j <= i => j <= k
    BY <1>1, <1>6
  <2>1. Before(i) \in SUBSET Before(k) /\ k \in Before(k) /\ k \notin Before(i)
    BY <2>0
  <2>2. IsFiniteSet(Before(k))
    BY <1>5
  <2>. HIDE DEF Before
  <2>3. Cardinality(Before(k)) = Cardinality(Before(i)) => Before(k) = Before(i)
    BY <2>1, <2>2, FS_Subset
  <2>. QED  BY <2>1, <2>3
<1>7. \A i \in P : HostPortIndex(t, i) = Cardinality(Before(i))
  BY DEF HostPortIndex, P
<1>. HIDE DEF Before
<1>8. \A i, k \in P : HostPortIndex(t, i) = HostPortIndex(t, k) => i = k
  <2>1. \A i, k \in P : i < k \/ k < i \/ i = k
    BY <1>1
  <2>. QED  BY <1>6, <1>7, <2>1
<1>. QED  BY <1>3, <1>5, <1>7, <1>8 DEF P

(* The template of the GameServer.                                         *)
LEMMA HostPortsGiven ==
    ASSUME NEW t, IsTemplate(t), EnoughHostPorts(t), NEW ports \in HostPortChoices(t)
    PROVE  LET gs   == GameServerTemplate(t, ports)
               Host(i) == ports[HostPortIndex(t, i)]
           IN  /\ IsTemplate(gs)
               /\ gs.metadata = t.metadata
               /\ DOMAIN gs.ports = DOMAIN t.ports
               /\ \A i \in Picked(t) :
                     /\ gs.ports[i].name = t.ports[i].name
                     /\ gs.ports[i].host = Host(i) /\ Host(i) > 0
                     /\ gs.ports[i].number = IF t.hostNetwork THEN Host(i)
                                             ELSE t.ports[i].number
               /\ \A i \in DOMAIN t.ports \ Picked(t) : gs.ports[i] = t.ports[i]
               /\ \A i, k \in Picked(t) : Host(i) = Host(k) => i = k
<1>. DEFINE gs == GameServerTemplate(t, ports)
            Host(i) == ports[HostPortIndex(t, i)]
            Given(i) == [t.ports[i] EXCEPT !.host = Host(i),
                                           !.number = IF t.hostNetwork THEN Host(i) ELSE @]
<1>1. /\ ports \in [1 .. Len(t.expose) -> HostPorts] /\ IsInjective(ports)
      /\ HostPorts \subseteq Nat \ {0}
  BY AdmissionAssumption DEF AdmissionAssumption, HostPortChoices
<1>2. \A i \in Picked(t) : Host(i) \in Nat \ {0}
  BY <1>1, HostPortIndices
<1>3. \A i, k \in Picked(t) : Host(i) = Host(k) => i = k
  <2>1. \A j, l \in 1 .. Len(t.expose) : ports[j] = ports[l] => j = l
    BY <1>1 DEF IsInjective
  <2>. QED  BY <2>1, HostPortIndices
<1>4. gs = [t EXCEPT !.ports = [i \in DOMAIN t.ports |->
                                  IF i \in Picked(t) THEN Given(i) ELSE t.ports[i]]]
  BY DEF GameServerTemplate
<1>. HIDE DEF Host
<1>5. /\ gs.ports = [i \in DOMAIN t.ports |->
                      IF i \in Picked(t) THEN Given(i) ELSE t.ports[i]]
      /\ gs.metadata = t.metadata /\ gs.expose = t.expose
      /\ gs = [ports |-> gs.ports, hostNetwork |-> gs.hostNetwork,
               expose |-> gs.expose, metadata |-> gs.metadata,
               windows |-> gs.windows, envs |-> gs.envs]
  BY <1>4 DEF IsTemplate
<1>6. ASSUME NEW i \in Picked(t)
      PROVE  /\ Given(i) \in PortRecords
             /\ Given(i).name = t.ports[i].name
             /\ Given(i).host = Host(i)
             /\ Given(i).number = IF t.hostNetwork THEN Host(i) ELSE t.ports[i].number
  <2>1. t.ports[i] \in PortRecords
    BY DEF IsTemplate, Picked
  <2>2. Host(i) \in Int
    BY <1>2
  <2>3. CASE t.hostNetwork
    <3>1. Given(i) = [t.ports[i] EXCEPT !.host = Host(i), !.number = Host(i)]
      BY <2>3
    <3>. HIDE DEF Given
    <3>. QED  BY <2>1, <2>2, <2>3, <3>1 DEF PortRecords
  <2>4. CASE ~t.hostNetwork
    <3>1. Given(i) = [t.ports[i] EXCEPT !.host = Host(i)]
      BY <2>1, <2>4 DEF PortRecords
    <3>. HIDE DEF Given
    <3>. QED  BY <2>1, <2>2, <2>4, <3>1 DEF PortRecords
  <2>. QED  BY <2>3, <2>4
<1>. HIDE DEF Given, gs
<1>7. gs.ports \in Seq(PortRecords)
  <2>1. DOMAIN t.ports = 1 .. Len(t.ports) /\ Len(t.ports) \in Nat
    BY DEF IsTemplate
  <2>2. \A i \in DOMAIN t.ports : t.ports[i] \in PortRecords
    BY DEF IsTemplate
  <2>3. \A i \in 1 .. Len(t.ports) : gs.ports[i] \in PortRecords
    BY <1>5, <1>6, <2>1, <2>2
  <2>4. gs.ports = [i \in 1 .. Len(t.ports) |-> gs.ports[i]]
    BY <1>5, <2>1
  <2>. QED  BY <2>1, <2>3, <2>4
<1>8. IsTemplate(gs)
  BY <1>5, <1>7 DEF IsTemplate
<1>9. DOMAIN gs.ports = DOMAIN t.ports /\ Picked(t) \subseteq DOMAIN t.ports
  BY <1>5 DEF Picked
<1>. QED  BY <1>2, <1>3, <1>5, <1>6, <1>8, <1>9 DEF gs, Host

(* Every port that is exposed has a name: the webhook asks for it.         *)
LEMMA PickedHaveNames ==
    ASSUME NEW t, IsTemplate(t), NumbersExposedOnce(t), ValidateBuildPorts(t),
           NEW i \in Picked(t)
    PROVE  t.ports[i].name # ""
<1>1. PICK j \in DOMAIN t.expose : t.expose[j] = t.ports[i].number
  BY DEF Picked, Exposed
<1>2. i \in DOMAIN t.ports /\ t.expose[j] \in ToSet(t.expose)
  BY DEF Picked, ToSet
<1>3. t.expose[j] # 0
  BY <1>2 DEF NumbersExposedOnce
<1>4. t.ports[i] \in {p \in ToSet(t.ports) : p.number = t.expose[j] /\ t.expose[j] # 0}
  BY <1>1, <1>2, <1>3 DEF ToSet
<1>. QED  BY <1>2, <1>4 DEF ValidateBuildPorts, ValidatePorts

LEMMA BijectionCard ==
    ASSUME NEW S, IsFiniteSet(S), NEW T, NEW f \in [S -> T],
           \A i, k \in S : f[i] = f[k] => i = k,
           \A y \in T : \E i \in S : f[i] = y
    PROVE  Cardinality(T) = Cardinality(S)
<1>1. f \in Bijection(S, T)
  BY DEF Bijection, Injection, Surjection, IsInjective
<1>2. ExistsBijection(S, T)
  BY <1>1 DEF ExistsBijection
<1>. QED  BY <1>2, FS_Bijection

(* The configuration says the exposed ports, as the GameServer has them.   *)
LEMMA PortsAreConfigured ==
    ASSUME NEW t, IsTemplate(t), NumbersExposedOnce(t), ValidateBuildPorts(t),
           InitContainerCanRead(t), NEW ports \in HostPortChoices(t), NEW b
    PROVE  LET gs   == GameServerTemplate(t, ports)
               init == PodForGameServer(b, gs).init
           IN  /\ init.env.PF_GAMESERVER_PORTS # <<>>
               /\ PortsMatch(t, gs, GsdkConfig(init))
<1>. DEFINE gs      == GameServerTemplate(t, ports)
            init    == PodForGameServer(b, gs).init
            env     == GamePortsEnv(gs)
            config  == GsdkConfig(init)
            Host(i) == ports[HostPortIndex(t, i)]
            Conf(p) == [name |-> p.name, serverListeningPort |-> p.number,
                        clientConnectionPort |-> p.host]
            configured == ToSet(config.gamePortsConfiguration)
            P == Picked(t)
            n == Len(env)
<1>1. EnoughHostPorts(t)
  BY PickedFit
<1>2. /\ IsTemplate(gs)
      /\ DOMAIN gs.ports = DOMAIN t.ports
      /\ \A i \in P :
            /\ gs.ports[i].name = t.ports[i].name
            /\ gs.ports[i].host = Host(i) /\ Host(i) > 0
            /\ gs.ports[i].number = IF t.hostNetwork THEN Host(i)
                                    ELSE t.ports[i].number
      /\ \A i \in DOMAIN t.ports \ P : gs.ports[i] = t.ports[i]
      /\ \A i, k \in P : Host(i) = Host(k) => i = k
  BY <1>1, HostPortsGiven
<1>3. /\ init.env.PF_GAMESERVER_PORTS = env
      /\ config.gamePortsConfiguration = GamePortsConfiguration(env)
      /\ config.gamePorts = GamePorts(env)
  BY DEF PodForGameServer, InitContainer, InitContainerEnv, GsdkConfig
<1>4. /\ env \in Seq(PortRecords)
      /\ ToSet(env) = {gs.ports[k] : k \in {j \in DOMAIN gs.ports : gs.ports[j].host > 0}}
  <2>. HIDE DEF gs
  <2>. QED  BY <1>2, PortsWrittenAre
<1>. HIDE DEF gs, init, env, config, Host
<1>5. /\ P \subseteq DOMAIN t.ports /\ P # {} /\ IsFiniteSet(P)
      /\ \A i \in DOMAIN t.ports \ P : t.ports[i].host = 0
      /\ \A i, k \in P : t.ports[i].name = t.ports[k].name => i = k
  BY <1>1, HostPortIndices DEF Picked, InitContainerCanRead
<1>. HIDE DEF P
<1>6. ToSet(env) = {gs.ports[i] : i \in P}
  <2>1. {j \in DOMAIN gs.ports : gs.ports[j].host > 0} = P
    BY <1>2, <1>5
  <2>. QED  BY <1>4, <2>1
<1>7. env # <<>>
  <2>1. PICK i \in P : gs.ports[i] \in ToSet(env)
    BY <1>5, <1>6
  <2>2. ToSet(<< >>) = {}
    BY DEF ToSet
  <2>. QED  BY <2>1, <2>2
<1>8. configured = {Conf(gs.ports[i]) : i \in P}
  <2>1. configured = {Conf(env[i]) : i \in DOMAIN env}
    BY <1>3 DEF GamePortsConfiguration, ToSet
  <2>2. ToSet(env) = {env[i] : i \in DOMAIN env}
    BY DEF ToSet
  <2>. HIDE DEF Conf, configured
  <2>3. configured = {Conf(p) : p \in ToSet(env)}
    BY <2>1, <2>2
  <2>. QED  BY <1>6, <2>3
<1>9. \A i \in P : /\ Conf(gs.ports[i]).name = t.ports[i].name
                    /\ Conf(gs.ports[i]).clientConnectionPort = Host(i)
                    /\ Conf(gs.ports[i]).serverListeningPort = gs.ports[i].number
  BY <1>2
<1>10. ASSUME NEW i \in P
       PROVE  config.gamePorts[t.ports[i].name] = gs.ports[i].number
  <2>. DEFINE name == t.ports[i].name
              found == {j \in DOMAIN env : env[j].name = name}
  <2>1. DOMAIN env = 1 .. n /\ n \in Nat
    BY <1>4
  <2>2. \A j \in DOMAIN env : \E k \in P : env[j] = gs.ports[k]
    BY <1>6 DEF ToSet
  <2>3. PICK j0 \in DOMAIN env : env[j0] = gs.ports[i]
    BY <1>6 DEF ToSet
  <2>4. found # {} /\ found \subseteq 1 .. n
    BY <1>2, <2>1, <2>3
  <2>5. Max(found) \in found
    <3>. HIDE DEF found, n
    <3>. QED  BY <2>1, <2>4, MaxIndex
  <2>6. env[Max(found)].number = gs.ports[i].number
    <3>1. PICK k \in P : env[Max(found)] = gs.ports[k]
      BY <2>2, <2>5
    <3>2. t.ports[k].name = t.ports[i].name
      BY <1>2, <2>5, <3>1
    <3>3. k = i
      BY <1>5, <3>2
    <3>. QED  BY <3>1, <3>3
  <2>7. name \in {p.name : p \in ToSet(env)}
    BY <1>2, <1>6
  <2>8. config.gamePorts[name] = env[Max(found)].number
    BY <1>3, <2>7 DEF GamePorts
  <2>. QED  BY <2>6, <2>8
<1>. HIDE DEF Conf, configured
<1>11. ASSUME NEW i \in P
       PROVE  \E c \in configured :
                /\ c.name = t.ports[i].name /\ c.name # ""
                /\ c.serverListeningPort = IF t.hostNetwork
                                           THEN c.clientConnectionPort
                                           ELSE t.ports[i].number
                /\ config.gamePorts[c.name] = c.serverListeningPort
  <2>1. t.ports[i].name # ""
    BY PickedHaveNames DEF P
  <2>2. Conf(gs.ports[i]) \in configured
    BY <1>8
  <2>. DEFINE c == Conf(gs.ports[i])
  <2>3. c.name = t.ports[i].name /\ c.name # ""
    BY <1>9, <2>1
  <2>4. c.serverListeningPort = gs.ports[i].number /\ c.clientConnectionPort = Host(i)
    BY <1>9
  <2>5. config.gamePorts[c.name] = c.serverListeningPort
    BY <1>10, <2>3, <2>4
  <2>6. gs.ports[i].number = IF t.hostNetwork THEN Host(i) ELSE t.ports[i].number
    BY <1>2
  <2>. HIDE DEF c
  <2>7. c.serverListeningPort = IF t.hostNetwork THEN c.clientConnectionPort
                                ELSE t.ports[i].number
    BY <2>4, <2>6
  <2>8. c \in configured
    BY <2>2 DEF c
  <2>. QED  BY <2>3, <2>5, <2>7, <2>8
<1>12. Cardinality(configured) = Cardinality(P)
  <2>. DEFINE f == [i \in P |-> Conf(gs.ports[i])]
  <2>1. f \in [P -> configured] /\ \A y \in configured : \E i \in P : f[i] = y
    BY <1>8
  <2>2. \A i, k \in P : f[i] = f[k] => i = k
    BY <1>2, <1>9
  <2>. HIDE DEF f
  <2>. QED  BY <1>5, <2>1, <2>2, BijectionCard
<1>13. Cardinality({c.clientConnectionPort : c \in configured}) = Cardinality(P)
  <2>. DEFINE f == [i \in P |-> Host(i)]
              T == {c.clientConnectionPort : c \in configured}
  <2>1. T = {Host(i) : i \in P}
    BY <1>8, <1>9
  <2>2. f \in [P -> T] /\ \A y \in T : \E i \in P : f[i] = y
    BY <2>1
  <2>3. \A i, k \in P : f[i] = f[k] => i = k
    BY <1>2
  <2>. HIDE DEF f, T
  <2>4. Cardinality(T) = Cardinality(P)
    BY <1>5, <2>2, <2>3, BijectionCard
  <2>. QED  BY <2>4 DEF T
<1>14. ASSUME NEW c \in configured
       PROVE  <<c.serverListeningPort, c.clientConnectionPort>> \in ToSet(PortTuples(gs))
  <2>1. PICK i \in P : c = Conf(gs.ports[i])
    BY <1>8
  <2>2. i \in DOMAIN gs.ports
    BY <1>2, <1>5
  <2>3. PortTuples(gs)[i] = <<gs.ports[i].number, gs.ports[i].host>>
        /\ DOMAIN PortTuples(gs) = DOMAIN gs.ports
    BY <2>2 DEF PortTuples
  <2>4. PortTuples(gs)[i] \in ToSet(PortTuples(gs))
    BY <2>2, <2>3 DEF ToSet
  <2>. QED  BY <1>2, <1>9, <2>1, <2>3, <2>4
<1>15. PortsMatch(t, gs, config)
  BY <1>11, <1>12, <1>13, <1>14 DEF PortsMatch, configured, P
<1>. QED  BY <1>3, <1>7, <1>15 DEF gs, init, config

-----------------------------------------------------------------------------
(* What the init container makes of the metadata                           *)

(* What has been read does not depend on what follows.                     *)
LEMMA ReadBefore ==
    ASSUME NEW C, NEW s \in Seq(C), NEW r \in Seq(C), Len(s) <= Len(r),
           \A i \in 1 .. Len(s) : r[i] = s[i], NEW separator
    PROVE  PartsRead(r, separator)[Len(s)] = Split(s, separator)
<1>. DEFINE f == PartsRead(s, separator)
            g == PartsRead(r, separator)
            n == Len(s)
            After(i, p) == ReadToken(p, s[i], separator)
            S == {i \in 0 .. n : g[i] = f[i]}
<1>1. f[0] = << <<>> >> /\ \A i \in 1 .. n : f[i] = After(i, f[i - 1])
  BY PartsReadStep DEF Reads
<1>2. g[0] = << <<>> >> /\ \A i \in 1 .. n : g[i] = After(i, g[i - 1])
  <2>1. 1 .. n \subseteq 1 .. Len(r)
    OBVIOUS
  <2>2. /\ g[0] = << <<>> >>
        /\ \A i \in 1 .. Len(r) : g[i] = ReadToken(g[i - 1], r[i], separator)
    BY PartsReadStep DEF Reads
  <2>. HIDE DEF g
  <2>. QED  BY <2>1, <2>2
<1>. HIDE DEF f, g, After
<1>3. 0 \in S /\ n \in Nat
  BY <1>1, <1>2
<1>4. \A i \in 1 .. n : i - 1 \in S => i \in S
  BY <1>1, <1>2
<1>5. 0 .. n \subseteq S
  <2>. HIDE DEF S, n
  <2>. QED  BY <1>3, <1>4, UpTo
<1>6. n \in 0 .. n
  BY <1>3
<1>7. g[n] = f[n]
  BY <1>5, <1>6
<1>. QED  BY <1>7 DEF Split, f, g

(* A separator begins a new part.                                          *)
LEMMA SplitSeparator ==
    ASSUME NEW C, NEW s \in Seq(C), NEW separator \in C
    PROVE  Split(s \o <<separator>>, separator) = Append(Split(s, separator), <<>>)
<1>. DEFINE r == s \o <<separator>>
            g == PartsRead(r, separator)
<1>1. <<separator>> \in Seq(C) /\ Len(<<separator>>) = 1 /\ <<separator>>[1] = separator
  BY Single
<1>2. r \in Seq(C) /\ Joined(s, <<separator>>, r)
  BY <1>1, Concat
<1>. HIDE DEF r
<1>3. /\ Len(r) = Len(s) + 1 /\ Len(s) \in Nat
      /\ \A i \in 1 .. Len(s) : r[i] = s[i]
  BY <1>1, <1>2 DEF Joined
<1>4. r[Len(s) + 1] = separator
  <2>1. 1 \in 1 .. Len(<<separator>>)
    BY <1>1
  <2>. QED  BY <1>1, <1>2, <2>1 DEF Joined
<1>5. g[Len(s)] = Split(s, separator)
  BY <1>2, <1>3, ReadBefore
<1>6. g[Len(r)] = Append(g[Len(r) - 1], <<>>)
  <2>1. Len(r) \in 1 .. Len(r) /\ r[Len(r)] = separator
    BY <1>3, <1>4
  <2>2. Reads(g, r, separator, C)
    BY <1>2, PartsReadStep
  <2>. HIDE DEF g
  <2>. QED  BY <2>1, <2>2 DEF Reads, ReadToken
<1>7. Len(r) - 1 = Len(s)
  BY <1>3
<1>. QED  BY <1>5, <1>6, <1>7 DEF Split, r

Without(separator, s) == \A i \in 1 .. Len(s) : s[i] # separator

(* The last part takes what is no separator.                               *)
LEMMA SplitPiece ==
    ASSUME NEW s \in Seq(Tokens), NEW piece \in Seq(Tokens), NEW separator,
           Without(separator, piece),
           NEW Q \in Seq(Seq(Tokens)), Split(s, separator) = Append(Q, <<>>)
    PROVE  Split(s \o piece, separator) = Append(Q, piece)
<1>. DEFINE r == s \o piece
            g == PartsRead(r, separator)
            n == Len(piece)
            k == Len(s)
            Part(j) == SubSeq(piece, 1, j)
            S == {j \in 0 .. n : g[k + j] = Append(Q, Part(j))}
<1>1. r \in Seq(Tokens) /\ Joined(s, piece, r)
  BY Concat
<1>. HIDE DEF r
<1>2. /\ Len(r) = k + n /\ k \in Nat /\ n \in Nat
      /\ \A i \in 1 .. k : r[i] = s[i]
      /\ \A j \in 1 .. n : r[k + j] = piece[j]
  BY <1>1 DEF Joined
<1>3. g[k] = Append(Q, <<>>)
  <2>1. k <= Len(r)
    BY <1>2
  <2>. QED  BY <1>1, <1>2, <2>1, ReadBefore
<1>4. \A i \in 1 .. k + n : g[i] = ReadToken(g[i - 1], r[i], separator)
  <2>1. Reads(g, r, separator, Tokens)
    BY <1>1, PartsReadStep
  <2>. HIDE DEF g
  <2>. QED  BY <1>2, <2>1 DEF Reads
<1>. HIDE DEF g, k, n
<1>5. 0 \in S
  <2>1. Part(0) = <<>> /\ k + 0 = k /\ 0 \in 0 .. n
    BY <1>2
  <2>. HIDE DEF Part
  <2>. QED  BY <1>3, <2>1
<1>6. ASSUME NEW j \in 1 .. n, j - 1 \in S
      PROVE  j \in S
  <2>. DEFINE last == Part(j - 1)
              before == Append(Q, last)
  <2>1. /\ k + j \in 1 .. k + n /\ (k + j) - 1 = k + (j - 1)
        /\ j \in 0 .. n /\ j - 1 \in 0 .. n
    BY <1>2
  <2>2. g[(k + j) - 1] = before
    BY <1>6, <2>1
  <2>3. r[k + j] = piece[j] /\ piece[j] # separator
    BY <1>2 DEF n, Without
  <2>4. g[k + j] = ReadToken(before, piece[j], separator)
    <3>. HIDE DEF before
    <3>0. PICK l \in 1 .. k + n : l = k + j
      BY <2>1
    <3>1. g[l - 1] = before /\ r[l] = piece[j]
      BY <2>2, <2>3, <3>0
    <3>2. g[l] = ReadToken(before, piece[j], separator)
      BY <1>4, <3>1
    <3>. QED  BY <3>0, <3>2
  <2>5. last \in Seq(Tokens) /\ piece[j] \in Tokens
    BY <2>1 DEF n
  <2>6. Append(last, piece[j]) = Part(j)
    BY <2>1 DEF n
  <2>. HIDE DEF Part, last
  <2>7. ReadToken(before, piece[j], separator) = Append(Q, Append(last, piece[j]))
    <3>1. /\ before \in Seq(Seq(Tokens)) /\ Len(before) = Len(Q) + 1
          /\ before[Len(before)] = last
          /\ \A i \in 1 .. Len(Q) : before[i] = Q[i]
      BY <2>5
    <3>2. Append(last, piece[j]) \in Seq(Tokens)
      BY <2>5
    <3>. DEFINE new   == Append(last, piece[j])
                after == [before EXCEPT ![Len(before)] = new]
    <3>3. ReadToken(before, piece[j], separator) = after
      BY <2>3, <3>1 DEF ReadToken
    <3>. HIDE DEF before, new
    <3>4. /\ after \in Seq(Seq(Tokens)) /\ Len(after) = Len(Q) + 1
          /\ \A i \in 1 .. Len(Q) : after[i] = Q[i]
          /\ after[Len(Q) + 1] = new
      BY <3>1, <3>2 DEF new
    <3>5. /\ Append(Q, new) \in Seq(Seq(Tokens)) /\ Len(Append(Q, new)) = Len(Q) + 1
          /\ \A i \in 1 .. Len(Q) : Append(Q, new)[i] = Q[i]
          /\ Append(Q, new)[Len(Q) + 1] = new
      BY <3>2 DEF new
    <3>6. after = Append(Q, new)
      <4>. HIDE DEF after
      <4>1. \A i \in 1 .. Len(Q) + 1 : i \in 1 .. Len(Q) \/ i = Len(Q) + 1
        OBVIOUS
      <4>2. \A i \in 1 .. Len(after) : after[i] = Append(Q, new)[i]
        BY <3>4, <3>5, <4>1
      <4>. QED  BY <3>4, <3>5, <4>2, SameSeq
    <3>. QED  BY <3>3, <3>6 DEF new
  <2>8. g[k + j] = Append(Q, Part(j))
    BY <2>4, <2>6, <2>7
  <2>. QED  BY <2>1, <2>8
<1>7. 0 .. n \subseteq S
  <2>. HIDE DEF S, n
  <2>. QED  BY <1>2, <1>5, <1>6, UpTo
<1>8. n \in 0 .. n
  BY <1>2
<1>9. g[k + n] = Append(Q, Part(n))
  BY <1>7, <1>8
<1>10. Part(n) = piece
  BY <1>2 DEF n
<1>. QED  BY <1>2, <1>9, <1>10 DEF Split, g, r

LEMMA FrontOf ==
    ASSUME NEW C, NEW s \in Seq(C), NEW c \in C
    PROVE  s \o <<c>> # <<>> /\ Front(s \o <<c>>) = s
<1>. DEFINE r == s \o <<c>>
<1>1. /\ r \in Seq(C) /\ Len(r) = Len(s) + 1 /\ Len(s) \in Nat
      /\ \A i \in 1 .. Len(s) : r[i] = s[i]
  <2>1. <<c>> \in Seq(C) /\ Len(<<c>>) = 1
    BY Single
  <2>2. r \in Seq(C) /\ Joined(s, <<c>>, r)
    BY <2>1, Concat
  <2>. HIDE DEF r
  <2>. QED  BY <2>1, <2>2 DEF Joined
<1>. HIDE DEF r
<1>2. r # <<>>
  BY <1>1
<1>3. Front(r) = SubSeq(r, 1, Len(s))
  BY <1>1 DEF Front
<1>4. /\ SubSeq(r, 1, Len(s)) \in Seq(C) /\ Len(SubSeq(r, 1, Len(s))) = Len(s)
      /\ \A i \in 1 .. Len(s) : SubSeq(r, 1, Len(s))[i] = s[i]
  BY <1>1
<1>5. SubSeq(r, 1, Len(s)) = s
  <2>. DEFINE q == SubSeq(r, 1, Len(s))
  <2>1. q \in Seq(C) /\ Len(q) = Len(s) /\ \A i \in 1 .. Len(q) : q[i] = s[i]
    BY <1>4
  <2>. HIDE DEF q
  <2>2. q = s
    BY <2>1, SameSeq
  <2>. QED  BY <2>2 DEF q
<1>. QED  BY <1>2, <1>3, <1>5 DEF r

LEMMA SplitEmpty == \A separator : Split(<<>>, separator) = Append(<<>>, <<>>)
<1>. SUFFICES ASSUME NEW separator
              PROVE  Split(<<>>, separator) = Append(<<>>, <<>>)
  OBVIOUS
<1>1. <<>> \in Seq(STRING) /\ Len(<<>>) = 0
  OBVIOUS
<1>2. Reads(PartsRead(<<>>, separator), <<>>, separator, STRING)
  BY <1>1, PartsReadStep
<1>3. PartsRead(<<>>, separator)[0] = << <<>> >>
  BY <1>2 DEF Reads
<1>. QED  BY <1>1, <1>3 DEF Split

(* Neither separator occurs in a key or a value.                           *)
IsClean(m) ==
    /\ m \in MetadataItem
    /\ Without(",", m.key) /\ Without("?", m.key)
    /\ Without(",", m.value) /\ Without("?", m.value)

LEMMA Pair ==
    ASSUME NEW C, NEW c \in C, NEW d \in C
    PROVE  /\ Append(<<>>, c) \in Seq(C)
           /\ Append(Append(<<>>, c), d) = <<c, d>>
<1>. DEFINE none == <<>>
<1>1. none \in Seq(C) /\ Len(none) = 0
  OBVIOUS
<1>2. <<c, d>> \in Seq(C) /\ Len(<<c, d>>) = 2 /\ <<c, d>>[1] = c /\ <<c, d>>[2] = d
  OBVIOUS
<1>. HIDE DEF none
<1>3. Append(none, c) \in Seq(C) /\ Len(Append(none, c)) = 1 /\ Append(none, c)[1] = c
  BY <1>1
<1>. DEFINE r == Append(Append(none, c), d)
<1>4. r \in Seq(C) /\ Len(r) = 2 /\ r[1] = c /\ r[2] = d
  BY <1>3
<1>. HIDE DEF r
<1>5. \A i \in 1 .. Len(r) : r[i] = <<c, d>>[i]
  <2>1. \A i \in 1 .. 2 : i = 1 \/ i = 2
    OBVIOUS
  <2>. QED  BY <1>2, <1>4, <2>1
<1>6. r = <<c, d>>
  BY <1>2, <1>4, <1>5, SameSeq
<1>. QED  BY <1>3, <1>6 DEF r, none

LEMMA NothingBefore ==
    ASSUME NEW C, NEW s \in Seq(C)
    PROVE  <<>> \in Seq(C) /\ <<>> \o s = s
OBVIOUS

LEMMA SplitTwo ==
    ASSUME NEW key \in Seq(Tokens), NEW value \in Seq(Tokens),
           NEW separator \in Tokens,
           Without(separator, key), Without(separator, value)
    PROVE  Split((key \o <<separator>>) \o value, separator) = <<key, value>>
<1>. DEFINE none == <<>>
            key1 == key \o <<separator>>
            one  == Append(none, key)
<1>1. /\ none \in Seq(Tokens) /\ none \in Seq(Seq(Tokens)) /\ none \o key = key
      /\ Split(none, separator) = Append(none, <<>>)
  BY NothingBefore, SplitEmpty
<1>2. one \in Seq(Seq(Tokens)) /\ Append(one, value) = <<key, value>>
  BY Pair
<1>. HIDE DEF none, one
<1>3. Split(none \o key, separator) = Append(none, key)
  <2>1. none \in Seq(Tokens) /\ none \in Seq(Seq(Tokens))
    BY <1>1
  <2>2. Split(none, separator) = Append(none, <<>>)
    BY <1>1
  <2>. HIDE DEF key1
  <2>. QED  BY <2>1, <2>2, SplitPiece, SMTT(60)
<1>4. Split(key, separator) = one
  BY <1>1, <1>3 DEF one
<1>5. key1 \in Seq(Tokens)
  <2>1. <<separator>> \in Seq(Tokens)
    BY Single
  <2>. QED  BY <2>1, Concat
<1>6. Split(key1, separator) = Append(one, <<>>)
  BY <1>4, SplitSeparator
<1>. HIDE DEF key1
<1>7. Split(key1 \o value, separator) = Append(one, value)
  <2>1. one \in Seq(Seq(Tokens))
    BY <1>2
  <2>. QED  BY <1>5, <1>6, <2>1, SplitPiece
<1>. QED  BY <1>2, <1>7 DEF key1

(* A piece is the key, then the value.                                     *)
LEMMA SplitItem ==
    ASSUME NEW m, IsClean(m)
    PROVE  Split(ItemBody(m), ",") = <<m.key, m.value>>
<1>1. m.key \in Seq(Tokens) /\ m.value \in Seq(Tokens) /\ "," \in Tokens
  BY DEF IsClean, MetadataItem, Tokens
<1>2. Without(",", m.key) /\ Without(",", m.value)
  BY DEF IsClean
<1>. QED  BY <1>1, <1>2, SplitTwo DEF ItemBody

(* The text of an item has no mark before its end.                         *)
LEMMA BodyHasNoMark ==
    ASSUME NEW m, IsClean(m)
    PROVE  Without("?", ItemBody(m))
<1>. DEFINE comma == <<",">>
            key1  == m.key \o comma
            body  == key1 \o m.value
<1>1. m.key \in Seq(Tokens) /\ m.value \in Seq(Tokens)
  BY DEF IsClean, MetadataItem
<1>2. comma \in Seq(Tokens) /\ Len(comma) = 1 /\ comma[1] # "?"
  <2>1. "," \in Tokens
    BY DEF Tokens
  <2>2. comma \in Seq(Tokens) /\ Len(comma) = 1 /\ comma[1] = ","
    BY <2>1, Single
  <2>3. "," # "?"
    OBVIOUS
  <2>. QED  BY <2>2, <2>3
<1>. HIDE DEF comma
<1>3. key1 \in Seq(Tokens) /\ Joined(m.key, comma, key1)
  BY <1>1, <1>2, Concat
<1>. HIDE DEF key1
<1>4. Joined(key1, m.value, body)
  BY <1>1, <1>3, Concat
<1>. HIDE DEF body
<1>5. ASSUME NEW i \in 1 .. Len(key1) PROVE key1[i] # "?"
  <2>1. Len(m.key) \in Nat /\ Len(key1) = Len(m.key) + 1
    BY <1>1, <1>2, <1>3 DEF Joined
  <2>2. CASE i \in 1 .. Len(m.key)
    BY <1>3, <2>2 DEF Joined, IsClean, Without
  <2>3. CASE i = Len(m.key) + 1
    <3>1. 1 \in 1 .. Len(comma)
      <4>1. Len(comma) = 1
        BY <1>2
      <4>. QED  BY <4>1
    <3>2. key1[Len(m.key) + 1] = comma[1]
      BY <1>3, <3>1 DEF Joined
    <3>. QED  BY <1>2, <2>3, <3>2
  <2>. QED  BY <2>1, <2>2, <2>3
<1>6. ASSUME NEW i \in 1 .. Len(body) PROVE body[i] # "?"
  <2>1. /\ Len(key1) \in Nat /\ Len(m.value) \in Nat
        /\ Len(body) = Len(key1) + Len(m.value)
    BY <1>1, <1>3, <1>4 DEF Joined
  <2>2. CASE i \in 1 .. Len(key1)
    BY <1>4, <1>5, <2>2 DEF Joined
  <2>3. CASE ~(i \in 1 .. Len(key1))
    <3>1. PICK j \in 1 .. Len(m.value) : i = Len(key1) + j
      <4>1. i - Len(key1) \in 1 .. Len(m.value) /\ i = Len(key1) + (i - Len(key1))
        BY <2>1, <2>3
      <4>. QED  BY <4>1
    <3>2. body[i] = m.value[j]
      BY <1>4, <3>1 DEF Joined
    <3>. QED  BY <3>2 DEF IsClean, Without
  <2>. QED  BY <2>2, <2>3
<1>7. ItemBody(m) = body
  BY DEF ItemBody, body, key1, comma
<1>. QED  BY <1>6, <1>7 DEF Without

(* PF_GAMESERVER_BUILD_METADATA is split into the texts of the items.      *)
LEMMA SplitMetadata ==
    ASSUME NEW t, IsTemplate(t), \A i \in 1 .. Len(t.metadata) : IsClean(t.metadata[i])
    PROVE  LET n == Len(t.metadata)
           IN  Split(MetadataEnv(t), "?")
                 = IF n = 0 THEN << <<>> >> ELSE [i \in 1 .. n |-> ItemBody(t.metadata[i])]
<1>. DEFINE n       == Len(t.metadata)
            written == MetadataWritten(t)
            Body(i) == ItemBody(t.metadata[i])
            Bodies(i) == [j \in 1 .. i |-> Body(j)]
            S == {i \in 0 .. n : Split(written[i], "?") = Append(Bodies(i), <<>>)}
<1>1. n \in Nat
  BY DEF IsTemplate
<1>2. /\ written[0] = <<>>
      /\ \A i \in 0 .. n : written[i] \in Seq(Tokens)
      /\ \A i \in 1 .. n : written[i] = written[i - 1] \o ItemText(t.metadata[i])
  BY MetadataWrittenStep
<1>3. ASSUME NEW i \in 1 .. n
      PROVE  /\ Body(i) \in Seq(Tokens) /\ Body(i) # <<>> /\ Without("?", Body(i))
             /\ ItemText(t.metadata[i]) = Body(i) \o <<"?">>
             /\ <<"?">> \in Seq(Tokens) /\ "?" \in Tokens
  <2>1. IsClean(t.metadata[i]) /\ t.metadata[i] \in MetadataItem
    BY DEF IsClean
  <2>. QED  BY <2>1, ItemTextIs, BodyHasNoMark DEF Tokens
<1>. HIDE DEF n, written, Body
<1>4. ASSUME NEW i \in 0 .. n
      PROVE  Bodies(i) \in Seq(Seq(Tokens)) /\ Len(Bodies(i)) = i
  <2>1. \A j \in 1 .. i : Body(j) \in Seq(Tokens)
    BY <1>1, <1>3
  <2>. QED  BY <1>1, <2>1
(* One more item, up to its mark and with it.                              *)
<1>5. ASSUME NEW i \in 1 .. n, i - 1 \in S
      PROVE  /\ Split(written[i - 1] \o Body(i), "?") = Bodies(i)
             /\ written[i] = (written[i - 1] \o Body(i)) \o <<"?">>
             /\ written[i - 1] \o Body(i) \in Seq(Tokens)
  <2>. DEFINE s == written[i - 1]
              Q == Bodies(i - 1)
              b == Body(i)
  <2>1. i - 1 \in 0 .. n /\ s \in Seq(Tokens) /\ Q \in Seq(Seq(Tokens)) /\ Len(Q) = i - 1
    BY <1>1, <1>2, <1>4
  <2>2. Split(s, "?") = Append(Q, <<>>)
    BY <1>5
  <2>3. b \in Seq(Tokens) /\ Without("?", b) /\ <<"?">> \in Seq(Tokens)
    BY <1>3
  <2>4. written[i] = s \o (b \o <<"?">>)
    BY <1>2, <1>3
  <2>5. Append(Q, b) = Bodies(i)
    <3>1. /\ Bodies(i) \in Seq(Seq(Tokens)) /\ Len(Bodies(i)) = i
          /\ \A j \in 1 .. i : Bodies(i)[j] = Body(j)
          /\ \A j \in 1 .. i - 1 : Q[j] = Body(j)
      BY <1>1, <1>4
    <3>. HIDE DEF Q, b, Bodies
    <3>2. /\ Append(Q, b) \in Seq(Seq(Tokens)) /\ Len(Append(Q, b)) = i
          /\ \A j \in 1 .. i - 1 : Append(Q, b)[j] = Q[j]
          /\ Append(Q, b)[i] = b
      BY <2>1, <2>3
    <3>3. \A j \in 1 .. i : j \in 1 .. i - 1 \/ j = i
      BY <1>1
    <3>4. \A j \in 1 .. i : Append(Q, b)[j] = Bodies(i)[j]
      BY <3>1, <3>2, <3>3 DEF b
    <3>. QED  BY <3>1, <3>2, <3>4, SameSeq
  <2>. HIDE DEF s, Q, b, Bodies
  <2>6. Split(s \o b, "?") = Append(Q, b)
    BY <2>1, <2>2, <2>3, SplitPiece, SMTT(60)
  <2>7. s \o (b \o <<"?">>) = (s \o b) \o <<"?">>
    BY <2>1, <2>3, Associative
  <2>8. s \o b \in Seq(Tokens)
    BY <2>1, <2>3, Concat
  <2>. QED  BY <2>4, <2>5, <2>6, <2>7, <2>8 DEF s, b
<1>6. 0 \in S
  <2>1. Bodies(0) = <<>>
    OBVIOUS
  <2>2. Split(written[0], "?") = Append(Bodies(0), <<>>)
    BY <1>2, <2>1, SplitEmpty
  <2>. QED  BY <1>1, <2>2
<1>7. ASSUME NEW i \in 1 .. n, i - 1 \in S
      PROVE  i \in S
  <2>. DEFINE s == written[i - 1] \o Body(i)
  <2>1. /\ Split(s, "?") = Bodies(i) /\ written[i] = s \o <<"?">>
        /\ s \in Seq(Tokens) /\ "?" \in Tokens
    BY <1>3, <1>5, <1>7
  <2>. HIDE DEF s, Bodies
  <2>2. Split(written[i], "?") = Append(Bodies(i), <<>>)
    BY <2>1, SplitSeparator
  <2>. QED  BY <1>1, <2>2
<1>8. 0 .. n \subseteq S
  <2>. HIDE DEF S
  <2>. QED  BY <1>1, <1>6, <1>7, UpTo
<1>9. CASE n = 0
  <2>1. MetadataEnv(t) = <<>>
    BY <1>2, <1>9 DEF MetadataEnv, n, written
  <2>2. Split(<<>>, "?") = << <<>> >>
    <3>1. Append(<<>>, <<>>) = << <<>> >>
      OBVIOUS
    <3>. QED  BY <3>1, SplitEmpty
  <2>. QED  BY <1>9, <2>1, <2>2 DEF n
<1>10. CASE n # 0
  <2>. DEFINE s == written[n - 1] \o Body(n)
  <2>1. n \in 1 .. n /\ n - 1 \in 0 .. n
    BY <1>1, <1>10
  <2>2. /\ Split(s, "?") = Bodies(n) /\ written[n] = s \o <<"?">>
        /\ s \in Seq(Tokens) /\ "?" \in Tokens
    BY <1>3, <1>5, <1>8, <2>1
  <2>. HIDE DEF s, Bodies
  <2>3. written[n] # <<>> /\ Front(written[n]) = s
    BY <2>2, FrontOf
  <2>4. MetadataEnv(t) = s
    BY <2>3 DEF MetadataEnv, n, written
  <2>. QED  BY <1>10, <2>2, <2>4 DEF n, Bodies, Body
<1>. QED  BY <1>9, <1>10

LEMMA PartsWithout ==
    ASSUME NEW C, NEW s \in Seq(C), NEW t \in Seq(C), NEW c, c \notin ToSet(s \o t)
    PROVE  Without(c, s) /\ Without(c, t)
<1>. DEFINE both == s \o t
<1>1. both \in Seq(C) /\ Joined(s, t, both)
  BY Concat
<1>. HIDE DEF both
<1>2. ASSUME NEW j \in 1 .. Len(both)
      PROVE  both[j] # c
  <2>1. both[j] \in ToSet(both)
    <3>1. DOMAIN both = 1 .. Len(both)
      BY <1>1
    <3>. QED  BY <3>1 DEF ToSet
  <2>. QED  BY <2>1 DEF both
<1>3. Len(s) \in Nat /\ Len(t) \in Nat /\ Len(both) = Len(s) + Len(t)
  BY <1>1 DEF Joined
<1>4. ASSUME NEW j \in 1 .. Len(s)
      PROVE  s[j] # c
  <2>1. j \in 1 .. Len(both)
    BY <1>3
  <2>2. both[j] = s[j]
    BY <1>1 DEF Joined
  <2>. QED  BY <1>2, <2>1, <2>2
<1>5. ASSUME NEW j \in 1 .. Len(t)
      PROVE  t[j] # c
  <2>1. Len(s) + j \in 1 .. Len(both)
    BY <1>3
  <2>2. both[Len(s) + j] = t[j]
    BY <1>1 DEF Joined
  <2>. QED  BY <1>2, <2>1, <2>2
<1>. QED  BY <1>4, <1>5 DEF Without

LEMMA MetadataIsClean ==
    ASSUME NEW t, IsTemplate(t), InitContainerCanRead(t), NEW i \in 1 .. Len(t.metadata)
    PROVE  IsClean(t.metadata[i])
<1>1. t.metadata[i] \in MetadataItem /\ t.metadata[i] \in ToSet(t.metadata)
  BY DEF IsTemplate, ToSet
<1>2. PICK m \in MetadataItem : m = t.metadata[i]
  BY <1>1
<1>3. "," \notin ToSet(m.key \o m.value) /\ "?" \notin ToSet(m.key \o m.value)
  BY <1>1, <1>2 DEF InitContainerCanRead
<1>4. m.key \in Seq(Tokens) /\ m.value \in Seq(Tokens)
  BY DEF MetadataItem
<1>5. /\ Without(",", m.key) /\ Without(",", m.value)
      /\ Without("?", m.key) /\ Without("?", m.value)
  BY <1>3, <1>4, PartsWithout
<1>. QED  BY <1>2, <1>5 DEF IsClean

(* Every key is read with its own value.                                   *)
LEMMA MetadataIsRead ==
    ASSUME NEW t, IsTemplate(t), InitContainerCanRead(t)
    PROVE  /\ MetadataParses(MetadataEnv(t))
           /\ \A config : config.buildMetadata = BuildMetadata(MetadataEnv(t))
                            => MetadataMatches(t, config)
<1>. DEFINE n == Len(t.metadata)
            At(i) == t.metadata[i]
            env   == MetadataEnv(t)
            texts == Split(env, "?")
            items == MetadataItems(env)
            M     == ToSet(t.metadata)
            Read(k) == items[Max({i \in DOMAIN items : items[i][1] = k})][2]
            Meant(k) == (CHOOSE m \in M : m.key = k).value
<1>1. n \in Nat /\ DOMAIN t.metadata = 1 .. n
  BY DEF IsTemplate
<1>2. \A i \in 1 .. n : IsClean(At(i))
  BY MetadataIsClean
<1>3. texts = IF n = 0 THEN << <<>> >> ELSE [i \in 1 .. n |-> ItemBody(At(i))]
  BY <1>2, SplitMetadata
<1>4. \A i, k \in 1 .. n : At(i).key = At(k).key => i = k
  BY <1>1 DEF InitContainerCanRead
<1>5. M = {At(i) : i \in 1 .. n}
  BY <1>1 DEF ToSet
<1>. HIDE DEF n, At, env, texts, M
<1>6. items = [i \in {j \in DOMAIN texts : texts[j] # <<>>} |-> Split(texts[i], ",")]
  BY DEF MetadataItems, texts
<1>7. {j \in DOMAIN texts : texts[j] # <<>>} = 1 .. n
  <2>1. CASE n = 0
    BY <1>3, <2>1
  <2>2. CASE n # 0
    <3>1. DOMAIN texts = 1 .. n /\ \A j \in 1 .. n : texts[j] = ItemBody(At(j))
      BY <1>3, <2>2
    <3>2. \A j \in 1 .. n : ItemBody(At(j)) # <<>>
      BY <1>2, ItemTextIs DEF IsClean
    <3>. QED  BY <3>1, <3>2
  <2>. QED  BY <2>1, <2>2
<1>8. items = [i \in 1 .. n |-> <<At(i).key, At(i).value>>]
  <2>1. ASSUME NEW i \in 1 .. n
        PROVE  Split(texts[i], ",") = <<At(i).key, At(i).value>>
    <3>1. n # 0
      BY <1>1
    <3>2. texts[i] = ItemBody(At(i))
      BY <1>3, <3>1
    <3>. QED  BY <1>2, <3>2, SplitItem
  <2>. HIDE DEF items
  <2>. QED  BY <1>6, <1>7, <2>1
<1>. HIDE DEF items
<1>9. DOMAIN items = 1 .. n /\ \A i \in 1 .. n : /\ Len(items[i]) = 2
                                                /\ items[i][1] = At(i).key
                                                /\ items[i][2] = At(i).value
  BY <1>8
<1>10. MetadataParses(env)
  BY <1>9 DEF MetadataParses, items
<1>11. {items[i][1] : i \in DOMAIN items} = {m.key : m \in M}
  BY <1>5, <1>9
<1>12. ASSUME NEW k \in {m.key : m \in M}
       PROVE  Read(k) = Meant(k)
  <2>1. PICK i \in 1 .. n : At(i).key = k
    BY <1>5
  <2>. DEFINE S == {j \in DOMAIN items : items[j][1] = k}
  <2>2. S \subseteq 1 .. n /\ S # {}
    BY <1>9, <2>1
  <2>3. Max(S) \in S
    <3>. HIDE DEF S
    <3>. QED  BY <1>1, <2>2, MaxIndex
  <2>4. Max(S) = i
    BY <1>4, <1>9, <2>1, <2>3
  <2>. HIDE DEF S
  <2>5. Read(k) = At(i).value
    BY <1>9, <2>4 DEF S
  <2>6. \A m \in M : m.key = k => m = At(i)
    BY <1>4, <1>5, <2>1
  <2>7. At(i) \in M
    BY <1>5
  <2>8. (CHOOSE m \in M : m.key = k) = At(i)
    BY <2>1, <2>6, <2>7
  <2>9. Meant(k) = At(i).value
    BY <2>8
  <2>. QED  BY <2>5, <2>9
<1>13. BuildMetadata(env) = [k \in {items[i][1] : i \in DOMAIN items} |-> Read(k)]
  BY DEF BuildMetadata, items
<1>. HIDE DEF Read, Meant
<1>14. BuildMetadata(env) = [k \in {m.key : m \in M} |-> Meant(k)]
  BY <1>11, <1>12, <1>13
<1>. QED  BY <1>10, <1>14 DEF MetadataMatches, env, M, Meant

(* The init container gets through and leaves a configuration that says    *)
(* what the build says.                                                    *)
LEMMA ConfigIsRight ==
    ASSUME NEW t, IsTemplate(t), NumbersExposedOnce(t), ValidateBuildPorts(t),
           InitContainerCanRead(t), NEW ports \in HostPortChoices(t), NEW b
    PROVE  LET gs   == GameServerTemplate(t, ports)
               init == PodForGameServer(b, gs).init
           IN  /\ InitContainerSucceeds(init)
               /\ PortsMatch(t, gs, GsdkConfig(init))
               /\ MetadataMatches(t, GsdkConfig(init))
<1>. DEFINE gs   == GameServerTemplate(t, ports)
            init == PodForGameServer(b, gs).init
<1>1. /\ init.env.PF_GAMESERVER_PORTS # <<>>
      /\ PortsMatch(t, gs, GsdkConfig(init))
  BY PortsAreConfigured
<1>2. FoldersCreated(init)
  BY FilesAreFound
<1>3. IsTemplate(gs) /\ gs.metadata = t.metadata
  BY PickedFit, HostPortsGiven
<1>4. /\ init.env.PF_GAMESERVER_BUILD_METADATA = MetadataEnv(gs)
      /\ GsdkConfig(init).buildMetadata = BuildMetadata(MetadataEnv(gs))
  BY DEF PodForGameServer, InitContainer, InitContainerEnv, GsdkConfig
<1>. HIDE DEF gs, init
<1>5. MetadataEnv(gs) = MetadataEnv(t)
  BY <1>3 DEF MetadataEnv, MetadataWritten
<1>6. /\ MetadataParses(init.env.PF_GAMESERVER_BUILD_METADATA)
      /\ MetadataMatches(t, GsdkConfig(init))
  BY <1>4, <1>5, MetadataIsRead
<1>7. InitContainerSucceeds(init)
  BY <1>1, <1>2, <1>6 DEF InitContainerSucceeds
<1>. QED  BY <1>1, <1>6, <1>7 DEF gs, init

=============================================================================
