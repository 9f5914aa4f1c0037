------------------------- MODULE Housekeeping_proofs -------------------------
(* Proofs about Housekeeping, for every rules file and every set of rates.    *)
EXTENDS Housekeeping, SequenceTheorems, FoldLemmas, TLAPS

IsSequence(s) == \E S : s \in Seq(S)

\* The operations of the channels among the first n strings.
OperationsOfFirst(n, s) ==
    {OperationOf(parse_rule(s[i])) : i \in {k \in 1..n : IsChannel(parse_rule(s[k]))}}

Parsing == {"get_create_channel_rules", "get_create_object_rules", "initialize"}

\* How far the rules have come.  The core takes its operations once the strings
\* are complete; the local controller has those of the rules that arrived.
HandshakeInv ==
    /\ IsSequence(strings)
    /\ IsSequence(rules)
    /\ phase \in Parsing => rules = <<>> /\ operation_to_channel_object = <<>>
    /\ phase = "LocalHandshake" =>
          /\ Len(rules) <= Len(strings)
          /\ active_ops = OperationsOfFirst(Len(strings), strings)
          /\ DOMAIN operation_to_channel_object = OperationsOfFirst(Len(rules), strings)

\* The lines of which rules are made.
ChannelLine(line) == Len(line) >= 7 /\ line[2] = "create_channel"
ObjectLine(line) == Len(line) >= 10 /\ line[2] = "create_object"

ChannelFrom(line, r, s) ==
    /\ ChannelLine(line)
    /\ r = HousekeepingCreateChannelRaw(line)
    /\ s = convert_housekeeping_create_channel_string(r)

ObjectFrom(line, r, s) ==
    /\ ObjectLine(line)
    /\ r = HousekeepingCreateObjectRaw(line)
    /\ s = convert_housekeeping_create_object_string(r)

\* The parser's rules and their strings are made of lines of the file.
RulesFromFile ==
    /\ file \in Seq(Seq(Words))
    /\ next \in Nat \ {0}
    /\ IsSequence(raw) /\ IsSequence(strings) /\ Len(strings) = Len(raw)
    /\ \A i \in 1..Len(raw) : \E k \in 1..Len(file) :
          ChannelFrom(file[k], raw[i], strings[i]) \/ ObjectFrom(file[k], raw[i], strings[i])

\* No channel that the parser has passed is left out.
ChannelsRead ==
    phase # "undefined" => \A k \in 1..Len(file) :
        ChannelLine(file[k]) /\ (phase = "get_create_channel_rules" => k < next)
            => \E i \in 1..Len(raw) : raw[i].m_rule_type = "create_channel"

\* What the local controller keeps is what it was sent.
RulesKept ==
    /\ IsSequence(rules) /\ Len(rules) <= Len(strings)
    /\ \A i \in 1..Len(rules) : rules[i] = strings[i]
    /\ phase \in Parsing => rules = <<>>

\* What a stage makes of a string that has all its fields.
Received(s, t) ==
    LET tokens == parse_rule(s) IN
    /\ ~Short(tokens, IF IsChannel(tokens) THEN 8 ELSE 11)
    /\ t = IF IsChannel(tokens) THEN fill_create_channel_rule(tokens)
           ELSE fill_create_object_rule(tokens)

\* A stage has the first rules, none before all have reached the local controller.
StageRules ==
    /\ IsSequence(stage) /\ Len(stage) <= Len(rules)
    /\ \A i \in 1..Len(stage) : Received(rules[i], stage[i])
    /\ Len(stage) > 0 => Len(rules) = Len(strings)

\* The channels among the first n strings that serve an operation.
ChannelsOfFirst(operation, n, s) ==
    {Token(parse_rule(s[i]), 3) : i \in {k \in 1..n :
        IsChannel(parse_rule(s[k])) /\ OperationOf(parse_rule(s[k])) = operation}}

\* The local controller knows for each operation the channels of the rules.
ChannelsKnown ==
    \A operation \in DOMAIN operation_to_channel_object :
        LET known == operation_to_channel_object[operation] IN
        /\ IsSequence(known) /\ known # <<>>
        /\ {known[i].channel : i \in DOMAIN known} = ChannelsOfFirst(operation, Len(rules), rules)

\* Rates are enforced once the stage has every rule.
RatesAfterRules ==
    /\ enforced # NoEnforcement => phase = "LocalHandshake" /\ Len(stage) = Len(strings)
    /\ RateSplitAmongChannels

RulesInv ==
    /\ HandshakeInv
    /\ RulesFromFile
    /\ ChannelsRead
    /\ MissingTokensExplained
    /\ RulesKept
    /\ StageRules
    /\ ChannelsKnown
    /\ RatesAfterRules

-------------------------------------------------------------------------------
(* Sequences and the operations in their prefixes.                            *)

\* What a sequence becomes when the parser or the handler appends to it.
LEMMA AppendIsSequence ==
  ASSUME NEW s, IsSequence(s), NEW x
  PROVE  IsSequence(Append(s, x)) /\ Len(Append(s, x)) = Len(s) + 1
<1>1. PICK S : s \in Seq(S)
  BY DEF IsSequence
<1>2. s \in Seq(S \cup {x})
  BY <1>1, SeqMonotonic
<1>3. Append(s, x) \in Seq(S \cup {x}) /\ Len(Append(s, x)) = Len(s) + 1
  BY <1>2, AppendProperties
<1> QED
  BY <1>3 DEF IsSequence

\* The length of a sequence counts its elements.
LEMMA LengthOfSequence ==
  ASSUME NEW s, IsSequence(s)
  PROVE  Len(s) \in Nat /\ DOMAIN s = 1..Len(s)
<1>1. PICK S : s \in Seq(S)
  BY DEF IsSequence
<1> QED
  BY <1>1, LenProperties

\* No string, no operation.
LEMMA NoOperations ==
  ASSUME NEW s
  PROVE  OperationsOfFirst(0, s) = {}
BY DEF OperationsOfFirst

\* One string more adds the operation of that string, if it is a channel's.
LEMMA OneOperationMore ==
  ASSUME NEW s, NEW n \in Nat
  PROVE  OperationsOfFirst(n + 1, s) =
            OperationsOfFirst(n, s) \cup
               (IF IsChannel(parse_rule(s[n + 1])) THEN {OperationOf(parse_rule(s[n + 1]))} ELSE {})
<1>1. 1..(n + 1) = (1..n) \cup {n + 1}
  OBVIOUS
<1> QED
  BY <1>1, Zenon DEF OperationsOfFirst

\* The operations that initialize takes are those of all strings.
LEMMA OperationsOfAll ==
  ASSUME NEW s, IsSequence(s)
  PROVE  ActiveOps({tokens \in {parse_rule(s[i]) : i \in DOMAIN s} : IsChannel(tokens)})
            = OperationsOfFirst(Len(s), s)
<1>1. DOMAIN s = 1..Len(s)
  BY LengthOfSequence
<1> QED
  BY <1>1, Zenon DEF ActiveOps, OperationsOfFirst

-------------------------------------------------------------------------------
(* parse_rule.                                                                *)

\* The part of parse_rule for the first i fields.
KeptStep(fields, kept, i) ==
    IF i = 0 THEN <<>>
    ELSE IF fields[i] # "" THEN Append(kept[i - 1], fields[i]) ELSE kept[i - 1]

\* The recursive function that parse_rule is defined by exists.
LEMMA KeptExists ==
  ASSUME NEW fields, NEW n \in Nat
  PROVE  \E g : g = [i \in 0..n |-> KeptStep(fields, g, i)]
<1> DEFINE Step(g, i) == KeptStep(fields, g, i)
           Q == {k \in Nat : \E g : g = [i \in 0..k |-> Step(g, i)]}
<1>1. 0 \in Q
  <2> DEFINE g == [i \in 0..0 |-> <<>>]
  <2>1. \A i \in 0..0 : Step(g, i) = <<>>
    BY DEF KeptStep
  <2>2. g = [i \in 0..0 |-> Step(g, i)]
    BY <2>1
  <2> HIDE DEF Step
  <2> QED
    BY <2>2
<1>2. ASSUME NEW k \in Nat, NEW g, g = [i \in 0..k |-> Step(g, i)]
      PROVE  \E h : h = [i \in 0..(k + 1) |-> Step(h, i)]
  <2> DEFINE h == [i \in 0..(k + 1) |-> Step(g, i)]
  <2>1. ASSUME NEW i \in 0..(k + 1) PROVE Step(g, i) = Step(h, i)
    <3>1. CASE i = 0
      BY <3>1 DEF KeptStep
    <3>2. CASE i # 0
      <4>1. i - 1 \in 0..k /\ i - 1 \in 0..(k + 1)
        BY <3>2
      <4>2. h[i - 1] = Step(g, i - 1)
        BY <4>1
      <4>3. g[i - 1] = Step(g, i - 1)
        <5> HIDE DEF Step
        <5> QED
          BY <1>2, <4>1
      <4> HIDE DEF h
      <4> QED
        BY <3>2, <4>2, <4>3 DEF KeptStep
    <3> QED
      BY <3>1, <3>2
  <2>2. h = [i \in 0..(k + 1) |-> Step(h, i)]
    <3> HIDE DEF Step
    <3> QED
      BY Zenon, <2>1
  <2> QED
    BY <2>2
<1>3. Nat \subseteq Q
  <2>1. \A k \in Nat : k \in Q => k + 1 \in Q
    BY <1>2
  <2> HIDE DEF Q
  <2> QED
    BY <1>1, <2>1, NatInductive
<1> QED
  BY <1>3

\* A field that is dropped.
Empty(field) == field = ""

\* p is what remains of the first n fields: as many as are not empty, and those
\* before the first empty one at their places.
KeptOf(fields, n, p) ==
    /\ IsSequence(p) /\ Len(p) <= n
    /\ (\E j \in 1..n : Empty(fields[j])) => Len(p) < n
    /\ \A k \in 0..n : (\A j \in 1..k : ~Empty(fields[j])) =>
          Len(p) >= k /\ \A j \in 1..k : p[j] = fields[j]

\* An empty field is dropped and any other one appended.
LEMMA KeptOneMore ==
  ASSUME NEW fields, NEW n \in Nat, NEW p, KeptOf(fields, n, p)
  PROVE  KeptOf(fields, n + 1, IF ~Empty(fields[n + 1]) THEN Append(p, fields[n + 1]) ELSE p)
<1> DEFINE x == fields[n + 1]
           q == IF ~Empty(x) THEN Append(p, x) ELSE p
<1>1. IsSequence(p) /\ Len(p) \in Nat
  BY LengthOfSequence DEF KeptOf
<1>2. PICK S : p \in Seq(S)
  BY <1>1 DEF IsSequence
<1>3. p \in Seq(S \cup {x})
  BY <1>2, SeqMonotonic
<1>4. ~Empty(x) => /\ IsSequence(q) /\ Len(q) = Len(p) + 1
                /\ q[Len(p) + 1] = x
                /\ \A j \in 1..Len(p) : q[j] = p[j]
  <2>1. \A j \in 1..Len(p) : Append(p, x)[j] = p[j]
    BY <1>3, AppendProperties
  <2>2. Append(p, x)[Len(p) + 1] = x
    BY <1>3, AppendProperties
  <2> QED
    BY <1>1, <2>1, <2>2, AppendIsSequence
<1>5. CASE Empty(x)
  <2>1. q = p
    BY <1>5
  <2>2. \A k \in 0..(n + 1) : (\A j \in 1..k : ~Empty(fields[j])) => k \in 0..n
    BY <1>5
  <2>3. n + 1 \in 1..(n + 1) /\ Empty(fields[n + 1])
    BY <1>5
  <2>4. KeptOf(fields, n + 1, p)
    BY <1>1, <2>2, <2>3 DEF KeptOf
  <2> QED
    BY <2>1, <2>4
<1>6. CASE ~Empty(x)
  <2> HIDE DEF q
  <2>1. IsSequence(q) /\ Len(q) = Len(p) + 1 /\ Len(q) <= n + 1
    BY <1>1, <1>4, <1>6 DEF KeptOf
  <2>2. ASSUME NEW j \in 1..(n + 1), Empty(fields[j])
        PROVE  Len(q) < n + 1
    <3>1. j \in 1..n
      BY <1>6, <2>2
    <3> QED
      BY <1>1, <2>1, <2>2, <3>1 DEF KeptOf
  <2>3. ASSUME NEW k \in 0..(n + 1), \A j \in 1..k : ~Empty(fields[j])
        PROVE  Len(q) >= k /\ \A j \in 1..k : q[j] = fields[j]
    <3>1. CASE k \in 0..n
      <4>1. Len(p) >= k /\ \A j \in 1..k : p[j] = fields[j]
        BY <2>3, <3>1 DEF KeptOf
      <4> QED
        BY <1>1, <1>4, <1>6, <2>1, <3>1, <4>1
    <3>2. CASE k = n + 1
      <4>1. Len(p) >= n /\ \A j \in 1..n : p[j] = fields[j]
        BY <2>3, <3>2 DEF KeptOf
      <4>2. Len(p) = n
        BY <1>1, <4>1 DEF KeptOf
      <4> QED
        BY <1>4, <1>6, <2>1, <3>2, <4>1, <4>2
    <3> QED
      BY <3>1, <3>2
  <2>4. KeptOf(fields, n + 1, q)
    BY <2>1, <2>2, <2>3 DEF KeptOf
  <2> QED
    BY <2>4 DEF q
<1> QED
  BY <1>5, <1>6

\* What remains of a string: nothing is lost exactly if no field is empty, and
\* the fields before the first empty one keep their places.
LEMMA ParsedFields ==
  ASSUME NEW fields, Len(fields) \in Nat
  PROVE  KeptOf(fields, Len(fields), parse_rule(fields))
<1> DEFINE n == Len(fields)
           g == CHOOSE h : h = [i \in 0..n |-> KeptStep(fields, h, i)]
           Q == {i \in Nat : i <= n => KeptOf(fields, i, g[i])}
<1>1. n \in Nat
  OBVIOUS
<1>2. g = [i \in 0..n |-> KeptStep(fields, g, i)]
  BY <1>1, KeptExists
<1>3. parse_rule(fields) = g[n]
  BY DEF parse_rule, KeptStep
<1> HIDE DEF g
<1>4. 0 \in Q
  <2>1. g[0] = <<>>
    <3>1. g[0] = KeptStep(fields, g, 0)
      BY <1>1, <1>2
    <3> QED
      BY <3>1, Zenon DEF KeptStep
  <2>2. IsSequence(<<>>) /\ Len(<<>>) = 0
    BY EmptySeq DEF IsSequence
  <2> QED
    BY <2>1, <2>2 DEF KeptOf
<1>5. ASSUME NEW i \in Nat, i \in Q PROVE i + 1 \in Q
  <2> SUFFICES ASSUME i + 1 <= n PROVE KeptOf(fields, i + 1, g[i + 1])
    OBVIOUS
  <2>1. i + 1 \in 0..n /\ i + 1 # 0 /\ (i + 1) - 1 = i
    BY <1>1
  <2>2. g[i + 1] = IF ~Empty(fields[i + 1]) THEN Append(g[i], fields[i + 1]) ELSE g[i]
    BY <1>2, <2>1 DEF KeptStep, Empty
  <2>3. KeptOf(fields, i, g[i])
    BY <1>1, <1>5
  <2> QED
    BY <2>2, <2>3, KeptOneMore
<1>6. Nat \subseteq Q
  <2> HIDE DEF Q
  <2> QED
    BY <1>4, <1>5, NatInductive
<1> QED
  BY <1>1, <1>3, <1>6

-------------------------------------------------------------------------------
(* HandshakeInv is inductive.                                                 *)

\* It holds before the parser starts.
LEMMA HandshakeInit == Init => HandshakeInv
<1>1. <<>> \in Seq({})
  BY EmptySeq
<1> QED
  BY <1>1 DEF Init, HandshakeInv, IsSequence

\* The parser's loops only append to strings.
LEMMA ParserKeepsHandshakeInv ==
  ASSUME HandshakeInv, get_create_channel_rules \/ get_create_object_rules
  PROVE  HandshakeInv'
<1>1. /\ UNCHANGED <<rules, operation_to_channel_object>>
      /\ phase \in Parsing
      /\ phase' \in Parsing \cup {"undefined"}
      /\ strings' = strings \/ \E x : strings' = Append(strings, x)
  <2>1. CASE get_create_channel_rules
    BY <2>1 DEF get_create_channel_rules, ReadLine, LastLineRead, AddRule, Undefined, Parsing
  <2>2. CASE get_create_object_rules
    BY <2>2 DEF get_create_object_rules, ReadLine, LastLineRead, AddRule, Undefined, Parsing
  <2> QED
    BY <2>1, <2>2
<1>2. IsSequence(strings')
  BY <1>1, AppendIsSequence DEF HandshakeInv
<1> QED
  BY <1>1, <1>2 DEF HandshakeInv, Parsing

\* initialize finds every operation and no rule has been sent yet.
LEMMA InitializeKeepsHandshakeInv ==
  ASSUME HandshakeInv, initialize
  PROVE  HandshakeInv'
<1>1. /\ UNCHANGED <<strings, rules, operation_to_channel_object>>
      /\ rules = <<>> /\ operation_to_channel_object = <<>>
      /\ phase' \in {"LocalHandshake", "undefined"}
  BY DEF HandshakeInv, initialize, Undefined, Parsing
<1>2. phase' = "LocalHandshake" => active_ops' = OperationsOfFirst(Len(strings), strings)
  BY OperationsOfAll DEF HandshakeInv, initialize, Undefined
<1>3. Len(strings) \in Nat /\ Len(rules) = 0 /\ DOMAIN operation_to_channel_object = {}
  <2>1. Len(strings) \in Nat
    BY LengthOfSequence DEF HandshakeInv
  <2> QED
    BY <1>1, <2>1
<1> QED
  BY <1>1, <1>2, <1>3, NoOperations DEF HandshakeInv, Parsing

\* LocalHandshake keeps the next rule and its operation.
LEMMA LocalHandshakeKeepsHandshakeInv ==
  ASSUME HandshakeInv, LocalHandshake
  PROVE  HandshakeInv'
<1> DEFINE rule == strings[Len(rules) + 1]
           tokens == parse_rule(rule)
<1>1. /\ UNCHANGED <<strings, active_ops, phase>>
      /\ phase = "LocalHandshake"
      /\ Len(rules) < Len(strings)
      /\ rules' = Append(rules, rule)
  BY DEF LocalHandshake
<1>2. IsSequence(rules') /\ Len(rules') = Len(rules) + 1
  BY <1>1, AppendIsSequence DEF HandshakeInv
<1>3. Len(rules) \in Nat /\ Len(strings) \in Nat
  BY LengthOfSequence DEF HandshakeInv
<1>4. DOMAIN operation_to_channel_object' =
         DOMAIN operation_to_channel_object \cup
            (IF IsChannel(tokens) THEN {OperationOf(tokens)} ELSE {})
  BY DEF LocalHandshake
<1>5. DOMAIN operation_to_channel_object' = OperationsOfFirst(Len(rules) + 1, strings)
  <2>1. DOMAIN operation_to_channel_object = OperationsOfFirst(Len(rules), strings)
    BY <1>1 DEF HandshakeInv
  <2> HIDE DEF rule, tokens
  <2>2. OperationsOfFirst(Len(rules) + 1, strings) =
           OperationsOfFirst(Len(rules), strings) \cup
              (IF IsChannel(tokens) THEN {OperationOf(tokens)} ELSE {})
    BY <1>3, OneOperationMore DEF rule, tokens
  <2> QED
    BY <1>4, <2>1, <2>2
<1> HIDE DEF rule, tokens
<1> QED
  BY <1>1, <1>2, <1>3, <1>5 DEF HandshakeInv, Parsing

\* A step of either controller, or a stutter, keeps HandshakeInv.
LEMMA HandshakeStep == HandshakeInv /\ [Next]_vars => HandshakeInv'
<1> SUFFICES ASSUME HandshakeInv, [Next]_vars
             PROVE  HandshakeInv'
  OBVIOUS
<1>1. CASE get_create_channel_rules \/ get_create_object_rules
  BY <1>1, ParserKeepsHandshakeInv
<1>2. CASE initialize
  BY <1>2, InitializeKeepsHandshakeInv
<1>3. CASE LocalHandshake
  BY <1>3, LocalHandshakeKeepsHandshakeInv
<1>4. CASE create_housekeeping_rule
  <2>1. /\ UNCHANGED <<strings, rules, active_ops, operation_to_channel_object>>
        /\ phase = "LocalHandshake" /\ phase' \in {phase, "undefined"}
    BY <1>4 DEF create_housekeeping_rule, Undefined
  <2> QED
    BY <2>1 DEF HandshakeInv, Parsing
<1>5. ASSUME NEW operation \in active_ops, NEW rate \in Rates,
             CreateEnforcementRule(operation, rate)
      PROVE  HandshakeInv'
  <2>1. UNCHANGED <<strings, rules, active_ops, operation_to_channel_object, phase>>
    BY <1>5 DEF CreateEnforcementRule
  <2> QED
    BY <2>1 DEF HandshakeInv
<1>6. CASE UNCHANGED vars
  BY <1>6 DEF vars, HandshakeInv
<1> QED
  BY <1>1, <1>2, <1>3, <1>4, <1>5, <1>6 DEF Next

-------------------------------------------------------------------------------
(* The conversions of RulesFileParser.                                        *)

\* What the lemmas need to know of the sequence of enumerators.
Indexed(enumeration) ==
    Len(enumeration) \in Nat /\ DOMAIN enumeration = 1..Len(enumeration)

\* A name of an enumeration has a value from 1 on, any other name 0.
LEMMA ValueIs ==
  ASSUME NEW enumeration, Indexed(enumeration), NEW name
  PROVE  /\ Contains(enumeration, name) =>
               /\ ValueOf(enumeration, name) \in 1..Len(enumeration)
               /\ enumeration[ValueOf(enumeration, name)] = name
         /\ ~Contains(enumeration, name) => ValueOf(enumeration, name) = 0
<1>1. DOMAIN enumeration = 1..Len(enumeration)
  BY DEF Indexed
<1>2. ASSUME Contains(enumeration, name)
      PROVE  /\ ValueOf(enumeration, name) \in 1..Len(enumeration)
             /\ enumeration[ValueOf(enumeration, name)] = name
  <2>1. \E value \in DOMAIN enumeration : enumeration[value] = name
    BY <1>1, <1>2 DEF Contains
  <2>2. ValueOf(enumeration, name) =
           CHOOSE value \in DOMAIN enumeration : enumeration[value] = name
    BY <1>2 DEF ValueOf
  <2> QED
    BY <1>1, <2>1, <2>2
<1>3. ~Contains(enumeration, name) => ValueOf(enumeration, name) = 0
  BY DEF ValueOf
<1> QED
  BY <1>2, <1>3

\* The name of the value of a name, where the enumeration has no no_op of its own:
\* it has the same value, and is no_op only for 0.
LEMMA NameOfValue ==
  ASSUME NEW enumeration, Indexed(enumeration), ~Contains(enumeration, "no_op"),
         NEW name, NEW v, v = ValueOf(enumeration, name),
         NEW n, n = NameOf(enumeration, v)
  PROVE  /\ ValueOf(enumeration, n) = v
         /\ n = "no_op" <=> v = 0
         /\ n # "no_op" => Contains(enumeration, n) /\ n = name
<1>1. DOMAIN enumeration = 1..Len(enumeration) /\ Len(enumeration) \in Nat
  BY DEF Indexed
<1>2. CASE Contains(enumeration, name)
  <2>1. v \in 1..Len(enumeration) /\ enumeration[v] = name
    BY <1>2, ValueIs
  <2>2. n = name
    BY <1>1, <2>1 DEF NameOf
  <2> QED
    BY <1>2, <2>1, <2>2
<1>3. CASE ~Contains(enumeration, name)
  <2>1. v = 0
    BY <1>3, ValueIs
  <2>2. n = "no_op"
    BY <1>1, <2>1 DEF NameOf
  <2> QED
    BY <2>1, <2>2, ValueIs
<1> QED
  BY <1>2, <1>3

\* The enumerations are indexed from 1 on.
LEMMA EnumerationsIndexed ==
  \A e \in {PAIO_GENERAL, LSM_KVS_DETAILED, LSM_KVS_SIMPLE, POSIX, POSIX_META, KVS} : Indexed(e)
<1>1. Indexed(PAIO_GENERAL)
  BY DEF Indexed, PAIO_GENERAL
<1>2. Indexed(LSM_KVS_DETAILED)
  BY DEF Indexed, LSM_KVS_DETAILED
<1>3. Indexed(LSM_KVS_SIMPLE)
  BY DEF Indexed, LSM_KVS_SIMPLE
<1>4. Indexed(POSIX_META)
  BY DEF Indexed, POSIX_META
<1>5. Indexed(KVS)
  BY DEF Indexed, KVS
<1>6. Indexed(POSIX)
  BY SMTT(60) DEF Indexed, POSIX
<1> QED
  BY <1>1, <1>2, <1>3, <1>4, <1>5, <1>6, Zenon

ContainsEmpty(enumeration) == Contains(enumeration, "")

\* No enumeration contains no_op or an empty name, and delete_ is one of KVS only.
LEMMA EnumerationsContain ==
  /\ \A e \in {PAIO_GENERAL, LSM_KVS_DETAILED, LSM_KVS_SIMPLE, POSIX_META} :
        ~Contains(e, "no_op") /\ ~ContainsEmpty(e) /\ ~Contains(e, "delete_")
  /\ ~Contains(POSIX, "no_op")
  /\ ~Contains(KVS, "no_op") /\ ~ContainsEmpty(KVS) /\ ~Contains(KVS, "delete")
  /\ Contains(KVS, "delete_")
<1>1. ~Contains(PAIO_GENERAL, "no_op") /\ ~ContainsEmpty(PAIO_GENERAL) /\ ~Contains(PAIO_GENERAL, "delete_")
  <2> DEFINE names ==
                 {"foreground", "background", "high_priority", "low_priority"}
  <2>1. ASSUME NEW x, Contains(PAIO_GENERAL, x) PROVE x \in names
    BY <2>1 DEF PAIO_GENERAL, Contains
  <2>2. "no_op" \notin names /\ "" \notin names /\ "delete_" \notin names
    BY Zenon
  <2> HIDE DEF names
  <2> QED
    BY <2>1, <2>2, Zenon DEF ContainsEmpty
<1>2. ~Contains(LSM_KVS_DETAILED, "no_op") /\ ~ContainsEmpty(LSM_KVS_DETAILED) /\ ~Contains(LSM_KVS_DETAILED, "delete_")
  <2> DEFINE names ==
                 {"bg_flush", "bg_compaction", "bg_compaction_L0_L0",
                  "bg_compaction_L0_L1", "bg_compaction_L1_L2",
                  "bg_compaction_L2_L3", "bg_compaction_LN", "foreground"}
  <2>1. ASSUME NEW x, Contains(LSM_KVS_DETAILED, x) PROVE x \in names
    BY <2>1 DEF LSM_KVS_DETAILED, Contains
  <2>2. "no_op" \notin names /\ "" \notin names /\ "delete_" \notin names
    BY Zenon
  <2> HIDE DEF names
  <2> QED
    BY <2>1, <2>2, Zenon DEF ContainsEmpty
<1>3. ~Contains(LSM_KVS_SIMPLE, "no_op") /\ ~ContainsEmpty(LSM_KVS_SIMPLE) /\ ~Contains(LSM_KVS_SIMPLE, "delete_")
  <2> DEFINE names ==
                 {"bg_flush", "bg_compaction_high_priority",
                  "bg_compaction_low_priority", "foreground", "background"}
  <2>1. ASSUME NEW x, Contains(LSM_KVS_SIMPLE, x) PROVE x \in names
    BY <2>1 DEF LSM_KVS_SIMPLE, Contains
  <2>2. "no_op" \notin names /\ "" \notin names /\ "delete_" \notin names
    BY Zenon
  <2> HIDE DEF names
  <2> QED
    BY <2>1, <2>2, Zenon DEF ContainsEmpty
<1>4. ~Contains(POSIX_META, "no_op") /\ ~ContainsEmpty(POSIX_META) /\ ~Contains(POSIX_META, "delete_")
  <2> DEFINE names ==
                 {"foreground", "background", "high_priority", "med_priority",
                  "low_priority", "data_op", "meta_op", "dir_op", "ext_attr_op",
                  "file_mod_op"}
  <2>1. ASSUME NEW x, Contains(POSIX_META, x) PROVE x \in names
    BY <2>1 DEF POSIX_META, Contains
  <2>2. "no_op" \notin names /\ "" \notin names /\ "delete_" \notin names
    BY Zenon
  <2> HIDE DEF names
  <2> QED
    BY <2>1, <2>2, Zenon DEF ContainsEmpty
<1>5. ~Contains(POSIX, "no_op")
  BY SMTT(60) DEF POSIX, Contains
<1>6. ~Contains(KVS, "no_op") /\ ~ContainsEmpty(KVS) /\ ~Contains(KVS, "delete")
  <2> DEFINE names ==
                 {"put", "get", "new_iterator", "delete_", "write", "get_snapshot",
                  "get_property", "get_approximate_size", "compact_range"}
  <2>1. ASSUME NEW x, Contains(KVS, x) PROVE x \in names
    BY <2>1 DEF KVS, Contains
  <2>2. "no_op" \notin names /\ "" \notin names /\ "delete" \notin names
    BY Zenon
  <2> HIDE DEF names
  <2> QED
    BY <2>1, <2>2, Zenon DEF ContainsEmpty
<1>7. Contains(KVS, "delete_")
  <2>1. KVS[4] = "delete_" /\ Len(KVS) = 9
    BY DEF KVS
  <2> QED
    BY <2>1 DEF Contains
<1> QED
  BY <1>1, <1>2, <1>3, <1>4, <1>5, <1>6, <1>7, Zenon

\* What becomes of a name in a context on its way through value, printed name and
\* second value: the printed name is never empty; the value comes back unless the
\* printed form loses it; the printed name comes back, and stands for no operation
\* only if it is no_op, except for the key-value store's delete.
Converts(context, name) ==
    LET type == context_type_string(context)
        v == convert_differentiation_definitions(type, name)
        n == differentiation_string(context, v)
        w == convert_differentiation_definitions(type, n)
    IN
    /\ ~Empty(n)
    /\ Printable(context, v) => w = v
    /\ n # "delete_" => differentiation_string(context, w) = n /\ (w = 0 <=> n = "no_op")
    /\ IF context = 5 THEN n = "no_op" <=> v = 0 ELSE n # "delete_"

\* The context of each type.
LEMMA ContextStrings ==
  /\ context_type_string(0) = "general"
  /\ context_type_string(1) = "posix"
  /\ context_type_string(2) = "posix_meta"
  /\ context_type_string(3) = "lsm_kvs_simple"
  /\ context_type_string(4) = "lsm_kvs_detailed"
  /\ context_type_string(5) = "kvs"
BY DEF context_type_string, ContextType

\* The name no_op is not empty, and is not delete_.
LEMMA NoOpIsAName == ~Empty("no_op") /\ "no_op" # "delete_"
BY Zenon DEF Empty

\* A context whose switches know every name of its enumeration.
LEMMA PlainConverts ==
  ASSUME NEW context \in {0, 2, 4}, NEW enumeration, Indexed(enumeration),
         ~Contains(enumeration, "no_op"), ~ContainsEmpty(enumeration),
         ~Contains(enumeration, "delete_"),
         \A x : convert_differentiation_definitions(context_type_string(context), x)
                   = ValueOf(enumeration, x),
         \A v : differentiation_string(context, v) = NameOf(enumeration, v),
         NEW name
  PROVE  Converts(context, name)
<1> DEFINE v == ValueOf(enumeration, name)
           n == NameOf(enumeration, v)
<1>1. /\ ValueOf(enumeration, n) = v
      /\ n = "no_op" <=> v = 0
      /\ n # "no_op" => Contains(enumeration, n)
  BY NameOfValue
<1> HIDE DEF n, v
<1>2. n # "delete_" /\ ~Empty(n)
  BY <1>1, NoOpIsAName, Zenon DEF Empty, ContainsEmpty
<1> QED
  <2>1. context # 5
    OBVIOUS
  <2> QED
    BY <1>1, <1>2, <2>1, Zenon DEF Converts, n, v

LEMMA GeneralConverts == \A name : Converts(0, name)
<1>1. \A x : convert_differentiation_definitions(context_type_string(0), x) = ValueOf(PAIO_GENERAL, x)
  BY ContextStrings DEF convert_differentiation_definitions, convert_paio_general_definitions
<1>2. \A v : differentiation_string(0, v) = NameOf(PAIO_GENERAL, v)
  BY DEF differentiation_string, paio_general_string
<1>3. Indexed(PAIO_GENERAL)
  BY EnumerationsIndexed, Zenon
<1> QED
  BY <1>1, <1>2, <1>3, EnumerationsContain, PlainConverts

LEMMA PosixMetaConverts == \A name : Converts(2, name)
<1>1. \A x : convert_differentiation_definitions(context_type_string(2), x) = ValueOf(POSIX_META, x)
  BY ContextStrings DEF convert_differentiation_definitions, convert_posix_meta_definitions
<1>2. \A v : differentiation_string(2, v) = NameOf(POSIX_META, v)
  BY DEF differentiation_string, posix_meta_string
<1>3. Indexed(POSIX_META)
  BY EnumerationsIndexed, Zenon
<1> QED
  BY <1>1, <1>2, <1>3, EnumerationsContain, PlainConverts

LEMMA DetailedConverts == \A name : Converts(4, name)
<1>1. \A x : convert_differentiation_definitions(context_type_string(4), x)
                = ValueOf(LSM_KVS_DETAILED, x)
  BY ContextStrings DEF convert_differentiation_definitions, convert_posix_lsm_detailed_definitions
<1>2. \A v : differentiation_string(4, v) = NameOf(LSM_KVS_DETAILED, v)
  BY DEF differentiation_string, posix_lsm_detailed_string
<1>3. Indexed(LSM_KVS_DETAILED)
  BY EnumerationsIndexed, Zenon
<1> QED
  BY <1>1, <1>2, <1>3, EnumerationsContain, PlainConverts

\* background is neither read nor printed.
LEMMA SimpleConverts == \A name : Converts(3, name)
<1> DEFINE E == LSM_KVS_SIMPLE
           Value(x) == IF x = "background" THEN 0 ELSE ValueOf(E, x)
           Name(v) == NameOf(SubSeq(E, 1, 4), v)
<1>1. \A x : convert_differentiation_definitions(context_type_string(3), x) = Value(x)
  BY ContextStrings DEF convert_differentiation_definitions, convert_posix_lsm_simple_definitions
<1>2. \A v : differentiation_string(3, v) = Name(v)
  BY DEF differentiation_string, posix_lsm_simple_string
<1>3. Indexed(E) /\ Len(E) = 5 /\ E[5] = "background"
  <2>1. Indexed(LSM_KVS_SIMPLE)
    BY EnumerationsIndexed, Zenon
  <2> QED
    BY <2>1 DEF LSM_KVS_SIMPLE
<1>4. \A v \in 0..4 : Name(v) = NameOf(E, v)
  <2>1. DOMAIN SubSeq(E, 1, 4) = 1..4 /\ \A v \in 1..4 : SubSeq(E, 1, 4)[v] = E[v]
    BY DEF LSM_KVS_SIMPLE
  <2> QED
    BY <1>3, <2>1 DEF NameOf, Indexed
<1>5. ~Contains(E, "no_op") /\ ~ContainsEmpty(E) /\ ~Contains(E, "delete_")
  BY EnumerationsContain, Zenon
<1> HIDE DEF E
<1> SUFFICES ASSUME NEW name PROVE Converts(3, name)
  OBVIOUS
<1> DEFINE v == Value(name)
           n == Name(v)
<1>6. v = ValueOf(E, name) \/ v = 0
  OBVIOUS
<1>7. v \in 0..4 /\ (v # 0 => E[v] = name /\ name # "background" /\ Contains(E, name))
  <2>1. CASE name = "background"
    BY <2>1
  <2>2. CASE name # "background"
    <3>1. v = ValueOf(E, name)
      BY <2>2
    <3> HIDE DEF v
    <3> QED
      BY <1>3, <2>2, <3>1, ValueIs
  <2> QED
    BY <2>1, <2>2
<1>8. CASE v = 0
  <2>1. n = "no_op"
    <3>1. n = NameOf(E, 0)
      BY <1>4, <1>8
    <3> QED
      BY <1>3, <3>1 DEF NameOf, Indexed
  <2>2. Value("no_op") = 0
    BY <1>3, <1>5, ValueIs
  <2> HIDE DEF v, n, Value, Name
  <2> QED
    BY <1>1, <1>2, <1>8, <2>1, <2>2, NoOpIsAName DEF Converts, v, n
<1>9. CASE v # 0
  <2>1. n = name
    BY <1>3, <1>4, <1>7, <1>9 DEF NameOf, Indexed
  <2>2. Value(n) = v
    BY <2>1
  <2>3. Contains(E, n) /\ n # "no_op" /\ n # "delete_" /\ ~Empty(n)
    BY <1>5, <1>7, <1>9, <2>1, Zenon DEF Empty, ContainsEmpty
  <2> HIDE DEF v, n, Value, Name
  <2> QED
    BY <1>1, <1>2, <1>9, <2>1, <2>2, <2>3 DEF Converts, v, n
<1> QED
  BY <1>8, <1>9

\* Some operations are not read and more are not printed; what is printed is the
\* name that was read.
LEMMA PosixConverts == \A name : Converts(1, name)
<1> DEFINE Unread == {"fdopen", "mknod", "mknodat", "mmap", "munmap"}
           Value(x) == IF x \in Unread THEN 0 ELSE ValueOf(POSIX, x)
           Name(v) == IF NameOf(POSIX, v) \in PrintedPosix THEN NameOf(POSIX, v) ELSE "no_op"
<1>1. \A x : convert_differentiation_definitions(context_type_string(1), x) = Value(x)
  BY ContextStrings DEF convert_differentiation_definitions, convert_posix_definitions
<1>2. \A v : differentiation_string(1, v) = Name(v)
  BY DEF differentiation_string, posix_string
<1>3. Indexed(POSIX) /\ ~Contains(POSIX, "no_op")
  BY EnumerationsIndexed, EnumerationsContain, Zenon
<1>4. "no_op" \notin PrintedPosix /\ "delete_" \notin PrintedPosix
  BY Zenon DEF PrintedPosix
<1>5. \A x \in PrintedPosix : ~Empty(x)
  BY Zenon DEF PrintedPosix, Empty
<1> SUFFICES ASSUME NEW name PROVE Converts(1, name)
  OBVIOUS
<1> DEFINE v == Value(name)
           n == Name(v)
<1>6. v = 0 \/ (name \notin Unread /\ v = ValueOf(POSIX, name))
  OBVIOUS
<1>7. NameOf(POSIX, 0) = "no_op"
  BY <1>3 DEF NameOf, Indexed
<1>8. Value("no_op") = 0 /\ Name(0) = "no_op"
  <2>1. ValueOf(POSIX, "no_op") = 0
    BY <1>3, ValueIs
  <2> QED
    BY <1>4, <1>7, <2>1
<1>9. CASE NameOf(POSIX, v) \in PrintedPosix
  <2>1. n = NameOf(POSIX, v) /\ n # "no_op" /\ n # "delete_" /\ ~Empty(n)
    BY <1>4, <1>5, <1>9
  <2>2. v # 0 /\ name \notin Unread /\ v = ValueOf(POSIX, name)
    BY <1>6, <1>7, <2>1
  <2> HIDE DEF v, n
  <2>3. n = name
    BY <1>3, <2>1, <2>2, NameOfValue
  <2>4. Value(n) = v
    BY <2>2, <2>3
  <2> HIDE DEF Value, Name
  <2> QED
    BY <1>1, <1>2, <2>1, <2>2, <2>3, <2>4 DEF Converts, v, n
<1>10. CASE NameOf(POSIX, v) \notin PrintedPosix
  <2>1. n = "no_op"
    BY <1>10
  <2>2. Printable(1, v) => v = 0
    BY <1>10 DEF Printable
  <2> HIDE DEF v, n, Value, Name
  <2> QED
    BY <1>1, <1>2, <1>8, <2>1, <2>2, NoOpIsAName DEF Converts, v, n
<1> QED
  BY <1>9, <1>10

\* delete is read and printed as delete_, which is not read.
LEMMA KvsConverts == \A name : Converts(5, name)
<1> DEFINE Value(x) == CASE x = "delete"  -> ValueOf(KVS, "delete_")
                         [] x = "delete_" -> 0
                         [] OTHER         -> ValueOf(KVS, x)
           Name(v) == NameOf(KVS, v)
<1>1. \A x : convert_differentiation_definitions(context_type_string(5), x) = Value(x)
  BY ContextStrings DEF convert_differentiation_definitions, convert_kvs_definitions
<1>2. \A v : differentiation_string(5, v) = Name(v)
  BY DEF differentiation_string, kvs_string
<1>3. /\ Indexed(KVS) /\ ~Contains(KVS, "no_op") /\ ~ContainsEmpty(KVS)
      /\ Contains(KVS, "delete_") /\ ~Contains(KVS, "delete")
  BY EnumerationsIndexed, EnumerationsContain, Zenon
<1> SUFFICES ASSUME NEW name PROVE Converts(5, name)
  OBVIOUS
<1> DEFINE read == IF name = "delete" THEN "delete_" ELSE name
           v == Value(name)
           n == Name(v)
<1>4. Value("no_op") = 0
  <2>1. ValueOf(KVS, "no_op") = 0
    BY <1>3, ValueIs
  <2> QED
    BY <2>1
<1>5. NameOf(KVS, 0) = "no_op"
  BY <1>3 DEF NameOf, Indexed
<1>6. v = IF name = "delete_" THEN 0 ELSE ValueOf(KVS, read)
  BY Zenon
<1> HIDE DEF Value
<1>7. Printable(5, v) <=> n # "delete_"
  BY DEF Printable
<1>8. CASE n = "no_op"
  <2>1. v = 0
    <3> HIDE DEF v, n, read
    <3>1. v = 0 \/ v = ValueOf(KVS, read)
      BY <1>6
    <3> QED
      BY <1>3, <1>8, <3>1, NameOfValue DEF n
  <2> HIDE DEF v, n
  <2> QED
    BY <1>1, <1>2, <1>4, <1>5, <1>8, <2>1, NoOpIsAName DEF Converts, v, n
<1>9. CASE n # "no_op"
  <2>1. v # 0
    BY <1>5, <1>9
  <2>2. v = ValueOf(KVS, read) /\ name # "delete_"
    BY <1>6, <2>1
  <2> HIDE DEF v, read
  <2>3. n = read /\ Contains(KVS, n)
    BY <1>3, <1>9, <2>2, NameOfValue
  <2>4. ~Empty(n) /\ n # "delete"
    BY <1>3, <2>3, Zenon DEF Empty, ContainsEmpty
  <2>5. n # "delete_" => Value(n) = v
    BY <2>2, <2>3, <2>4 DEF Value, read
  <2> HIDE DEF n, Name
  <2> QED
    BY <1>1, <1>2, <1>7, <1>9, <2>1, <2>4, <2>5 DEF Converts, v, n
<1> QED
  BY <1>8, <1>9

LEMMA EveryContextConverts ==
  ASSUME NEW context \in 0..5, NEW name
  PROVE  Converts(context, name)
BY GeneralConverts, PosixConverts, PosixMetaConverts, SimpleConverts, DetailedConverts, KvsConverts

\* Each known context has a type, from which its string comes back; an unknown one
\* has -1, for which no name is printed.
LEMMA Contexts ==
  ASSUME NEW x, NEW context, context = convert_context_type_definition(x)
  PROVE  /\ x \in ToSet(ContextType) => context \in 0..5 /\ context_type_string(context) = x
         /\ x \notin ToSet(ContextType) => \A v : Empty(differentiation_string(context, v))
<1>1. DOMAIN ContextType = 1..6 /\ Len(ContextType) = 6
  BY DEF ContextType
<1>2. Indexed(ContextType) /\ (x \in ToSet(ContextType) <=> Contains(ContextType, x))
  BY <1>1 DEF Indexed, ToSet, Contains
<1>3. CASE x \in ToSet(ContextType)
  <2>1. ValueOf(ContextType, x) \in 1..6 /\ ContextType[ValueOf(ContextType, x)] = x
    BY <1>1, <1>2, <1>3, ValueIs
  <2> QED
    BY <1>1, <1>3, <2>1 DEF convert_context_type_definition, context_type_string
<1>4. CASE x \notin ToSet(ContextType)
  <2>1. context = -1
    BY <1>2, <1>4, ValueIs DEF convert_context_type_definition
  <2>2. ASSUME NEW v PROVE Empty(differentiation_string(context, v))
    <3>1. context \notin 0..5
      BY <2>1
    <3>2. context # 0 /\ context # 1 /\ context # 2 /\ context # 3 /\ context # 4 /\ context # 5
      BY <3>1
    <3> QED
      BY <3>2, Zenon DEF differentiation_string, Empty
  <2> QED
    BY <1>4, <2>2
<1> QED
  BY <1>3, <1>4

\* The string of a context is a name, and is read as the same context.
LEMMA ContextReturns ==
  ASSUME NEW context \in 0..5
  PROVE  /\ ~Empty(context_type_string(context))
         /\ convert_context_type_definition(context_type_string(context)) = context
<1> DEFINE x == context_type_string(context)
<1>1. x \in {"general", "posix", "posix_meta", "lsm_kvs_simple", "lsm_kvs_detailed", "kvs"}
  BY ContextStrings
<1>2. ~Empty(x)
  <2> HIDE DEF x
  <2> QED
    BY <1>1, Zenon DEF Empty
<1>3. x \in ToSet(ContextType)
  BY DEF context_type_string, ContextType, ToSet
<1>4. context_type_string(convert_context_type_definition(x)) = x
      /\ convert_context_type_definition(x) \in 0..5
  BY <1>3, Contexts
<1> QED
  BY <1>2, <1>4, ContextStrings

\* The operation that a printed type and context stand for is the one that a stage
\* reads, unless it is delete_; and it is delete_ exactly if the parser read delete.
LEMMA OperationReturns ==
  ASSUME NEW context \in 0..5, NEW x, x = context_type_string(context),
         NEW type, NEW v1, v1 = convert_differentiation_definitions(x, type),
         NEW op, NEW v2, v2 = convert_differentiation_definitions(x, op),
         NEW n1, n1 = differentiation_string(context, v1),
         NEW n2, n2 = differentiation_string(context, v2),
         NEW served, served = IF n1 = "no_op" THEN n2 ELSE n1
  PROVE  /\ served = "delete_" <=> (IF v1 = 0 THEN n2 ELSE n1) = "delete_"
         /\ served # "delete_" =>
               served = differentiation_string(context,
                            IF convert_differentiation_definitions(x, n1) = 0
                            THEN convert_differentiation_definitions(x, n2)
                            ELSE convert_differentiation_definitions(x, n1))
<1>1. Converts(context, type) /\ Converts(context, op)
  BY EveryContextConverts
<1>2. /\ IF context = 5 THEN n1 = "no_op" <=> v1 = 0 ELSE n1 # "delete_"
      /\ IF context = 5 THEN n2 = "no_op" <=> v2 = 0 ELSE n2 # "delete_"
  BY <1>1 DEF Converts
<1>3. served = "delete_" <=> (IF v1 = 0 THEN n2 ELSE n1) = "delete_"
  BY <1>2
<1> DEFINE w1 == convert_differentiation_definitions(x, n1)
           w2 == convert_differentiation_definitions(x, n2)
<1>4. /\ n1 # "delete_" => differentiation_string(context, w1) = n1 /\ (w1 = 0 <=> n1 = "no_op")
      /\ n2 # "delete_" => differentiation_string(context, w2) = n2
  BY <1>1 DEF Converts
<1>5. served # "delete_" => served = differentiation_string(context, IF w1 = 0 THEN w2 ELSE w1)
  <2> HIDE DEF w1, w2
  <2>1. CASE n1 = "no_op"
    BY <1>4, <2>1, NoOpIsAName
  <2>2. CASE n1 # "no_op"
    BY <1>4, <2>2
  <2> QED
    BY <2>1, <2>2
<1> QED
  BY <1>3, <1>5

\* The tokens of a line are not empty.
LEMMA TokensOfLine ==
  ASSUME NEW line \in Seq(Words)
  PROVE  \A i \in 1..Len(line) : ~Empty(line[i])
<1>1. \A i \in 1..Len(line) : line[i] \in Words
  OBVIOUS
<1> QED
  BY <1>1, Zenon DEF Empty, Words

\* The fields of a channel's string.
LEMMA ChannelString ==
  ASSUME NEW line \in Seq(Words), NEW r, NEW s, ChannelFrom(line, r, s),
         NEW c, c = convert_context_type_definition(line[4])
  PROVE  /\ Len(s) = 8
         /\ s[2] = r.m_rule_id /\ s[3] = "create_channel" /\ s[4] = r.m_channel_id
         /\ s[5] = context_type_string(c) /\ s[6] = r.m_workflow_id
         /\ s[7] = differentiation_string(c, r.m_operation_type)
         /\ s[8] = differentiation_string(c, r.m_operation_context)
         /\ ~Empty(s[1]) /\ ~Empty(s[2]) /\ ~Empty(s[3]) /\ ~Empty(s[4]) /\ ~Empty(s[6])
         /\ r = [m_rule_id |-> line[1], m_rule_type |-> "create_channel", m_channel_id |-> line[3],
                 m_context_definition |-> c, m_workflow_id |-> line[5],
                 m_operation_type |-> convert_differentiation_definitions(line[4], line[6]),
                 m_operation_context |-> convert_differentiation_definitions(line[4], line[7])]
<1>1. /\ r = HousekeepingCreateChannelRaw(line)
      /\ s = convert_housekeeping_create_channel_string(r)
      /\ Len(line) >= 7
  BY DEF ChannelFrom, ChannelLine
<1>2. r = [m_rule_id |-> line[1], m_rule_type |-> "create_channel", m_channel_id |-> line[3],
           m_context_definition |-> c, m_workflow_id |-> line[5],
           m_operation_type |-> convert_differentiation_definitions(line[4], line[6]),
           m_operation_context |-> convert_differentiation_definitions(line[4], line[7])]
  BY <1>1 DEF HousekeepingCreateChannelRaw, Token
<1>3. /\ r.m_rule_id = line[1] /\ r.m_channel_id = line[3] /\ r.m_workflow_id = line[5]
      /\ r.m_context_definition = c
  BY <1>2
<1>4. s = <<"4", r.m_rule_id, "create_channel", r.m_channel_id, context_type_string(c),
            r.m_workflow_id, differentiation_string(c, r.m_operation_type),
            differentiation_string(c, r.m_operation_context)>>
  BY <1>1, <1>3 DEF convert_housekeeping_create_channel_string
<1>6. ~Empty("4") /\ ~Empty("create_channel")
  BY Zenon DEF Empty
<1>7. ~Empty(line[1]) /\ ~Empty(line[3]) /\ ~Empty(line[5])
  BY <1>1, TokensOfLine
<1>8. /\ Len(s) = 8 /\ s[1] = "4" /\ s[2] = r.m_rule_id /\ s[3] = "create_channel"
      /\ s[4] = r.m_channel_id /\ s[5] = context_type_string(c) /\ s[6] = r.m_workflow_id
      /\ s[7] = differentiation_string(c, r.m_operation_type)
      /\ s[8] = differentiation_string(c, r.m_operation_context)
  BY <1>4
<1> QED
  BY <1>2, <1>3, <1>6, <1>7, <1>8

\* A string of n fields, of which the first three are not empty, keeps them; it
\* keeps all of them if none is empty, and only then is it as long as before.
LEMMA ParsedString ==
  ASSUME NEW s, NEW n \in Nat, n >= 3, Len(s) = n,
         ~Empty(s[1]), ~Empty(s[2]), ~Empty(s[3])
  PROVE  /\ Len(parse_rule(s)) \in Nat
         /\ parse_rule(s)[3] = s[3]
         /\ Len(parse_rule(s)) >= n <=> \A j \in 1..n : ~Empty(s[j])
         /\ (\A j \in 1..n : ~Empty(s[j])) => \A j \in 1..n : parse_rule(s)[j] = s[j]
<1> DEFINE p == parse_rule(s)
<1>1. KeptOf(s, n, p)
  BY ParsedFields
<1> HIDE DEF p
<1>2. Len(p) \in Nat
  BY <1>1, LengthOfSequence DEF KeptOf
<1>3. p[3] = s[3]
  <2>1. 3 \in 0..n /\ \A j \in 1..3 : ~Empty(s[j])
    <3>1. \A j \in 1..3 : j = 1 \/ j = 2 \/ j = 3
      OBVIOUS
    <3> QED
      BY <3>1
  <2>2. \A j \in 1..3 : p[j] = s[j]
    BY <1>1, <2>1 DEF KeptOf
  <2> QED
    BY <2>2
<1>4. ASSUME \A j \in 1..n : ~Empty(s[j])
      PROVE  Len(p) >= n /\ \A j \in 1..n : p[j] = s[j]
  <2>1. n \in 0..n
    OBVIOUS
  <2> QED
    BY <1>1, <1>4, <2>1 DEF KeptOf
<1>5. Len(p) >= n => \A j \in 1..n : ~Empty(s[j])
  BY <1>1, <1>2 DEF KeptOf
<1> QED
  BY <1>2, <1>3, <1>4, <1>5 DEF p

\* All fields of a channel's string are there exactly if the context is known.
LEMMA ChannelComplete ==
  ASSUME NEW line \in Seq(Words), NEW r, NEW s, ChannelFrom(line, r, s)
  PROVE  /\ IsChannel(parse_rule(s))
         /\ ~Short(parse_rule(s), 8) <=> line[4] \in ToSet(ContextType)
         /\ ~Short(parse_rule(s), 8) => \A j \in 1..8 : parse_rule(s)[j] = s[j]
<1> DEFINE c == convert_context_type_definition(line[4])
           p == parse_rule(s)
<1>1. /\ Len(s) = 8 /\ s[3] = "create_channel"
      /\ s[5] = context_type_string(c)
      /\ s[7] = differentiation_string(c, r.m_operation_type)
      /\ s[8] = differentiation_string(c, r.m_operation_context)
      /\ ~Empty(s[1]) /\ ~Empty(s[2]) /\ ~Empty(s[3]) /\ ~Empty(s[4]) /\ ~Empty(s[6])
      /\ r.m_operation_type = convert_differentiation_definitions(line[4], line[6])
      /\ r.m_operation_context = convert_differentiation_definitions(line[4], line[7])
  BY ChannelString
<1> HIDE DEF c, p
<1>2. /\ Len(p) \in Nat /\ p[3] = s[3]
      /\ Len(p) >= 8 <=> \A j \in 1..8 : ~Empty(s[j])
      /\ (\A j \in 1..8 : ~Empty(s[j])) => \A j \in 1..8 : p[j] = s[j]
  <2>1. 8 \in Nat /\ 8 >= 3
    OBVIOUS
  <2> QED
    BY <1>1, <2>1, ParsedString, Zenon DEF p
<1>3. IsChannel(p)
  BY <1>1, <1>2 DEF IsChannel, Token
<1>4. ~Short(p, 8) <=> Len(p) >= 8
  BY <1>2 DEF Short
<1>5. CASE line[4] \in ToSet(ContextType)
  <2>1. c \in 0..5 /\ context_type_string(c) = line[4]
    BY <1>5, Contexts DEF c
  <2>2. Converts(c, line[6]) /\ Converts(c, line[7]) /\ ~Empty(s[5])
    BY <1>1, <2>1, EveryContextConverts, ContextReturns
  <2>3. ~Empty(s[7]) /\ ~Empty(s[8])
    BY <1>1, <2>1, <2>2, Zenon DEF Converts
  <2>4. \A j \in 1..8 : ~Empty(s[j])
    <3>1. \A j \in 1..8 : j = 1 \/ j = 2 \/ j = 3 \/ j = 4 \/ j = 5 \/ j = 6 \/ j = 7 \/ j = 8
      OBVIOUS
    <3> QED
      BY <1>1, <2>2, <2>3, <3>1
  <2> QED
    BY <1>2, <1>3, <1>4, <1>5, <2>4 DEF p
<1>6. CASE line[4] \notin ToSet(ContextType)
  <2>1. Empty(s[7])
    BY <1>1, <1>6, Contexts DEF c
  <2>2. 7 \in 1..8
    OBVIOUS
  <2> QED
    BY <1>2, <1>3, <1>4, <1>6, <2>1, <2>2 DEF p
<1> QED
  BY <1>5, <1>6

\* What a stage makes of a channel's string: the channel that the parser read,
\* under the operation that the controllers took from the string.
LEMMA ChannelArrives ==
  ASSUME NEW line \in Seq(Words), NEW r, NEW s, ChannelFrom(line, r, s),
         NEW t, Received(s, t)
  PROVE  /\ Preserved(r) => t = r
         /\ t.m_rule_type = "create_channel" /\ t.m_channel_id = Token(parse_rule(s), 3)
         /\ OperationOf(parse_rule(s)) = "delete_" <=> Serves(r) = "delete_"
         /\ OperationOf(parse_rule(s)) # "delete_" => Serves(t) = OperationOf(parse_rule(s))
<1> DEFINE c == convert_context_type_definition(line[4])
           p == parse_rule(s)
<1>1. /\ s[2] = r.m_rule_id /\ s[4] = r.m_channel_id /\ s[6] = r.m_workflow_id
      /\ s[5] = context_type_string(c)
      /\ s[7] = differentiation_string(c, r.m_operation_type)
      /\ s[8] = differentiation_string(c, r.m_operation_context)
      /\ r = [m_rule_id |-> line[1], m_rule_type |-> "create_channel", m_channel_id |-> line[3],
              m_context_definition |-> c, m_workflow_id |-> line[5],
              m_operation_type |-> convert_differentiation_definitions(line[4], line[6]),
              m_operation_context |-> convert_differentiation_definitions(line[4], line[7])]
  BY ChannelString
<1>2. IsChannel(p) /\ ~Short(p, 8) /\ t = fill_create_channel_rule(p)
  BY ChannelComplete DEF Received
<1>3. line[4] \in ToSet(ContextType) /\ \A j \in 1..8 : p[j] = s[j]
  BY <1>2, ChannelComplete
<1>4. c \in 0..5 /\ context_type_string(c) = line[4]
  BY <1>3, Contexts
<1>5. convert_context_type_definition(context_type_string(c)) = c
  BY <1>4, ContextReturns
<1> HIDE DEF c, p
<1> DEFINE v1 == convert_differentiation_definitions(line[4], line[6])
           v2 == convert_differentiation_definitions(line[4], line[7])
           n1 == differentiation_string(c, v1)
           n2 == differentiation_string(c, v2)
           w1 == convert_differentiation_definitions(line[4], n1)
           w2 == convert_differentiation_definitions(line[4], n2)
<1>6. /\ r.m_rule_id = line[1] /\ r.m_channel_id = line[3] /\ r.m_workflow_id = line[5]
      /\ r.m_operation_type = v1 /\ r.m_operation_context = v2 /\ r.m_context_definition = c
  BY <1>1
<1>7. /\ p[2] = line[1] /\ p[4] = line[3] /\ p[5] = line[4] /\ p[6] = line[5]
      /\ p[7] = n1 /\ p[8] = n2
  BY <1>1, <1>3, <1>4, <1>6
<1>8. convert_context_type_definition(p[5]) = c
  BY <1>4, <1>5, <1>7
<1> HIDE DEF v1, v2, n1, n2, w1, w2
<1>9. t = [m_rule_id |-> line[1], m_rule_type |-> "create_channel", m_channel_id |-> line[3],
           m_context_definition |-> c, m_workflow_id |-> line[5],
           m_operation_type |-> w1, m_operation_context |-> w2]
  BY <1>2, <1>7, <1>8 DEF fill_create_channel_rule, Token, w1, w2
<1>10. Preserved(r) => t = r
  <2>1. Converts(c, line[6]) /\ Converts(c, line[7])
    BY <1>4, EveryContextConverts
  <2>2. Preserved(r) => w1 = v1 /\ w2 = v2
    BY <1>4, <1>6, <2>1, Zenon DEF Preserved, Converts, v1, v2, n1, n2, w1, w2
  <2>3. r = [m_rule_id |-> line[1], m_rule_type |-> "create_channel", m_channel_id |-> line[3],
             m_context_definition |-> c, m_workflow_id |-> line[5],
             m_operation_type |-> v1, m_operation_context |-> v2]
    BY <1>1 DEF v1, v2
  <2> QED
    BY <1>9, <2>2, <2>3
<1>11. /\ t.m_rule_type = "create_channel" /\ t.m_channel_id = Token(p, 3)
       /\ t.m_context_definition = c /\ t.m_operation_type = w1 /\ t.m_operation_context = w2
  BY <1>7, <1>9 DEF Token
<1> DEFINE served == IF n1 = "no_op" THEN n2 ELSE n1
<1>12. OperationOf(p) = served
  BY <1>7 DEF OperationOf, Token
<1>13. /\ served = "delete_" <=> (IF v1 = 0 THEN n2 ELSE n1) = "delete_"
       /\ served # "delete_" =>
             served = differentiation_string(c, IF w1 = 0 THEN w2 ELSE w1)
  <2>1. /\ v1 = convert_differentiation_definitions(line[4], line[6])
        /\ v2 = convert_differentiation_definitions(line[4], line[7])
        /\ n1 = differentiation_string(c, v1) /\ n2 = differentiation_string(c, v2)
    BY DEF v1, v2, n1, n2
  <2>2. served = IF n1 = "no_op" THEN n2 ELSE n1
    OBVIOUS
  <2>3. c \in 0..5 /\ line[4] = context_type_string(c)
    BY <1>4
  <2> HIDE DEF served
  <2>4. /\ served = "delete_" <=> (IF v1 = 0 THEN n2 ELSE n1) = "delete_"
        /\ served # "delete_" =>
              served = differentiation_string(c,
                           IF convert_differentiation_definitions(line[4], n1) = 0
                           THEN convert_differentiation_definitions(line[4], n2)
                           ELSE convert_differentiation_definitions(line[4], n1))
    BY ONLY <2>1, <2>2, <2>3, OperationReturns
  <2> QED
    BY <2>4, Zenon DEF w1, w2
<1>14. Serves(r) = IF v1 = 0 THEN n2 ELSE n1
  BY <1>6 DEF Serves, n1, n2
<1>15. Serves(t) = differentiation_string(c, IF w1 = 0 THEN w2 ELSE w1)
  BY <1>11 DEF Serves
<1> HIDE DEF served
<1> QED
  BY <1>10, <1>11, <1>12, <1>13, <1>14, <1>15 DEF p

\* The type of an object is a name, and comes back.
LEMMA ObjectTypeReturns ==
  ASSUME NEW x
  PROVE  /\ ~Empty(convert_object_type(x))
         /\ convert_object_type(convert_object_type(x)) = convert_object_type(x)
<1>1. ~Empty("drl") /\ ~Empty("noop")
  BY Zenon DEF Empty
<1> QED
  BY <1>1 DEF convert_object_type

\* The fields of an object's string.
LEMMA ObjectString ==
  ASSUME NEW line \in Seq(Words), NEW r, NEW s, ObjectFrom(line, r, s),
         NEW c, c = convert_context_type_definition(line[5])
  PROVE  /\ Len(s) = 11
         /\ s[2] = r.m_rule_id /\ s[3] = "create_object" /\ s[4] = r.m_channel_id
         /\ s[5] = r.m_enforcement_object_id /\ s[6] = context_type_string(c)
         /\ s[7] = differentiation_string(c, r.m_operation_type)
         /\ s[8] = differentiation_string(c, r.m_operation_context)
         /\ s[9] = r.m_enforcement_object_type
         /\ s[10] = r.m_property_first /\ s[11] = r.m_property_second
         /\ ~Empty(s[1]) /\ ~Empty(s[2]) /\ ~Empty(s[3]) /\ ~Empty(s[4]) /\ ~Empty(s[5])
         /\ ~Empty(s[9]) /\ ~Empty(s[10]) /\ ~Empty(s[11])
         /\ r = [m_rule_id |-> line[1], m_rule_type |-> "create_object", m_channel_id |-> line[3],
                 m_enforcement_object_id |-> line[4], m_context_definition |-> c,
                 m_operation_type |-> convert_differentiation_definitions(line[5], line[6]),
                 m_operation_context |-> convert_differentiation_definitions(line[5], line[7]),
                 m_enforcement_object_type |-> convert_object_type(line[8]),
                 m_property_first |-> line[9], m_property_second |-> line[10]]
<1>1. /\ r = HousekeepingCreateObjectRaw(line)
      /\ s = convert_housekeeping_create_object_string(r)
      /\ Len(line) >= 10
  BY DEF ObjectFrom, ObjectLine
<1>2. r = [m_rule_id |-> line[1], m_rule_type |-> "create_object", m_channel_id |-> line[3],
           m_enforcement_object_id |-> line[4], m_context_definition |-> c,
           m_operation_type |-> convert_differentiation_definitions(line[5], line[6]),
           m_operation_context |-> convert_differentiation_definitions(line[5], line[7]),
           m_enforcement_object_type |-> convert_object_type(line[8]),
           m_property_first |-> line[9], m_property_second |-> line[10]]
  BY <1>1 DEF HousekeepingCreateObjectRaw, Token
<1>3. /\ r.m_rule_id = line[1] /\ r.m_channel_id = line[3] /\ r.m_enforcement_object_id = line[4]
      /\ r.m_context_definition = c /\ r.m_enforcement_object_type = convert_object_type(line[8])
      /\ r.m_property_first = line[9] /\ r.m_property_second = line[10]
  BY <1>2
<1>4. s = <<"4", r.m_rule_id, "create_object", r.m_channel_id, r.m_enforcement_object_id,
            context_type_string(c), differentiation_string(c, r.m_operation_type),
            differentiation_string(c, r.m_operation_context), r.m_enforcement_object_type,
            r.m_property_first, r.m_property_second>>
  BY <1>1, <1>3 DEF convert_housekeeping_create_object_string
<1>5. ~Empty("4") /\ ~Empty("create_object")
  BY Zenon DEF Empty
<1>6. ~Empty(line[1]) /\ ~Empty(line[3]) /\ ~Empty(line[4]) /\ ~Empty(line[9]) /\ ~Empty(line[10])
  BY <1>1, TokensOfLine
<1>7. /\ Len(s) = 11 /\ s[1] = "4" /\ s[2] = r.m_rule_id /\ s[3] = "create_object"
      /\ s[4] = r.m_channel_id /\ s[5] = r.m_enforcement_object_id
      /\ s[6] = context_type_string(c)
      /\ s[7] = differentiation_string(c, r.m_operation_type)
      /\ s[8] = differentiation_string(c, r.m_operation_context)
      /\ s[9] = r.m_enforcement_object_type
      /\ s[10] = r.m_property_first /\ s[11] = r.m_property_second
  BY <1>4
<1> QED
  BY <1>2, <1>3, <1>5, <1>6, <1>7, ObjectTypeReturns

\* All fields of an object's string are there exactly if the context is known.
LEMMA ObjectComplete ==
  ASSUME NEW line \in Seq(Words), NEW r, NEW s, ObjectFrom(line, r, s)
  PROVE  /\ ~IsChannel(parse_rule(s))
         /\ ~Short(parse_rule(s), 11) <=> line[5] \in ToSet(ContextType)
         /\ ~Short(parse_rule(s), 11) => \A j \in 1..11 : parse_rule(s)[j] = s[j]
<1> DEFINE c == convert_context_type_definition(line[5])
           p == parse_rule(s)
<1>1. /\ Len(s) = 11 /\ s[3] = "create_object"
      /\ s[6] = context_type_string(c)
      /\ s[7] = differentiation_string(c, r.m_operation_type)
      /\ s[8] = differentiation_string(c, r.m_operation_context)
      /\ ~Empty(s[1]) /\ ~Empty(s[2]) /\ ~Empty(s[3]) /\ ~Empty(s[4]) /\ ~Empty(s[5])
      /\ ~Empty(s[9]) /\ ~Empty(s[10]) /\ ~Empty(s[11])
      /\ r.m_operation_type = convert_differentiation_definitions(line[5], line[6])
      /\ r.m_operation_context = convert_differentiation_definitions(line[5], line[7])
  BY ObjectString
<1> HIDE DEF c, p
<1>2. /\ Len(p) \in Nat /\ p[3] = s[3]
      /\ Len(p) >= 11 <=> \A j \in 1..11 : ~Empty(s[j])
      /\ (\A j \in 1..11 : ~Empty(s[j])) => \A j \in 1..11 : p[j] = s[j]
  <2>1. 11 \in Nat /\ 11 >= 3
    OBVIOUS
  <2> QED
    BY <1>1, <2>1, ParsedString, Zenon DEF p
<1>3. ~IsChannel(p)
  BY <1>1, <1>2 DEF IsChannel, Token
<1>4. ~Short(p, 11) <=> Len(p) >= 11
  BY <1>2 DEF Short
<1>5. CASE line[5] \in ToSet(ContextType)
  <2>1. c \in 0..5 /\ context_type_string(c) = line[5]
    BY <1>5, Contexts DEF c
  <2>2. Converts(c, line[6]) /\ Converts(c, line[7]) /\ ~Empty(s[6])
    BY <1>1, <2>1, EveryContextConverts, ContextReturns
  <2>3. ~Empty(s[7]) /\ ~Empty(s[8])
    BY <1>1, <2>1, <2>2, Zenon DEF Converts
  <2>4. \A j \in 1..11 : ~Empty(s[j])
    <3>1. \A j \in 1..11 : \/ j = 1 \/ j = 2 \/ j = 3 \/ j = 4 \/ j = 5 \/ j = 6
                          \/ j = 7 \/ j = 8 \/ j = 9 \/ j = 10 \/ j = 11
      OBVIOUS
    <3> QED
      BY <1>1, <2>2, <2>3, <3>1
  <2> QED
    BY <1>2, <1>3, <1>4, <1>5, <2>4 DEF p
<1>6. CASE line[5] \notin ToSet(ContextType)
  <2>1. Empty(s[7])
    BY <1>1, <1>6, Contexts DEF c
  <2>2. 7 \in 1..11
    OBVIOUS
  <2> QED
    BY <1>2, <1>3, <1>4, <1>6, <2>1, <2>2 DEF p
<1> QED
  BY <1>5, <1>6

\* What a stage makes of an object's string: the object that the parser read.
LEMMA ObjectArrives ==
  ASSUME NEW line \in Seq(Words), NEW r, NEW s, ObjectFrom(line, r, s),
         NEW t, Received(s, t)
  PROVE  /\ Preserved(r) => t = r
         /\ t.m_rule_type = "create_object"
<1> DEFINE c == convert_context_type_definition(line[5])
           p == parse_rule(s)
<1>1. /\ s[2] = r.m_rule_id /\ s[4] = r.m_channel_id /\ s[5] = r.m_enforcement_object_id
      /\ s[6] = context_type_string(c)
      /\ s[7] = differentiation_string(c, r.m_operation_type)
      /\ s[8] = differentiation_string(c, r.m_operation_context)
      /\ s[9] = r.m_enforcement_object_type
      /\ s[10] = r.m_property_first /\ s[11] = r.m_property_second
      /\ r = [m_rule_id |-> line[1], m_rule_type |-> "create_object", m_channel_id |-> line[3],
              m_enforcement_object_id |-> line[4], m_context_definition |-> c,
              m_operation_type |-> convert_differentiation_definitions(line[5], line[6]),
              m_operation_context |-> convert_differentiation_definitions(line[5], line[7]),
              m_enforcement_object_type |-> convert_object_type(line[8]),
              m_property_first |-> line[9], m_property_second |-> line[10]]
  BY ObjectString
<1>2. ~IsChannel(p) /\ ~Short(p, 11) /\ t = fill_create_object_rule(p)
  BY ObjectComplete DEF Received
<1>3. line[5] \in ToSet(ContextType) /\ \A j \in 1..11 : p[j] = s[j]
  BY <1>2, ObjectComplete
<1>4. c \in 0..5 /\ context_type_string(c) = line[5]
  BY <1>3, Contexts
<1>5. convert_context_type_definition(context_type_string(c)) = c
  BY <1>4, ContextReturns
<1> HIDE DEF c, p
<1> DEFINE v1 == convert_differentiation_definitions(line[5], line[6])
           v2 == convert_differentiation_definitions(line[5], line[7])
           n1 == differentiation_string(c, v1)
           n2 == differentiation_string(c, v2)
           w1 == convert_differentiation_definitions(line[5], n1)
           w2 == convert_differentiation_definitions(line[5], n2)
           type == convert_object_type(line[8])
<1>6. /\ r.m_rule_id = line[1] /\ r.m_channel_id = line[3] /\ r.m_enforcement_object_id = line[4]
      /\ r.m_operation_type = v1 /\ r.m_operation_context = v2 /\ r.m_context_definition = c
      /\ r.m_enforcement_object_type = type
      /\ r.m_property_first = line[9] /\ r.m_property_second = line[10]
  BY <1>1
<1>7. /\ p[2] = line[1] /\ p[4] = line[3] /\ p[5] = line[4] /\ p[6] = line[5]
      /\ p[7] = n1 /\ p[8] = n2 /\ p[9] = type /\ p[10] = line[9] /\ p[11] = line[10]
  BY <1>1, <1>3, <1>4, <1>6
<1>8. convert_context_type_definition(p[6]) = c /\ convert_object_type(p[9]) = type
  BY <1>4, <1>5, <1>7, ObjectTypeReturns
<1> HIDE DEF v1, v2, n1, n2, w1, w2, type
<1>9. t = [m_rule_id |-> line[1], m_rule_type |-> "create_object", m_channel_id |-> line[3],
           m_enforcement_object_id |-> line[4], m_context_definition |-> c,
           m_operation_type |-> w1, m_operation_context |-> w2,
           m_enforcement_object_type |-> type,
           m_property_first |-> line[9], m_property_second |-> line[10]]
  BY <1>2, <1>7, <1>8 DEF fill_create_object_rule, Token, w1, w2
<1>10. Preserved(r) => t = r
  <2>1. Converts(c, line[6]) /\ Converts(c, line[7])
    BY <1>4, EveryContextConverts
  <2>2. Preserved(r) => w1 = v1 /\ w2 = v2
    BY <1>4, <1>6, <2>1, Zenon DEF Preserved, Converts, v1, v2, n1, n2, w1, w2
  <2>3. r = [m_rule_id |-> line[1], m_rule_type |-> "create_object", m_channel_id |-> line[3],
             m_enforcement_object_id |-> line[4], m_context_definition |-> c,
             m_operation_type |-> v1, m_operation_context |-> v2,
             m_enforcement_object_type |-> type,
             m_property_first |-> line[9], m_property_second |-> line[10]]
    BY <1>1 DEF v1, v2, type
  <2> QED
    BY <1>9, <2>2, <2>3
<1>11. t.m_rule_type = "create_object"
  BY <1>9
<1> QED
  BY <1>10, <1>11

\* What a stage makes of any string: the rule that the parser read, a channel where
\* the controllers see one.
LEMMA RuleArrives ==
  ASSUME NEW line \in Seq(Words), NEW r, NEW s, ChannelFrom(line, r, s) \/ ObjectFrom(line, r, s),
         NEW t, Received(s, t)
  PROVE  /\ Preserved(r) => t = r
         /\ t.m_rule_type = "create_channel" <=> IsChannel(parse_rule(s))
         /\ IsChannel(parse_rule(s)) =>
              /\ t.m_channel_id = Token(parse_rule(s), 3)
              /\ OperationOf(parse_rule(s)) = "delete_" <=> Serves(r) = "delete_"
              /\ OperationOf(parse_rule(s)) # "delete_" => Serves(t) = OperationOf(parse_rule(s))
<1>1. CASE ChannelFrom(line, r, s)
  BY <1>1, ChannelArrives, ChannelComplete
<1>2. CASE ObjectFrom(line, r, s)
  BY <1>2, ObjectArrives, ObjectComplete
<1> QED
  BY <1>1, <1>2

-------------------------------------------------------------------------------
(* RulesInv is inductive.                                                     *)

\* What Append does to the elements.
LEMMA AppendElements ==
  ASSUME NEW s, IsSequence(s), NEW x
  PROVE  /\ Append(s, x)[Len(s) + 1] = x
         /\ \A i \in 1..Len(s) : Append(s, x)[i] = s[i]
<1>1. PICK S : s \in Seq(S)
  BY DEF IsSequence
<1>2. s \in Seq(S \cup {x})
  BY <1>1, SeqMonotonic
<1>3. Append(s, x)[Len(s) + 1] = x
  BY <1>2, AppendProperties
<1>4. \A i \in 1..Len(s) : Append(s, x)[i] = s[i]
  BY <1>2, AppendProperties
<1> QED
  BY <1>3, <1>4

\* One step of the loop over the lines that makes channels.
LEMMA ChannelLineRead ==
  ASSUME RulesFromFile, get_create_channel_rules
  PROVE  /\ phase = "get_create_channel_rules"
         /\ UNCHANGED <<file, rules, operation_to_channel_object, stage, enforced>>
         /\ next' \in Nat \ {0}
         /\ \/ /\ phase' = "undefined" /\ UNCHANGED <<raw, strings>>
               /\ next \in 1..Len(file) /\ Len(file[next]) < 2
            \/ /\ phase' = phase /\ next' = next + 1 /\ next \in 1..Len(file)
               /\ IF ChannelLine(file[next])
                  THEN \E r, s : /\ ChannelFrom(file[next], r, s)
                                 /\ raw' = Append(raw, r) /\ strings' = Append(strings, s)
                  ELSE UNCHANGED <<raw, strings>>
            \/ /\ phase' = "get_create_object_rules" /\ UNCHANGED <<raw, strings>>
               /\ next > Len(file)
<1> DEFINE line == file[next]
<1>1. /\ phase = "get_create_channel_rules"
      /\ \/ ReadLine("create_channel", CompleteChannel, 7, HousekeepingCreateChannelRaw,
                     convert_housekeeping_create_channel_string)
         \/ LastLineRead("get_create_object_rules")
  BY DEF get_create_channel_rules
<1>2. next \in Nat \ {0} /\ Len(file) \in Nat /\ file \in Seq(Seq(Words))
  BY DEF RulesFromFile
<1>3. CASE LastLineRead("get_create_object_rules")
  BY <1>1, <1>2, <1>3 DEF LastLineRead
<1>4. CASE ReadLine("create_channel", CompleteChannel, 7, HousekeepingCreateChannelRaw,
                    convert_housekeeping_create_channel_string)
  <2>1. next \in 1..Len(file)
    BY <1>2, <1>4 DEF ReadLine
  <2>2. line \in Seq(Words) /\ Len(line) \in Nat
    BY <1>2, <2>1
  <2>3. Short(line, 2) <=> Len(line) < 2
    BY DEF Short
  <2>4. /\ CompleteChannel(line) <=> Len(line) >= 7
        /\ Short(line, 7) <=> Len(line) < 7
    BY <2>2 DEF CompleteChannel, Short, m_create_channel_rules_min_elements
  <2>5. convert_housekeeping_operation(Token(line, 1)) = "create_channel"
           <=> line[2] = "create_channel"
    BY DEF convert_housekeeping_operation, HousekeepingOperation, Token
  <2> HIDE DEF line
  <2>6. \/ /\ Short(line, 2) /\ Undefined
        \/ /\ convert_housekeeping_operation(Token(line, 1)) = "create_channel"
           /\ CompleteChannel(line) /\ Short(line, 7)
        \/ /\ \/ /\ convert_housekeeping_operation(Token(line, 1)) = "create_channel"
                 /\ CompleteChannel(line)
                 /\ AddRule(HousekeepingCreateChannelRaw(line),
                            convert_housekeeping_create_channel_string(
                                HousekeepingCreateChannelRaw(line)))
              \/ /\ ~(convert_housekeeping_operation(Token(line, 1)) = "create_channel"
                      /\ CompleteChannel(line))
                 /\ UNCHANGED <<raw, strings>>
           /\ next' = next + 1
           /\ UNCHANGED <<file, active_ops, rules, operation_to_channel_object, stage,
                          enforced, phase>>
    BY <1>4, Zenon DEF ReadLine, line
  <2>7. CASE Short(line, 2) /\ Undefined
    BY <1>1, <1>2, <2>1, <2>3, <2>7 DEF Undefined, line
  <2>8. ~(CompleteChannel(line) /\ Short(line, 7))
    BY <2>2, <2>4
  <2>9. CASE /\ convert_housekeeping_operation(Token(line, 1)) = "create_channel"
             /\ CompleteChannel(line)
             /\ AddRule(HousekeepingCreateChannelRaw(line),
                        convert_housekeeping_create_channel_string(
                            HousekeepingCreateChannelRaw(line)))
             /\ next' = next + 1
             /\ UNCHANGED <<file, active_ops, rules, operation_to_channel_object, stage,
                            enforced, phase>>
    <3> DEFINE r == HousekeepingCreateChannelRaw(line)
               s == convert_housekeeping_create_channel_string(r)
    <3>1. ChannelLine(line) /\ ChannelFrom(line, r, s)
      BY <2>4, <2>5, <2>9 DEF ChannelLine, ChannelFrom
    <3>2. raw' = Append(raw, r) /\ strings' = Append(strings, s)
      BY <2>9 DEF AddRule
    <3>3. /\ phase' = phase /\ next' = next + 1
          /\ UNCHANGED <<file, rules, operation_to_channel_object, stage, enforced>>
      BY <2>9
    <3> HIDE DEF r, s
    <3> QED
      BY <1>1, <1>2, <2>1, <3>1, <3>2, <3>3 DEF line
  <2>10. CASE /\ ~(convert_housekeeping_operation(Token(line, 1)) = "create_channel"
                   /\ CompleteChannel(line))
              /\ UNCHANGED <<raw, strings>>
              /\ next' = next + 1
              /\ UNCHANGED <<file, active_ops, rules, operation_to_channel_object, stage,
                             enforced, phase>>
    <3>1. ~ChannelLine(line)
      BY <2>4, <2>5, <2>10 DEF ChannelLine
    <3> QED
      BY <1>1, <1>2, <2>1, <2>10, <3>1 DEF line
  <2> QED
    BY <2>6, <2>7, <2>8, <2>9, <2>10
<1> QED
  BY <1>1, <1>3, <1>4

\* One step of the loop over the lines that makes objects.
LEMMA ObjectLineRead ==
  ASSUME RulesFromFile, get_create_object_rules
  PROVE  /\ phase = "get_create_object_rules"
         /\ UNCHANGED <<file, rules, operation_to_channel_object, stage, enforced>>
         /\ next' \in Nat \ {0}
         /\ \/ /\ phase' = "undefined" /\ UNCHANGED <<raw, strings>>
               /\ next \in 1..Len(file)
               /\ \/ Len(file[next]) < 2
                  \/ file[next][2] = "create_object" /\ Len(file[next]) \in {8, 9}
            \/ /\ phase' = phase /\ next' = next + 1 /\ next \in 1..Len(file)
               /\ \/ \E r, s : /\ ObjectFrom(file[next], r, s)
                               /\ raw' = Append(raw, r) /\ strings' = Append(strings, s)
                  \/ UNCHANGED <<raw, strings>>
            \/ /\ phase' = "initialize" /\ UNCHANGED <<raw, strings>>
<1> DEFINE line == file[next]
<1>1. /\ phase = "get_create_object_rules"
      /\ \/ ReadLine("create_object", CompleteObject, 10, HousekeepingCreateObjectRaw,
                     convert_housekeeping_create_object_string)
         \/ LastLineRead("initialize")
  BY DEF get_create_object_rules
<1>2. next \in Nat \ {0} /\ Len(file) \in Nat /\ file \in Seq(Seq(Words))
  BY DEF RulesFromFile
<1>3. CASE LastLineRead("initialize")
  BY <1>1, <1>2, <1>3 DEF LastLineRead
<1>4. CASE ReadLine("create_object", CompleteObject, 10, HousekeepingCreateObjectRaw,
                    convert_housekeeping_create_object_string)
  <2>1. next \in 1..Len(file)
    BY <1>2, <1>4 DEF ReadLine
  <2>2. line \in Seq(Words) /\ Len(line) \in Nat
    BY <1>2, <2>1
  <2>3. Short(line, 2) <=> Len(line) < 2
    BY DEF Short
  <2>4. /\ CompleteObject(line) <=> Len(line) >= 8
        /\ Short(line, 10) <=> Len(line) < 10
    BY <2>2 DEF CompleteObject, Short, m_create_object_rules_min_elements
  <2>5. convert_housekeeping_operation(Token(line, 1)) = "create_object"
           => line[2] = "create_object"
    BY DEF convert_housekeeping_operation, HousekeepingOperation, Token
  <2> HIDE DEF line
  <2>6. \/ /\ Short(line, 2) /\ Undefined
        \/ /\ convert_housekeeping_operation(Token(line, 1)) = "create_object"
           /\ CompleteObject(line) /\ Short(line, 10) /\ Undefined
        \/ /\ \/ /\ convert_housekeeping_operation(Token(line, 1)) = "create_object"
                 /\ ~Short(line, 10)
                 /\ AddRule(HousekeepingCreateObjectRaw(line),
                            convert_housekeeping_create_object_string(
                                HousekeepingCreateObjectRaw(line)))
              \/ UNCHANGED <<raw, strings>>
           /\ next' = next + 1
           /\ UNCHANGED <<file, active_ops, rules, operation_to_channel_object, stage,
                          enforced, phase>>
    BY <1>4, Zenon DEF ReadLine, line
  <2>7. CASE Short(line, 2) /\ Undefined
    BY <1>1, <1>2, <2>1, <2>3, <2>7 DEF Undefined, line
  <2>8. CASE /\ convert_housekeeping_operation(Token(line, 1)) = "create_object"
             /\ CompleteObject(line) /\ Short(line, 10) /\ Undefined
    <3>1. line[2] = "create_object" /\ CompleteObject(line) /\ Short(line, 10)
      BY <2>5, <2>8, Zenon
    <3>2. Len(line) \in {8, 9}
      <4>1. Len(line) \in Nat /\ Len(line) >= 8 /\ Len(line) < 10
        BY <2>2, <2>4, <3>1, Zenon
      <4>2. \A n \in Nat : n >= 8 /\ n < 10 => n = 8 \/ n = 9
        OBVIOUS
      <4>3. Len(line) = 8 \/ Len(line) = 9
        BY <4>1, <4>2, Zenon
      <4> QED
        BY <4>3, Zenon
    <3> QED
      BY <1>1, <1>2, <2>1, <2>8, <3>1, <3>2 DEF Undefined, line
  <2>9. CASE /\ convert_housekeeping_operation(Token(line, 1)) = "create_object"
             /\ ~Short(line, 10)
             /\ AddRule(HousekeepingCreateObjectRaw(line),
                        convert_housekeeping_create_object_string(
                            HousekeepingCreateObjectRaw(line)))
             /\ next' = next + 1
             /\ UNCHANGED <<file, active_ops, rules, operation_to_channel_object, stage,
                            enforced, phase>>
    <3> DEFINE r == HousekeepingCreateObjectRaw(line)
               s == convert_housekeeping_create_object_string(r)
    <3>1. ObjectFrom(line, r, s)
      BY <2>2, <2>4, <2>5, <2>9 DEF ObjectLine, ObjectFrom
    <3>2. raw' = Append(raw, r) /\ strings' = Append(strings, s)
      BY <2>9 DEF AddRule
    <3>3. /\ phase' = phase /\ next' = next + 1
          /\ UNCHANGED <<file, rules, operation_to_channel_object, stage, enforced>>
      BY <2>9
    <3> HIDE DEF r, s
    <3> QED
      BY <1>1, <1>2, <2>1, <3>1, <3>2, <3>3 DEF line
  <2>10. CASE /\ UNCHANGED <<raw, strings>>
              /\ next' = next + 1
              /\ UNCHANGED <<file, active_ops, rules, operation_to_channel_object, stage,
                             enforced, phase>>
    BY <1>1, <1>2, <2>1, <2>10 DEF line
  <2> QED
    BY <2>6, <2>7, <2>8, <2>9, <2>10
<1> QED
  BY <1>1, <1>3, <1>4

\* A rule more for the parser, or none.
LEMMA RulesFromFileKept ==
  ASSUME RulesFromFile, file' = file, next' \in Nat \ {0},
         \/ UNCHANGED <<raw, strings>>
         \/ \E k \in 1..Len(file) : \E r, s :
               /\ ChannelFrom(file[k], r, s) \/ ObjectFrom(file[k], r, s)
               /\ raw' = Append(raw, r) /\ strings' = Append(strings, s)
  PROVE  /\ RulesFromFile'
         /\ Len(raw') >= Len(raw) /\ \A i \in 1..Len(raw) : raw'[i] = raw[i]
<1>1. /\ IsSequence(raw) /\ IsSequence(strings) /\ Len(strings) = Len(raw)
      /\ file \in Seq(Seq(Words))
  BY DEF RulesFromFile
<1>2. Len(raw) \in Nat
  BY <1>1, LengthOfSequence
<1>3. CASE UNCHANGED <<raw, strings>>
  BY <1>2, <1>3 DEF RulesFromFile
<1>4. ASSUME NEW k \in 1..Len(file), NEW r, NEW s,
             ChannelFrom(file[k], r, s) \/ ObjectFrom(file[k], r, s),
             raw' = Append(raw, r), strings' = Append(strings, s)
      PROVE  /\ RulesFromFile'
             /\ Len(raw') >= Len(raw) /\ \A i \in 1..Len(raw) : raw'[i] = raw[i]
  <2>1. /\ IsSequence(raw') /\ IsSequence(strings')
        /\ Len(raw') = Len(raw) + 1 /\ Len(strings') = Len(strings) + 1
    BY <1>1, <1>4, AppendIsSequence
  <2>2. /\ raw'[Len(raw) + 1] = r /\ strings'[Len(raw) + 1] = s
        /\ \A i \in 1..Len(raw) : raw'[i] = raw[i] /\ strings'[i] = strings[i]
    BY <1>1, <1>4, AppendElements
  <2>3. ASSUME NEW i \in 1..Len(raw')
        PROVE  \E j \in 1..Len(file) :
                  \/ ChannelFrom(file[j], raw'[i], strings'[i])
                  \/ ObjectFrom(file[j], raw'[i], strings'[i])
    <3>1. CASE i \in 1..Len(raw)
      BY <2>2, <3>1 DEF RulesFromFile
    <3>2. CASE i = Len(raw) + 1
      BY <1>4, <2>2, <3>2
    <3> QED
      BY <1>2, <2>1, <3>1, <3>2
  <2>4. RulesFromFile'
    BY <1>1, <2>1, <2>3 DEF RulesFromFile
  <2> QED
    BY <1>2, <2>1, <2>2, <2>4
<1> QED
  BY <1>3, <1>4

\* The four kinds of files that the property names.
LEMMA Explains ==
  ASSUME RulesFromFile, file' = file,
         \/ \E i \in 1..Len(file) : Len(file[i]) < 2
         \/ \E i \in 1..Len(file) : file[i][2] = "create_object" /\ Len(file[i]) \in {8, 9}
         \/ \E i \in 1..Len(file) :
               /\ Len(file[i]) >= 7
               /\ (IF file[i][2] = "create_channel" THEN file[i][4] ELSE file[i][5])
                      \notin ToSet(ContextType)
         \/ ~\E i \in 1..Len(file) : ChannelLine(file[i])
  PROVE  MissingTokensExplained'
<1>1. DOMAIN file = 1..Len(file)
  BY DEF RulesFromFile
<1> QED
  BY <1>1, Zenon DEF MissingTokensExplained, ChannelLine

\* Nothing else moves while the parser reads.
LEMMA NothingElseMoves ==
  ASSUME HandshakeInv, RulesKept, StageRules, ChannelsKnown, RatesAfterRules,
         phase \in Parsing, IsSequence(strings'),
         UNCHANGED <<rules, operation_to_channel_object, stage, enforced>>
  PROVE  RulesKept' /\ StageRules' /\ ChannelsKnown' /\ RatesAfterRules'
<1>1. /\ rules = <<>> /\ Len(rules) = 0 /\ operation_to_channel_object = <<>>
      /\ Len(stage) = 0 /\ IsSequence(stage) /\ IsSequence(rules) /\ Len(strings') \in Nat
      /\ enforced = NoEnforcement
  <2>1. rules = <<>> /\ operation_to_channel_object = <<>>
    BY DEF HandshakeInv
  <2>2. Len(strings') \in Nat /\ Len(stage) \in Nat
    BY LengthOfSequence DEF StageRules
  <2> QED
    BY <2>1, <2>2 DEF RatesAfterRules, Parsing, StageRules, RulesKept
<1>2. RulesKept'
  BY <1>1 DEF RulesKept
<1>3. StageRules'
  BY <1>1 DEF StageRules
<1>4. ChannelsKnown'
  BY <1>1 DEF ChannelsKnown
<1>5. RateSplitAmongChannels'
  BY <1>1, Zenon DEF RateSplitAmongChannels
<1>6. RatesAfterRules'
  BY <1>1, <1>5 DEF RatesAfterRules
<1> QED
  BY <1>2, <1>3, <1>4, <1>6

\* The parser's loop over channels.
LEMMA ChannelsKeepRulesInv ==
  ASSUME RulesInv, get_create_channel_rules
  PROVE  RulesInv'
<1>1. /\ HandshakeInv /\ RulesFromFile /\ ChannelsRead /\ RulesKept /\ StageRules
      /\ ChannelsKnown /\ RatesAfterRules
  BY DEF RulesInv
<1>2. /\ phase = "get_create_channel_rules"
      /\ UNCHANGED <<file, rules, operation_to_channel_object, stage, enforced>>
      /\ next' \in Nat \ {0}
      /\ \/ /\ phase' = "undefined" /\ UNCHANGED <<raw, strings>>
            /\ next \in 1..Len(file) /\ Len(file[next]) < 2
         \/ /\ phase' = phase /\ next' = next + 1 /\ next \in 1..Len(file)
            /\ IF ChannelLine(file[next])
               THEN \E r, s : /\ ChannelFrom(file[next], r, s)
                              /\ raw' = Append(raw, r) /\ strings' = Append(strings, s)
               ELSE UNCHANGED <<raw, strings>>
         \/ /\ phase' = "get_create_object_rules" /\ UNCHANGED <<raw, strings>>
            /\ next > Len(file)
  BY <1>1, ChannelLineRead
<1>3. HandshakeInv'
  BY <1>1, ParserKeepsHandshakeInv
<1>4. \/ UNCHANGED <<raw, strings>>
      \/ \E k \in 1..Len(file) : \E r, s :
            /\ ChannelFrom(file[k], r, s) \/ ObjectFrom(file[k], r, s)
            /\ raw' = Append(raw, r) /\ strings' = Append(strings, s)
  BY <1>2
<1>5. /\ RulesFromFile'
      /\ Len(raw') >= Len(raw) /\ \A i \in 1..Len(raw) : raw'[i] = raw[i]
  BY <1>1, <1>2, <1>4, RulesFromFileKept
<1>6. IsSequence(raw) /\ Len(raw) \in Nat /\ Len(raw') \in Nat /\ next \in Nat
  BY <1>1, <1>5, LengthOfSequence DEF RulesFromFile
<1>7. ChannelsRead'
  <2> SUFFICES ASSUME phase' # "undefined", NEW k \in 1..Len(file), ChannelLine(file[k]),
                      phase' = "get_create_channel_rules" => k < next'
               PROVE  \E i \in 1..Len(raw') : raw'[i].m_rule_type = "create_channel"
    BY <1>2 DEF ChannelsRead
  <2>1. CASE k < next
    <3>1. \E i \in 1..Len(raw) : raw[i].m_rule_type = "create_channel"
      BY <1>1, <1>2, <2>1 DEF ChannelsRead
    <3> QED
      BY <1>5, <1>6, <3>1
  <2>2. CASE ~(k < next)
    <3>1. phase' = phase /\ next' = next + 1 /\ k = next
      BY <1>2, <1>6, <2>2
    <3>2. PICK r, s : ChannelFrom(file[k], r, s) /\ raw' = Append(raw, r)
      BY <1>2, <3>1
    <3>3. r.m_rule_type = "create_channel"
      BY <3>2 DEF ChannelFrom, HousekeepingCreateChannelRaw
    <3>4. raw'[Len(raw) + 1] = r /\ Len(raw') = Len(raw) + 1
      BY <1>6, <3>2, AppendElements, AppendIsSequence
    <3>5. Len(raw) + 1 \in 1..Len(raw')
      BY <1>6, <3>4
    <3> QED
      BY <3>3, <3>4, <3>5
  <2> QED
    BY <2>1, <2>2
<1>8. MissingTokensExplained'
  <2>1. CASE phase' = "undefined"
    BY <1>1, <1>2, <2>1, Explains
  <2>2. CASE phase' # "undefined"
    BY <2>2, Zenon DEF MissingTokensExplained
  <2> QED
    BY <2>1, <2>2
<1>9. RulesKept' /\ StageRules' /\ ChannelsKnown' /\ RatesAfterRules'
  <2>1. phase \in Parsing /\ IsSequence(strings')
    BY <1>2, <1>5 DEF Parsing, RulesFromFile
  <2> QED
    BY <1>1, <1>2, <2>1, NothingElseMoves
<1> QED
  BY <1>3, <1>5, <1>7, <1>8, <1>9 DEF RulesInv

\* The parser's loop over objects.
LEMMA ObjectsKeepRulesInv ==
  ASSUME RulesInv, get_create_object_rules
  PROVE  RulesInv'
<1>1. /\ HandshakeInv /\ RulesFromFile /\ ChannelsRead /\ RulesKept /\ StageRules
      /\ ChannelsKnown /\ RatesAfterRules
  BY DEF RulesInv
<1>2. /\ phase = "get_create_object_rules"
      /\ UNCHANGED <<file, rules, operation_to_channel_object, stage, enforced>>
      /\ next' \in Nat \ {0}
      /\ \/ /\ phase' = "undefined" /\ UNCHANGED <<raw, strings>>
            /\ next \in 1..Len(file)
            /\ \/ Len(file[next]) < 2
               \/ file[next][2] = "create_object" /\ Len(file[next]) \in {8, 9}
         \/ /\ phase' = phase /\ next' = next + 1 /\ next \in 1..Len(file)
            /\ \/ \E r, s : /\ ObjectFrom(file[next], r, s)
                            /\ raw' = Append(raw, r) /\ strings' = Append(strings, s)
               \/ UNCHANGED <<raw, strings>>
         \/ /\ phase' = "initialize" /\ UNCHANGED <<raw, strings>>
  BY <1>1, ObjectLineRead
<1>3. HandshakeInv'
  BY <1>1, ParserKeepsHandshakeInv
<1>4. \/ UNCHANGED <<raw, strings>>
      \/ \E k \in 1..Len(file) : \E r, s :
            /\ ChannelFrom(file[k], r, s) \/ ObjectFrom(file[k], r, s)
            /\ raw' = Append(raw, r) /\ strings' = Append(strings, s)
  BY <1>2
<1>5. /\ RulesFromFile'
      /\ Len(raw') >= Len(raw) /\ \A i \in 1..Len(raw) : raw'[i] = raw[i]
  BY <1>1, <1>2, <1>4, RulesFromFileKept
<1>6. Len(raw) \in Nat /\ Len(raw') \in Nat
  BY <1>1, <1>5, LengthOfSequence DEF RulesFromFile
<1>7. ChannelsRead'
  <2> SUFFICES ASSUME NEW k \in 1..Len(file), ChannelLine(file[k])
               PROVE  \E i \in 1..Len(raw') : raw'[i].m_rule_type = "create_channel"
    BY <1>2 DEF ChannelsRead
  <2>1. \E i \in 1..Len(raw) : raw[i].m_rule_type = "create_channel"
    BY <1>1, <1>2 DEF ChannelsRead
  <2> QED
    BY <1>5, <1>6, <2>1
<1>8. MissingTokensExplained'
  <2>1. CASE phase' = "undefined"
    <3>1. /\ next \in 1..Len(file)
          /\ \/ Len(file[next]) < 2
             \/ file[next][2] = "create_object" /\ Len(file[next]) \in {8, 9}
      BY <1>2, <2>1
    <3> QED
      BY <1>1, <1>2, <3>1, Explains, Zenon
  <2>2. CASE phase' # "undefined"
    BY <2>2, Zenon DEF MissingTokensExplained
  <2> QED
    BY <2>1, <2>2
<1>9. RulesKept' /\ StageRules' /\ ChannelsKnown' /\ RatesAfterRules'
  <2>1. phase \in Parsing /\ IsSequence(strings')
    BY <1>2, <1>5 DEF Parsing, RulesFromFile
  <2> QED
    BY <1>1, <1>2, <2>1, NothingElseMoves
<1> QED
  BY <1>3, <1>5, <1>7, <1>8, <1>9 DEF RulesInv

\* The string at each place is made of a line of the file.
LEMMA StringFromFile ==
  ASSUME RulesFromFile, NEW i \in 1..Len(strings)
  PROVE  \E k \in 1..Len(file) :
            /\ file[k] \in Seq(Words)
            /\ ChannelFrom(file[k], raw[i], strings[i]) \/ ObjectFrom(file[k], raw[i], strings[i])
<1>1. PICK k \in 1..Len(file) :
         ChannelFrom(file[k], raw[i], strings[i]) \/ ObjectFrom(file[k], raw[i], strings[i])
  BY DEF RulesFromFile
<1>2. file[k] \in Seq(Words)
  BY DEF RulesFromFile
<1> QED
  BY <1>1, <1>2

\* A string that lacks fields comes from a line whose context is not known.
LEMMA LackingFields ==
  ASSUME RulesFromFile, NEW i \in 1..Len(strings),
         Short(parse_rule(strings[i]), IF IsChannel(parse_rule(strings[i])) THEN 8 ELSE 11)
  PROVE  \E k \in 1..Len(file) :
            /\ Len(file[k]) >= 7
            /\ (IF file[k][2] = "create_channel" THEN file[k][4] ELSE file[k][5])
                   \notin ToSet(ContextType)
<1> DEFINE s == strings[i]
<1>1. PICK k \in 1..Len(file) :
         /\ file[k] \in Seq(Words)
         /\ ChannelFrom(file[k], raw[i], s) \/ ObjectFrom(file[k], raw[i], s)
  BY StringFromFile
<1> HIDE DEF s
<1>2. Len(file[k]) \in Nat
  BY <1>1
<1>3. CASE ChannelFrom(file[k], raw[i], s)
  <2>1. IsChannel(parse_rule(s)) /\ file[k][4] \notin ToSet(ContextType)
    BY <1>1, <1>3, ChannelComplete DEF s
  <2>2. Len(file[k]) >= 7 /\ file[k][2] = "create_channel"
    BY <1>3 DEF ChannelFrom, ChannelLine
  <2> QED
    BY <2>1, <2>2
<1>4. CASE ObjectFrom(file[k], raw[i], s)
  <2>1. ~IsChannel(parse_rule(s)) /\ file[k][5] \notin ToSet(ContextType)
    BY <1>1, <1>4, ObjectComplete DEF s
  <2>2. Len(file[k]) >= 7 /\ file[k][2] # "create_channel"
    BY <1>2, <1>4 DEF ObjectFrom, ObjectLine
  <2> QED
    BY <2>1, <2>2
<1> QED
  BY <1>1, <1>3, <1>4

\* initialize only stops at a file without a channel or with an unknown context.
LEMMA InitializeKeepsRulesInv ==
  ASSUME RulesInv, initialize
  PROVE  RulesInv'
<1>1. /\ HandshakeInv /\ RulesFromFile /\ ChannelsRead /\ RulesKept /\ StageRules
      /\ ChannelsKnown /\ RatesAfterRules
  BY DEF RulesInv
<1> DEFINE channels ==
             {tokens \in {parse_rule(strings[i]) : i \in DOMAIN strings} : IsChannel(tokens)}
<1>2. /\ phase = "initialize" /\ phase' \in {"undefined", "LocalHandshake"}
      /\ UNCHANGED <<file, raw, strings, rules, operation_to_channel_object, stage,
                     enforced, next>>
      /\ phase' = "undefined" => channels = {} \/ \E tokens \in channels : MissingOperation(tokens)
  BY DEF initialize, Undefined
<1>3. HandshakeInv'
  BY <1>1, InitializeKeepsHandshakeInv
<1>4. RulesFromFile'
  BY <1>1, <1>2 DEF RulesFromFile
<1>5. ChannelsRead'
  BY <1>1, <1>2 DEF ChannelsRead
<1>6. DOMAIN strings = 1..Len(strings) /\ Len(strings) = Len(raw)
  BY <1>1, LengthOfSequence DEF RulesFromFile
<1>7. MissingTokensExplained'
  <2>1. CASE phase' # "undefined"
    BY <2>1, Zenon DEF MissingTokensExplained
  <2>2. CASE phase' = "undefined" /\ channels = {}
    <3>1. ~\E k \in 1..Len(file) : ChannelLine(file[k])
      <4> SUFFICES ASSUME NEW k \in 1..Len(file), ChannelLine(file[k]) PROVE FALSE
        OBVIOUS
      <4>1. PICK i \in 1..Len(raw) : raw[i].m_rule_type = "create_channel"
        BY <1>1, <1>2 DEF ChannelsRead
      <4>2. PICK j \in 1..Len(file) :
               /\ file[j] \in Seq(Words)
               /\ ChannelFrom(file[j], raw[i], strings[i]) \/ ObjectFrom(file[j], raw[i], strings[i])
        BY <1>1, <1>6, StringFromFile
      <4>3. ~ObjectFrom(file[j], raw[i], strings[i])
        BY <4>1 DEF ObjectFrom, HousekeepingCreateObjectRaw
      <4>4. IsChannel(parse_rule(strings[i]))
        BY <4>2, <4>3, ChannelComplete
      <4>5. parse_rule(strings[i]) \in channels
        BY <1>6, <4>4
      <4> HIDE DEF channels
      <4> QED
        BY <2>2, <4>5
    <3> HIDE DEF channels
    <3> QED
      BY <1>1, <1>2, <3>1, Explains
  <2>3. ASSUME NEW tokens \in channels, MissingOperation(tokens)
        PROVE  MissingTokensExplained'
    <3>1. PICK i \in 1..Len(strings) : tokens = parse_rule(strings[i])
      BY <1>6
    <3>2. Len(tokens) \in Nat
      <4>1. PICK k \in 1..Len(file) :
               /\ file[k] \in Seq(Words)
               /\ ChannelFrom(file[k], raw[i], strings[i]) \/ ObjectFrom(file[k], raw[i], strings[i])
        BY <1>1, StringFromFile
      <4>2. Len(strings[i]) \in Nat
        BY <4>1, ChannelString, ObjectString
      <4>3. IsSequence(tokens)
        BY <3>1, <4>2, ParsedFields DEF KeptOf
      <4> QED
        BY <4>3, LengthOfSequence
    <3>3. IsChannel(tokens) /\ Short(tokens, 8)
      BY <2>3, <3>2 DEF MissingOperation, Short
    <3> HIDE DEF channels
    <3>4. \E k \in 1..Len(file) :
            /\ Len(file[k]) >= 7
            /\ (IF file[k][2] = "create_channel" THEN file[k][4] ELSE file[k][5])
                   \notin ToSet(ContextType)
      BY <1>1, <3>1, <3>3, LackingFields
    <3> QED
      BY <1>1, <1>2, <3>4, Explains
  <2> HIDE DEF channels
  <2> QED
    BY <1>2, <2>1, <2>2, <2>3
<1>8. RulesKept' /\ StageRules' /\ ChannelsKnown' /\ RatesAfterRules'
  <2>1. phase \in Parsing /\ IsSequence(strings')
    BY <1>2, <1>4 DEF Parsing, RulesFromFile
  <2> HIDE DEF channels
  <2> QED
    BY <1>1, <1>2, <2>1, NothingElseMoves
<1> QED
  BY <1>3, <1>4, <1>5, <1>7, <1>8 DEF RulesInv

ChannelsIn(known) == {known[i].channel : i \in DOMAIN known}

\* The channels of an operation and one more.
LEMMA OneChannelInMore ==
  ASSUME NEW known, IsSequence(known), NEW x
  PROVE  /\ known \o <<>> = known
         /\ IsSequence(known \o <<x>>) /\ known \o <<x>> # <<>>
         /\ ChannelsIn(known \o <<x>>) = ChannelsIn(known) \cup {x.channel}
<1>1. PICK S : known \in Seq(S)
  BY DEF IsSequence
<1>2. known \in Seq(S \cup {x}) /\ <<x>> \in Seq(S \cup {x}) /\ <<>> \in Seq(S \cup {x})
  BY <1>1, SeqMonotonic
<1>3. known \o <<>> = known
  BY <1>2, ConcatEmptySeq
<1>4. known \o <<x>> = Append(known, x)
  <2>1. x \in S \cup {x}
    OBVIOUS
  <2> QED
    BY <1>2, <2>1, AppendIsConcat
<1> DEFINE more == Append(known, x)
<1>5. IsSequence(more) /\ Len(more) = Len(known) + 1 /\ Len(known) \in Nat
  BY AppendIsSequence, LengthOfSequence
<1>6. more[Len(known) + 1] = x /\ \A i \in 1..Len(known) : more[i] = known[i]
  BY AppendElements
<1> HIDE DEF more
<1>7. DOMAIN more = 1..Len(more) /\ DOMAIN known = 1..Len(known)
  BY <1>5, LengthOfSequence
<1>8. DOMAIN more = DOMAIN known \cup {Len(known) + 1} /\ more # <<>>
  BY <1>5, <1>7
<1>9. ChannelsIn(more) = ChannelsIn(known) \cup {x.channel}
  <2> DEFINE D == DOMAIN known
             k == Len(known) + 1
  <2>1. DOMAIN more = D \cup {k} /\ more[k] = x /\ \A i \in D : more[i] = known[i]
    BY <1>6, <1>7, <1>8
  <2> HIDE DEF D, k
  <2>2. {more[i].channel : i \in D \cup {k}} = {more[i].channel : i \in D} \cup {more[k].channel}
    BY Zenon
  <2>3. {more[i].channel : i \in D} = {known[i].channel : i \in D}
    BY <2>1, Zenon
  <2> QED
    BY <2>1, <2>2, <2>3, Zenon DEF ChannelsIn, D
<1> QED
  BY <1>3, <1>4, <1>5, <1>8, <1>9 DEF more

\* One rule more adds its channel to those of its operation.
LEMMA OneChannelMore ==
  ASSUME NEW operation, NEW s, NEW t, NEW n \in Nat, NEW m, m = n + 1,
         \A i \in 1..n : t[i] = s[i]
  PROVE  ChannelsOfFirst(operation, m, t) =
            ChannelsOfFirst(operation, n, s) \cup
               (IF IsChannel(parse_rule(t[m])) /\ OperationOf(parse_rule(t[m])) = operation
                THEN {Token(parse_rule(t[m]), 3)} ELSE {})
<1>1. 1..m = (1..n) \cup {m}
  OBVIOUS
<1>2. ChannelsOfFirst(operation, n, t) = ChannelsOfFirst(operation, n, s)
  BY Zenon DEF ChannelsOfFirst
<1>3. ChannelsOfFirst(operation, m, t) =
            ChannelsOfFirst(operation, n, t) \cup
               (IF IsChannel(parse_rule(t[m])) /\ OperationOf(parse_rule(t[m])) = operation
                THEN {Token(parse_rule(t[m]), 3)} ELSE {})
  BY <1>1, Zenon DEF ChannelsOfFirst
<1> QED
  BY <1>2, <1>3

\* LocalHandshake keeps the next rule and its channel.
LEMMA LocalHandshakeKeepsRulesInv ==
  ASSUME RulesInv, LocalHandshake
  PROVE  RulesInv'
<1>1. /\ HandshakeInv /\ RulesFromFile /\ ChannelsRead /\ RulesKept /\ StageRules
      /\ ChannelsKnown /\ RatesAfterRules
  BY DEF RulesInv
<1> DEFINE n == Len(rules)
           rule == strings[n + 1]
           tokens == parse_rule(rule)
           operation == OperationOf(tokens)
           known == operation_to_channel_object
<1>2. /\ phase = "LocalHandshake" /\ n < Len(strings)
      /\ UNCHANGED <<file, raw, strings, active_ops, stage, enforced, next, phase>>
      /\ rules' = Append(rules, rule)
  BY DEF LocalHandshake
<1>3. HandshakeInv'
  BY <1>1, LocalHandshakeKeepsHandshakeInv
<1>4. /\ RulesFromFile' /\ ChannelsRead'
      /\ MissingTokensExplained'
  <2>1. RulesFromFile' /\ ChannelsRead'
    BY <1>1, <1>2 DEF RulesFromFile, ChannelsRead
  <2>2. phase' # "undefined"
    BY <1>2
  <2> QED
    BY <2>1, <2>2, Zenon DEF MissingTokensExplained
<1>5. /\ IsSequence(rules) /\ n \in Nat /\ Len(strings) \in Nat
      /\ IsSequence(rules') /\ Len(rules') = n + 1
      /\ rules'[n + 1] = rule /\ \A i \in 1..n : rules'[i] = rules[i] /\ rules[i] = strings[i]
  <2>1. IsSequence(rules) /\ n \in Nat /\ Len(strings) \in Nat
    BY <1>1, LengthOfSequence DEF RulesKept, RulesFromFile
  <2> QED
    BY <1>1, <1>2, <2>1, AppendIsSequence, AppendElements DEF RulesKept
<1>6. RulesKept'
  <2>1. \A i \in 1..(n + 1) : rules'[i] = strings[i]
    BY <1>5
  <2> HIDE DEF n, rule
  <2> QED
    BY <1>2, <1>5, <2>1 DEF RulesKept, Parsing, n
<1>7. Len(stage) = 0 /\ IsSequence(stage) /\ enforced = NoEnforcement
  <2>1. Len(stage) \in Nat /\ IsSequence(stage)
    BY <1>1, LengthOfSequence DEF StageRules
  <2> QED
    BY <1>1, <1>2, <1>5, <2>1 DEF StageRules, RatesAfterRules
<1>8. StageRules'
  BY <1>2, <1>5, <1>7 DEF StageRules
<1>9. RatesAfterRules'
  <2>1. RateSplitAmongChannels'
    BY <1>2, <1>7, Zenon DEF RateSplitAmongChannels
  <2> QED
    BY <1>2, <1>7, <2>1 DEF RatesAfterRules
<1>10. ChannelsKnown'
  <2> HIDE DEF n, rule
  <2> SUFFICES ASSUME NEW o \in DOMAIN known'
               PROVE  /\ IsSequence(known'[o]) /\ known'[o] # <<>>
                      /\ ChannelsIn(known'[o]) = ChannelsOfFirst(o, n + 1, rules')
    BY <1>5, Zenon DEF ChannelsKnown, ChannelsIn, n
  <2>1. ChannelsOfFirst(o, n + 1, rules') =
           ChannelsOfFirst(o, n, rules) \cup
              (IF IsChannel(tokens) /\ operation = o THEN {Token(tokens, 3)} ELSE {})
    <3>1. PICK t : t = rules'
      OBVIOUS
    <3>2. PICK m : m = n + 1
      OBVIOUS
    <3>3. n \in Nat /\ m = n + 1 /\ \A i \in 1..n : t[i] = rules[i]
      BY <1>5, <3>1, <3>2
    <3>4. ChannelsOfFirst(o, m, t) =
             ChannelsOfFirst(o, n, rules) \cup
                (IF IsChannel(parse_rule(t[m])) /\ OperationOf(parse_rule(t[m])) = o
                 THEN {Token(parse_rule(t[m]), 3)} ELSE {})
      BY ONLY <3>3, OneChannelMore
    <3>5. t[m] = rule
      BY <1>5, <3>1, <3>2
    <3> QED
      BY <3>1, <3>2, <3>4, <3>5, Zenon
  <2>2. \A p \in DOMAIN known :
           /\ IsSequence(known[p]) /\ known[p] # <<>>
           /\ ChannelsIn(known[p]) = ChannelsOfFirst(p, n, rules)
    BY <1>1, Zenon DEF ChannelsKnown, ChannelsIn, n
  <2> DEFINE before == IF o \in DOMAIN known THEN known[o] ELSE <<>>
             now == IF o = operation THEN <<ChannelObject(tokens)>> ELSE <<>>
  <2>3. IF IsChannel(tokens)
        THEN o \in DOMAIN known \cup {operation} /\ known'[o] = before \o now
        ELSE known' = known
    BY DEF LocalHandshake, n, rule
  <2> HIDE DEF tokens, operation
  <2>4. CASE ~IsChannel(tokens)
    BY <2>1, <2>2, <2>3, <2>4
  <2>5. CASE IsChannel(tokens)
    <3>1. IsSequence(before) /\ ChannelsIn(before) = ChannelsOfFirst(o, n, rules)
      <4>1. CASE o \in DOMAIN known
        BY <2>2, <4>1
      <4>2. CASE o \notin DOMAIN known
        <5>1. before = <<>> /\ IsSequence(<<>>)
          BY <4>2, EmptySeq DEF IsSequence
        <5>2. ChannelsIn(<<>>) = {}
          BY DEF ChannelsIn
        <5>3. DOMAIN known = OperationsOfFirst(n, strings)
          BY <1>1, <1>2 DEF HandshakeInv, n
        <5>4. ChannelsOfFirst(o, n, rules) = {}
          BY <1>5, <4>2, <5>3, Zenon DEF ChannelsOfFirst, OperationsOfFirst
        <5> QED
          BY <5>1, <5>2, <5>4
      <4> QED
        BY <4>1, <4>2
    <3> HIDE DEF before
    <3>2. CASE o = operation
      <4>1. ChannelObject(tokens).channel = Token(tokens, 3)
        BY DEF ChannelObject
      <4>2. known'[o] = before \o <<ChannelObject(tokens)>>
        BY <2>3, <2>5, <3>2
      <4>3. /\ IsSequence(known'[o]) /\ known'[o] # <<>>
            /\ ChannelsIn(known'[o]) = ChannelsIn(before) \cup {Token(tokens, 3)}
        BY <3>1, <4>1, <4>2, OneChannelInMore
      <4> QED
        BY <2>1, <2>5, <3>1, <3>2, <4>3
    <3>3. CASE o # operation
      <4>1. o \in DOMAIN known /\ known'[o] = before \o <<>>
        BY <2>3, <2>5, <3>3
      <4>2. known'[o] = known[o]
        BY <3>1, <4>1, OneChannelInMore DEF before
      <4> QED
        BY <2>1, <2>2, <3>3, <4>1, <4>2
    <3> QED
      BY <3>2, <3>3
  <2> QED
    BY <2>4, <2>5
<1> QED
  BY <1>3, <1>4, <1>6, <1>8, <1>9, <1>10 DEF RulesInv

\* A stage receives the next rule, unless it lacks fields.
LEMMA StageKeepsRulesInv ==
  ASSUME RulesInv, create_housekeeping_rule
  PROVE  RulesInv'
<1>1. /\ HandshakeInv /\ RulesFromFile /\ ChannelsRead /\ RulesKept /\ StageRules
      /\ ChannelsKnown /\ RatesAfterRules
  BY DEF RulesInv
<1> DEFINE n == Len(stage)
           rule == rules[n + 1]
           tokens == parse_rule(rule)
           lacks == Short(tokens, IF IsChannel(tokens) THEN 8 ELSE 11)
           received == IF IsChannel(tokens) THEN fill_create_channel_rule(tokens)
                       ELSE fill_create_object_rule(tokens)
<1>2. /\ phase = "LocalHandshake" /\ Len(rules) = Len(strings) /\ n < Len(rules)
      /\ UNCHANGED <<file, raw, strings, active_ops, rules, operation_to_channel_object,
                     enforced, next>>
      /\ \/ lacks /\ phase' = "undefined" /\ stage' = stage
         \/ ~lacks /\ phase' = phase /\ stage' = Append(stage, received)
  BY DEF create_housekeeping_rule, Undefined
<1>3. HandshakeInv'
  <2>1. create_housekeeping_rule => Next
    BY DEF Next
  <2> QED
    BY <1>1, <2>1, HandshakeStep
<1>4. RulesFromFile' /\ ChannelsRead' /\ RulesKept' /\ ChannelsKnown'
  <2>1. RulesFromFile' /\ ChannelsRead'
    BY <1>1, <1>2 DEF RulesFromFile, ChannelsRead
  <2>2. RulesKept'
    BY <1>1, <1>2 DEF RulesKept, Parsing
  <2>3. ChannelsKnown'
    BY <1>1, <1>2 DEF ChannelsKnown
  <2> QED
    BY <2>1, <2>2, <2>3
<1>5. /\ IsSequence(stage) /\ n \in Nat /\ Len(rules) \in Nat
      /\ n + 1 \in 1..Len(strings) /\ rule = strings[n + 1]
  <2>1. IsSequence(stage) /\ n \in Nat /\ Len(rules) \in Nat
    BY <1>1, LengthOfSequence DEF StageRules, RulesKept
  <2> QED
    BY <1>1, <1>2, <2>1 DEF RulesKept
<1>6. MissingTokensExplained'
  <2>1. CASE phase' # "undefined"
    BY <2>1, Zenon DEF MissingTokensExplained
  <2>2. CASE phase' = "undefined"
    <3>1. lacks
      BY <1>2, <2>2
    <3>2. \E k \in 1..Len(file) :
            /\ Len(file[k]) >= 7
            /\ (IF file[k][2] = "create_channel" THEN file[k][4] ELSE file[k][5])
                   \notin ToSet(ContextType)
      BY <1>1, <1>5, <3>1, LackingFields
    <3> QED
      BY <1>1, <1>2, <3>2, Explains
  <2> QED
    BY <2>1, <2>2
<1>7. StageRules'
  <2>1. CASE stage' = stage
    BY <1>1, <1>2, <2>1 DEF StageRules
  <2>2. CASE ~lacks /\ stage' = Append(stage, received)
    <3>1. Received(rule, received)
      BY <2>2 DEF Received
    <3> HIDE DEF rule, tokens, lacks, received
    <3>2. IsSequence(stage') /\ Len(stage') = n + 1
      BY <1>5, <2>2, AppendIsSequence
    <3>3. stage'[n + 1] = received /\ \A i \in 1..n : stage'[i] = stage[i]
      BY <1>5, <2>2, AppendElements
    <3>4. \A i \in 1..(n + 1) : Received(rules[i], stage'[i])
      <4>1. \A i \in 1..n : Received(rules[i], stage'[i])
        BY <1>1, <3>3 DEF StageRules
      <4>2. Received(rules[n + 1], stage'[n + 1])
        BY <3>1, <3>3 DEF rule
      <4> QED
        BY <1>5, <4>1, <4>2
    <3> HIDE DEF n
    <3> QED
      BY <1>2, <1>5, <3>2, <3>4 DEF StageRules
  <2> QED
    BY <1>2, <2>1, <2>2
<1>8. RatesAfterRules'
  <2>1. enforced = NoEnforcement
    BY <1>1, <1>2, <1>5 DEF RatesAfterRules
  <2>2. RateSplitAmongChannels'
    BY <1>2, <2>1, Zenon DEF RateSplitAmongChannels
  <2> QED
    BY <1>2, <2>1, <2>2 DEF RatesAfterRules
<1> QED
  BY <1>3, <1>4, <1>6, <1>7, <1>8 DEF RulesInv

\* The sum of equal limits.
LEMMA EqualLimits ==
  ASSUME NEW n \in Nat, NEW c \in Int, NEW limits, limits = [i \in 1..n |-> c]
  PROVE  SumFunction(limits) = n * c
<1> DEFINE D == 1..n
           none == [i \in D |-> 0]
<1>1. IsFiniteSet(D) /\ Cardinality(D) = n
  BY FS_Interval
<1>2. DOMAIN limits = D /\ \A i \in D : none[i] \in Int /\ limits[i] = none[i] + c
  OBVIOUS
<1>3. \A i \in D : none[i] \in Int /\ none[i] = none[i] + none[i]
  OBVIOUS
<1> HIDE DEF D, none
<1>4. SumFunctionOnSet(none, D) = 0
  <2>1. SumFunctionOnSet(none, D) \in Int
    BY <1>1, <1>2, SumType
  <2>2. SumFunctionOnSet(none, D) = SumFunctionOnSet(none, D) + SumFunctionOnSet(none, D)
    BY <1>1, <1>3, SumAdded
  <2> QED
    BY <2>1, <2>2
<1>5. SumFunctionOnSet(limits, D) = SumFunctionOnSet(none, D) + Cardinality(D) * c
  <2>1. IsFiniteSet(D) /\ c \in Int /\ \A x \in D : none[x] \in Int /\ limits[x] = none[x] + c
    BY <1>1, <1>2
  <2> QED
    BY ONLY <2>1, SumRaised
<1> QED
  BY <1>1, <1>2, <1>4, <1>5 DEF SumFunction

\* Equal parts of a rate leave less than one for each channel.
LEMMA EqualParts ==
  ASSUME NEW rate \in Nat, NEW n \in Nat, n > 0
  PROVE  /\ LimitPerChannel(rate, n) \in Int
         /\ rate - n * LimitPerChannel(rate, n) \in 0..(n - 1)
<1>1. LimitPerChannel(rate, n) = rate \div n
  BY DEF LimitPerChannel
<1>2. /\ rate \div n \in Int
      /\ n * (rate \div n) <= rate
      /\ rate < n * (rate \div n) + n
  OBVIOUS
<1>3. n * (rate \div n) \in Int
  BY <1>2
<1> QED
  BY <1>1, <1>2, <1>3

\* The channels that serve an operation for the controllers are those of the stage.
LEMMA ChannelsOfStage ==
  ASSUME RulesFromFile, RulesKept, StageRules, Len(stage) = Len(strings),
         NEW operation, operation # "delete_"
  PROVE  ChannelsOfFirst(operation, Len(rules), rules) =
            {stage[i].m_channel_id : i \in {k \in DOMAIN stage :
                /\ stage[k].m_rule_type = "create_channel"
                /\ Serves(raw[k]) # "delete_"
                /\ Serves(stage[k]) = operation}}
<1> DEFINE n == Len(rules)
<1>1. /\ Len(stage) = n /\ Len(strings) = n /\ n \in Nat
      /\ DOMAIN stage = 1..n
  <2>1. n \in Nat /\ Len(stage) \in Nat /\ DOMAIN stage = 1..Len(stage)
    BY LengthOfSequence DEF StageRules, RulesKept
  <2> QED
    BY <2>1 DEF StageRules, RulesKept
<1> HIDE DEF n
<1>2. ASSUME NEW i \in 1..n
      PROVE  /\ (IsChannel(parse_rule(rules[i])) /\ OperationOf(parse_rule(rules[i])) = operation)
                <=> /\ stage[i].m_rule_type = "create_channel"
                    /\ Serves(raw[i]) # "delete_"
                    /\ Serves(stage[i]) = operation
             /\ IsChannel(parse_rule(rules[i])) =>
                   stage[i].m_channel_id = Token(parse_rule(rules[i]), 3)
  <2> DEFINE s == strings[i]
  <2>1. rules[i] = s /\ Received(s, stage[i])
    BY <1>1 DEF RulesKept, StageRules, n
  <2>2. PICK k \in 1..Len(file) :
           /\ file[k] \in Seq(Words)
           /\ ChannelFrom(file[k], raw[i], s) \/ ObjectFrom(file[k], raw[i], s)
    BY <1>1, StringFromFile
  <2> HIDE DEF s
  <2>3. /\ stage[i].m_rule_type = "create_channel" <=> IsChannel(parse_rule(s))
        /\ IsChannel(parse_rule(s)) =>
              /\ stage[i].m_channel_id = Token(parse_rule(s), 3)
              /\ OperationOf(parse_rule(s)) = "delete_" <=> Serves(raw[i]) = "delete_"
              /\ OperationOf(parse_rule(s)) # "delete_" =>
                    Serves(stage[i]) = OperationOf(parse_rule(s))
    BY <2>1, <2>2, RuleArrives
  <2> QED
    BY <2>1, <2>3
<1> DEFINE Known == {k \in 1..n :
               IsChannel(parse_rule(rules[k])) /\ OperationOf(parse_rule(rules[k])) = operation}
           Served == {k \in 1..n : /\ stage[k].m_rule_type = "create_channel"
                                   /\ Serves(raw[k]) # "delete_"
                                   /\ Serves(stage[k]) = operation}
<1>3. Known = Served
  BY <1>2, Zenon
<1>4. \A k \in Known : stage[k].m_channel_id = Token(parse_rule(rules[k]), 3)
  BY <1>2, Zenon
<1>5. ChannelsOfFirst(operation, n, rules) = {Token(parse_rule(rules[k]), 3) : k \in Known}
  BY Zenon DEF ChannelsOfFirst
<1> HIDE DEF Known
<1>6. {Token(parse_rule(rules[k]), 3) : k \in Known} = {stage[k].m_channel_id : k \in Known}
  BY <1>4, Zenon
<1> QED
  BY <1>1, <1>3, <1>5, <1>6, Zenon DEF n

\* RateSplitAmongChannels of some enforcement rules, rule strings and stage.
Split(e, r, t) ==
    e # NoEnforcement /\ e.operation # "delete_" =>
        /\ {e.rules[i].m_channel_id : i \in DOMAIN e.rules}
             = {t[i].m_channel_id : i \in {k \in DOMAIN t :
                   /\ t[k].m_rule_type = "create_channel"
                   /\ Serves(r[k]) # "delete_"
                   /\ Serves(t[k]) = e.operation}}
        /\ e.rate - SumFunction([i \in DOMAIN e.rules |-> e.rules[i].m_property_first])
             \in 0..(Len([i \in DOMAIN e.rules |-> e.rules[i].m_property_first]) - 1)

LEMMA SplitNow == RateSplitAmongChannels <=> Split(enforced, raw, stage)
BY Zenon DEF RateSplitAmongChannels, Split

LEMMA SplitNext == RateSplitAmongChannels' <=> Split(enforced', raw', stage')
BY Zenon DEF RateSplitAmongChannels, Split

\* A rate is divided among the channels of its operation.
LEMMA EnforcementKeepsRulesInv ==
  ASSUME RulesInv, NEW operation \in active_ops, NEW rate \in Rates,
         CreateEnforcementRule(operation, rate)
  PROVE  RulesInv'
<1>1. /\ HandshakeInv /\ RulesFromFile /\ ChannelsRead /\ RulesKept /\ StageRules
      /\ ChannelsKnown /\ RatesAfterRules /\ MissingTokensExplained
  BY DEF RulesInv
<1> DEFINE channels == operation_to_channel_object[operation]
           n == Len(channels)
           limit == LimitPerChannel(rate, n)
           R == [i \in DOMAIN channels |-> fill_enforcement_rule(channels[i], limit)]
<1>2. /\ phase = "LocalHandshake" /\ Len(stage) = Len(strings)
      /\ UNCHANGED <<file, raw, strings, active_ops, rules, operation_to_channel_object,
                     stage, next, phase>>
  BY DEF CreateEnforcementRule
<1>3. HandshakeInv'
  <2>1. Next
    BY DEF Next
  <2> QED
    BY <1>1, <2>1, HandshakeStep
<1>4. /\ RulesFromFile' /\ ChannelsRead' /\ RulesKept' /\ StageRules' /\ ChannelsKnown'
      /\ MissingTokensExplained'
  <2>1. RulesFromFile' /\ ChannelsRead'
    BY <1>1, <1>2 DEF RulesFromFile, ChannelsRead
  <2>2. RulesKept' /\ StageRules'
    BY <1>1, <1>2 DEF RulesKept, StageRules
  <2>3. ChannelsKnown'
    BY <1>1, <1>2 DEF ChannelsKnown
  <2>4. phase' # "undefined"
    BY <1>2
  <2> QED
    BY <2>1, <2>2, <2>3, <2>4, Zenon DEF MissingTokensExplained
<1>5. Len(rules) = Len(strings)
  <2>1. Len(rules) \in Nat /\ Len(stage) \in Nat
    BY <1>1, LengthOfSequence DEF RulesKept, StageRules
  <2> QED
    BY <1>1, <1>2, <2>1 DEF RulesKept, StageRules
<1>6. operation \in DOMAIN operation_to_channel_object
  BY <1>1, <1>2, <1>5 DEF HandshakeInv
<1>7. /\ IsSequence(channels) /\ channels # <<>>
      /\ {channels[i].channel : i \in DOMAIN channels}
            = ChannelsOfFirst(operation, Len(rules), rules)
  BY <1>1, <1>6, Zenon DEF ChannelsKnown
<1>8. enforced' = [operation |-> operation, rate |-> rate, rules |-> R]
  BY <1>6 DEF CreateEnforcementRule
<1> HIDE DEF channels
<1>9. n \in Nat /\ n > 0 /\ DOMAIN channels = 1..n
  <2>1. n \in Nat /\ DOMAIN channels = 1..n
    BY <1>7, LengthOfSequence
  <2>2. n # 0
    <3>1. PICK S : channels \in Seq(S)
      BY <1>7 DEF IsSequence
    <3> QED
      BY <1>7, <3>1, EmptySeq
  <2> QED
    BY <2>1, <2>2
<1> HIDE DEF n
<1>10. limit \in Int /\ rate - n * limit \in 0..(n - 1)
  BY <1>9, RatesAssumption, EqualParts
<1> HIDE DEF limit
<1>11. /\ DOMAIN R = 1..n
       /\ \A i \in 1..n : R[i].m_channel_id = channels[i].channel /\ R[i].m_property_first = limit
  BY <1>9 DEF fill_enforcement_rule
<1> HIDE DEF R
<1> DEFINE limits == [i \in DOMAIN R |-> R[i].m_property_first]
<1>12. limits = [i \in 1..n |-> limit]
  BY <1>11
<1>13. SumFunction(limits) = n * limit /\ Len(limits) = n
  <2>1. Len([i \in 1..n |-> limit]) = n
    BY <1>9
  <2> HIDE DEF limits
  <2> QED
    BY <1>9, <1>10, <1>12, <2>1, EqualLimits
<1> HIDE DEF limits
<1>14. rate - SumFunction(limits) \in 0..(Len(limits) - 1)
  BY <1>10, <1>13
<1>15. {R[i].m_channel_id : i \in DOMAIN R} = ChannelsOfFirst(operation, Len(rules), rules)
  BY <1>7, <1>9, <1>11, Zenon
<1>16. RateSplitAmongChannels'
  <2> DEFINE e == [operation |-> operation, rate |-> rate, rules |-> R]
  <2>1. e.operation = operation /\ e.rate = rate /\ e.rules = R
    OBVIOUS
  <2> HIDE DEF e
  <2>2. operation # "delete_" =>
          /\ {R[i].m_channel_id : i \in DOMAIN R}
               = {stage[i].m_channel_id : i \in {k \in DOMAIN stage :
                     /\ stage[k].m_rule_type = "create_channel"
                     /\ Serves(raw[k]) # "delete_"
                     /\ Serves(stage[k]) = operation}}
          /\ rate - SumFunction(limits) \in 0..(Len(limits) - 1)
    BY <1>1, <1>2, <1>14, <1>15, ChannelsOfStage
  <2>3. Split(e, raw, stage)
    BY <2>1, <2>2, Zenon DEF Split, limits
  <2>4. enforced' = e /\ raw' = raw /\ stage' = stage
    BY <1>2, <1>8 DEF e
  <2> QED
    BY <2>3, <2>4, SplitNext, Zenon
<1>17. RatesAfterRules'
  BY <1>2, <1>16 DEF RatesAfterRules
<1> QED
  BY <1>3, <1>4, <1>17 DEF RulesInv

\* It holds before the parser starts.
LEMMA RulesInit == Init => RulesInv
<1> SUFFICES ASSUME Init PROVE RulesInv
  OBVIOUS
<1>1. HandshakeInv
  BY HandshakeInit
<1>2. /\ raw = <<>> /\ strings = <<>> /\ rules = <<>> /\ stage = <<>>
      /\ operation_to_channel_object = <<>> /\ enforced = NoEnforcement
      /\ next = 1 /\ phase = "get_create_channel_rules" /\ file \in Seq(Seq(Words))
  BY FilesAssumption DEF Init
<1>3. IsSequence(<<>>) /\ Len(<<>>) = 0
  BY EmptySeq DEF IsSequence
<1>4. RulesFromFile /\ RulesKept /\ StageRules /\ ChannelsKnown
  BY <1>2, <1>3 DEF RulesFromFile, RulesKept, StageRules, ChannelsKnown
<1>5. ChannelsRead
  BY <1>2 DEF ChannelsRead
<1>6. MissingTokensExplained
  <2>1. phase # "undefined"
    BY <1>2
  <2> QED
    BY <2>1, Zenon DEF MissingTokensExplained
<1>7. RatesAfterRules
  <2>1. RateSplitAmongChannels
    BY <1>2, Zenon DEF RateSplitAmongChannels
  <2> QED
    BY <1>2, <2>1 DEF RatesAfterRules
<1> QED
  BY <1>1, <1>4, <1>5, <1>6, <1>7 DEF RulesInv

\* A step of the program, or a stutter, keeps RulesInv.
LEMMA RulesStep == RulesInv /\ [Next]_vars => RulesInv'
<1> SUFFICES ASSUME RulesInv, [Next]_vars
             PROVE  RulesInv'
  OBVIOUS
<1>1. CASE get_create_channel_rules
  BY <1>1, ChannelsKeepRulesInv
<1>2. CASE get_create_object_rules
  BY <1>2, ObjectsKeepRulesInv
<1>3. CASE initialize
  BY <1>3, InitializeKeepsRulesInv
<1>4. CASE LocalHandshake
  BY <1>4, LocalHandshakeKeepsRulesInv
<1>5. CASE create_housekeeping_rule
  BY <1>5, StageKeepsRulesInv
<1>6. ASSUME NEW operation \in active_ops, NEW rate \in Rates,
             CreateEnforcementRule(operation, rate)
      PROVE  RulesInv'
  BY <1>6, EnforcementKeepsRulesInv
<1>7. CASE UNCHANGED vars
  <2>1. HandshakeInv'
    BY <1>7, HandshakeStep DEF RulesInv
  <2>2. RulesFromFile' /\ ChannelsRead'
    BY <1>7 DEF RulesInv, RulesFromFile, ChannelsRead, vars
  <2>3. RulesKept' /\ StageRules'
    BY <1>7 DEF RulesInv, RulesKept, StageRules, vars
  <2>4. ChannelsKnown'
    BY <1>7 DEF RulesInv, ChannelsKnown, vars
  <2>5. MissingTokensExplained'
    BY <1>7, Zenon DEF RulesInv, MissingTokensExplained, vars
  <2>6. RateSplitAmongChannels'
    <3>1. RateSplitAmongChannels
      BY DEF RulesInv, RatesAfterRules
    <3>2. enforced' = enforced /\ raw' = raw /\ stage' = stage
      BY <1>7 DEF vars
    <3> QED
      BY <3>1, <3>2, SplitNow, SplitNext, Zenon
  <2>7. RatesAfterRules'
    BY <1>7, <2>6 DEF RulesInv, RatesAfterRules, vars
  <2> QED
    BY <2>1, <2>2, <2>3, <2>4, <2>5, <2>7 DEF RulesInv
<1> QED
  BY <1>1, <1>2, <1>3, <1>4, <1>5, <1>6, <1>7 DEF Next
-------------------------------------------------------------------------------
(* The theorems.                                                              *)

\* For every rules file: once all rules have arrived, the operations that the
\* core controller may enforce are those that the local controller knows.
THEOREM EveryFileOperationsAgree == Spec => []OperationsAgree
<1>1. HandshakeInv => OperationsAgree
  BY DEF HandshakeInv, OperationsAgree
<1> QED
  BY <1>1, HandshakeInit, HandshakeStep, PTL DEF Spec

\* For every rules file: a stage receives each rule as the parser read it, after
\* two conversions to text and back (RulesFileParser, PolicyGenerator,
\* PAIOInterface::create_housekeeping_rule), unless the text has no name for its
\* operation.
THEOREM EveryRuleArrivesAsRead == Spec => []RulesArriveAsRead
<1>1. RulesInv => RulesArriveAsRead
  <2> SUFFICES ASSUME RulesInv, NEW i \in DOMAIN stage, Preserved(raw[i])
               PROVE  stage[i] = raw[i]
    BY DEF RulesArriveAsRead
  <2>1. RulesFromFile /\ RulesKept /\ StageRules
    BY DEF RulesInv
  <2>2. i \in 1..Len(stage) /\ i \in 1..Len(rules) /\ i \in 1..Len(strings)
    <3>1. Len(stage) \in Nat /\ DOMAIN stage = 1..Len(stage) /\ Len(rules) \in Nat
          /\ Len(strings) \in Nat
      BY <2>1, LengthOfSequence DEF RulesFromFile, RulesKept, StageRules
    <3> QED
      BY <2>1, <3>1 DEF RulesKept, StageRules
  <2>3. Received(strings[i], stage[i])
    BY <2>1, <2>2 DEF RulesKept, StageRules
  <2>4. PICK k \in 1..Len(file) :
           /\ file[k] \in Seq(Words)
           /\ ChannelFrom(file[k], raw[i], strings[i]) \/ ObjectFrom(file[k], raw[i], strings[i])
    BY <2>1, <2>2, StringFromFile
  <2> QED
    BY <2>3, <2>4, RuleArrives
<1> QED
  BY <1>1, RulesInit, RulesStep, PTL DEF Spec

\* For every rules file: a controller or a stage reads a token that is not there
\* (get_create_channel_rules, get_create_object_rules, LocalHandshake,
\* PAIOInterface::fill_create_channel_rule) only if the file has a blank line, an
\* object that lacks properties, an unknown context, or no channel at all.
THEOREM EveryMissingTokenExplained == Spec => []MissingTokensExplained
<1>1. RulesInv => MissingTokensExplained
  BY DEF RulesInv
<1> QED
  BY <1>1, RulesInit, RulesStep, PTL DEF Spec

\* For every rules file and every rate: CreateEnforcementRule sends a part of the
\* rate to each channel that the stage created for the operation and to no other,
\* and the parts add up to the rate but for a remainder below their number.
THEOREM EveryRateSplit == Spec => []RateSplitAmongChannels
<1>1. RulesInv => RateSplitAmongChannels
  BY DEF RulesInv, RatesAfterRules
<1> QED
  BY <1>1, RulesInit, RulesStep, PTL DEF Spec
===============================================================================
