----------------------------- MODULE Housekeeping -----------------------------
(* The way of the housekeeping rules from a file to the data plane stages:    *)
(* the core controller's RulesFileParser reads them, PolicyGenerator turns    *)
(* each into a string of fields between '|', initialize and LocalHandshake    *)
(* take the operations from the strings, and PAIOInterface turns them back    *)
(* into what the stages receive; then the enforcement rules that follow them. *)
(*                                                                            *)
(* A line is the sequence of its tokens and a string that of its fields.      *)
(* Numbers are well formed and stay text.  operator[] beyond the end of a     *)
(* std::vector is undefined: the model stops there.                           *)
EXTENDS Integers, Sequences, SequencesExt, RulesFileParser

CONSTANTS
    Files,      \* the contents of the rules file: sequences of lines
    Rates       \* the rates, in IOPS, that the core enforces on an operation

ASSUME RatesAssumption == Rates \subseteq Nat

\* RulesFileParser::parse_rule splits a line at the spaces and drops empty tokens.
Words == STRING \ {""}

ASSUME FilesAssumption == \A f \in Files : f \in Seq(Seq(Words))

VARIABLES
    file,       \* m_staged_rules: the tokens of each line
    raw,        \* the rules that the parser made of them
    strings,    \* the same as sequences of fields (m_housekeeping_rules)
    active_ops, \* the operations that the core controller knows
    rules,      \* *housekeeping_rules_ptr_ of the local controller
    operation_to_channel_object,    \* its channels and objects per operation
    stage,      \* the rules that a data plane stage received
    enforced,   \* the last enforcement: operation, rate, rules for the stage
    next,       \* the line that the parser looks at
    phase       \* the function that runs, or "undefined"

vars == <<file, raw, strings, active_ops, rules, operation_to_channel_object, stage,
          enforced, next, phase>>

NoEnforcement == [operation |-> "", rate |-> 0, rules |-> <<>>]

Init ==
    /\ file \in Files
    /\ raw = <<>>
    /\ strings = <<>>
    /\ active_ops = {}
    /\ rules = <<>>
    /\ operation_to_channel_object = <<>>
    /\ stage = <<>>
    /\ enforced = NoEnforcement
    /\ next = 1
    /\ phase = "get_create_channel_rules"

\* Token i of a vector, counted from 0 as the code does.
Token(tokens, i) == tokens[i + 1]
Short(tokens, n) == Len(tokens) < n

\* parse_rule and parse_rule_with_break drop empty fields.
parse_rule(fields) ==
    LET kept[i \in 0..Len(fields)] ==
            IF i = 0 THEN <<>>
            ELSE IF fields[i] # "" THEN Append(kept[i - 1], fields[i]) ELSE kept[i - 1]
    IN kept[Len(fields)]

-------------------------------------------------------------------------------
(* Controller::RegisterHousekeepingRules: channels first, then objects.       *)

m_create_channel_rules_min_elements == 7
m_create_object_rules_min_elements == 8

HousekeepingCreateChannelRaw(line) ==
    [m_rule_id            |-> Token(line, 0),
     m_rule_type          |-> "create_channel",
     m_channel_id         |-> Token(line, 2),
     m_context_definition |-> convert_context_type_definition(Token(line, 3)),
     m_workflow_id        |-> Token(line, 4),
     m_operation_type     |-> convert_differentiation_definitions(Token(line, 3), Token(line, 5)),
     m_operation_context  |-> convert_differentiation_definitions(Token(line, 3), Token(line, 6))]

HousekeepingCreateObjectRaw(line) ==
    [m_rule_id                 |-> Token(line, 0),
     m_rule_type               |-> "create_object",
     m_channel_id              |-> Token(line, 2),
     m_enforcement_object_id   |-> Token(line, 3),
     m_context_definition      |-> convert_context_type_definition(Token(line, 4)),
     m_operation_type          |-> convert_differentiation_definitions(Token(line, 4), Token(line, 5)),
     m_operation_context       |-> convert_differentiation_definitions(Token(line, 4), Token(line, 6)),
     m_enforcement_object_type |-> convert_object_type(Token(line, 7)),
     m_property_first          |-> Token(line, 8),
     m_property_second         |-> Token(line, 9)]

convert_housekeeping_create_channel_string(r) ==
    <<"4", r.m_rule_id, "create_channel", r.m_channel_id,
      context_type_string(r.m_context_definition), r.m_workflow_id,
      differentiation_string(r.m_context_definition, r.m_operation_type),
      differentiation_string(r.m_context_definition, r.m_operation_context)>>

convert_housekeeping_create_object_string(r) ==
    <<"4", r.m_rule_id, "create_object", r.m_channel_id, r.m_enforcement_object_id,
      context_type_string(r.m_context_definition),
      differentiation_string(r.m_context_definition, r.m_operation_type),
      differentiation_string(r.m_context_definition, r.m_operation_context),
      r.m_enforcement_object_type, r.m_property_first, r.m_property_second>>

Undefined ==
    /\ phase' = "undefined"
    /\ UNCHANGED <<file, raw, strings, active_ops, rules, operation_to_channel_object,
                   stage, enforced, next>>

AddRule(rule, string) ==
    /\ raw' = Append(raw, rule)
    /\ strings' = Append(strings, string)

\* Mutant: the size that is checked does not cover the last token.
CompleteChannel_OffByOne(line) == ~Short(line, m_create_channel_rules_min_elements - 1)

CompleteChannel(line) == ~Short(line, m_create_channel_rules_min_elements)
CompleteObject(line) == ~Short(line, m_create_object_rules_min_elements)

\* One line of the file in the loop that makes rules of one type.  A line that
\* lacks elements is left out, but what is read beyond those that are checked
\* may be missing.
ReadLine(type, Complete(_), size, Raw(_), String(_)) ==
    LET line == file[next] IN
    /\ next <= Len(file)
    /\ \/ /\ Short(line, 2)
          /\ Undefined
       \/ /\ ~Short(line, 2)
          /\ convert_housekeeping_operation(Token(line, 1)) = type /\ Complete(line)
          /\ Short(line, size)
          /\ Undefined
       \/ /\ ~Short(line, 2)
          /\ \/ /\ convert_housekeeping_operation(Token(line, 1)) = type /\ Complete(line)
                /\ ~Short(line, size)
                /\ AddRule(Raw(line), String(Raw(line)))
             \/ /\ ~(convert_housekeeping_operation(Token(line, 1)) = type /\ Complete(line))
                /\ UNCHANGED <<raw, strings>>
          /\ next' = next + 1
          /\ UNCHANGED <<file, active_ops, rules, operation_to_channel_object, stage,
                         enforced, phase>>

LastLineRead(following) ==
    /\ next > Len(file)
    /\ next' = 1
    /\ phase' = following
    /\ UNCHANGED <<file, raw, strings, active_ops, rules, operation_to_channel_object,
                   stage, enforced>>

get_create_channel_rules ==
    /\ phase = "get_create_channel_rules"
    /\ \/ ReadLine("create_channel", CompleteChannel, 7, HousekeepingCreateChannelRaw,
                   convert_housekeeping_create_channel_string)
       \/ LastLineRead("get_create_object_rules")

\* Ten tokens are read of a line that has eight.
get_create_object_rules ==
    /\ phase = "get_create_object_rules"
    /\ \/ ReadLine("create_object", CompleteObject, 10, HousekeepingCreateObjectRaw,
                   convert_housekeeping_create_object_string)
       \/ LastLineRead("initialize")

-------------------------------------------------------------------------------
(* The controllers.                                                           *)

IsChannel(tokens) == Token(tokens, 2) = "create_channel"

OperationOf(tokens) ==
    IF Token(tokens, 6) = "no_op" THEN Token(tokens, 7) ELSE Token(tokens, 6)

\* Both controllers read the operation of a channel; an empty field shifts the
\* others.
MissingOperation(tokens) ==
    IsChannel(tokens) /\ (Short(tokens, 7) \/ (Token(tokens, 6) = "no_op" /\ Short(tokens, 8)))

\* Mutant: the context that replaces a missing operation is forgotten.
ActiveOps_NoContext(channels) == {Token(tokens, 6) : tokens \in channels}

ActiveOps(channels) == {OperationOf(tokens) : tokens \in channels}

\* CoreControlApplication::initialize; active_op is the first of active_ops.
initialize ==
    LET channels == {tokens \in {parse_rule(strings[i]) : i \in DOMAIN strings} : IsChannel(tokens)}
    IN
    /\ phase = "initialize"
    /\ IF channels = {} \/ \E tokens \in channels : MissingOperation(tokens)
       THEN Undefined
       ELSE /\ active_ops' = ActiveOps(channels)
            /\ phase' = "LocalHandshake"
            /\ UNCHANGED <<file, raw, strings, rules, operation_to_channel_object, stage,
                           enforced, next>>

ChannelObject(tokens) == [channel |-> Token(tokens, 3), object |-> "1"]

\* call_local_handshake joins the rules with ':', which no rule contains, and
\* fill_housekeeping_rules_grpc takes them apart.  The handler keeps each and
\* records its channel, with object 1, under its operation.
LocalHandshake ==
    LET rule      == strings[Len(rules) + 1]
        tokens    == parse_rule(rule)
        operation == OperationOf(tokens)
        known     == operation_to_channel_object
    IN
    /\ phase = "LocalHandshake"
    /\ Len(rules) < Len(strings)
    /\ rules' = Append(rules, rule)
    /\ operation_to_channel_object' =
           IF ~IsChannel(tokens) THEN known
           ELSE [o \in DOMAIN known \cup {operation} |->
                    (IF o \in DOMAIN known THEN known[o] ELSE <<>>)
                    \o (IF o = operation THEN <<ChannelObject(tokens)>> ELSE <<>>)]
    /\ UNCHANGED <<file, raw, strings, active_ops, stage, enforced, next, phase>>

fill_create_channel_rule(tokens) ==
    [m_rule_id            |-> Token(tokens, 1),
     m_rule_type          |-> "create_channel",
     m_channel_id         |-> Token(tokens, 3),
     m_context_definition |-> convert_context_type_definition(Token(tokens, 4)),
     m_workflow_id        |-> Token(tokens, 5),
     m_operation_type     |-> convert_differentiation_definitions(Token(tokens, 4), Token(tokens, 6)),
     m_operation_context  |-> convert_differentiation_definitions(Token(tokens, 4), Token(tokens, 7))]

fill_create_object_rule(tokens) ==
    [m_rule_id                 |-> Token(tokens, 1),
     m_rule_type               |-> "create_object",
     m_channel_id              |-> Token(tokens, 3),
     m_enforcement_object_id   |-> Token(tokens, 4),
     m_context_definition      |-> convert_context_type_definition(Token(tokens, 5)),
     m_operation_type          |-> convert_differentiation_definitions(Token(tokens, 5), Token(tokens, 6)),
     m_operation_context       |-> convert_differentiation_definitions(Token(tokens, 5), Token(tokens, 7)),
     m_enforcement_object_type |-> convert_object_type(Token(tokens, 8)),
     m_property_first          |-> Token(tokens, 9),
     m_property_second         |-> Token(tokens, 10)]

\* submit_housekeeping_rules, once all rules are there, and PAIOInterface's
\* create_housekeeping_rule for one of them.
create_housekeeping_rule ==
    LET tokens == parse_rule(rules[Len(stage) + 1]) IN
    /\ phase = "LocalHandshake"
    /\ Len(rules) = Len(strings)
    /\ Len(stage) < Len(rules)
    /\ IF Short(tokens, IF IsChannel(tokens) THEN 8 ELSE 11)
       THEN Undefined
       ELSE /\ stage' = Append(stage, IF IsChannel(tokens) THEN fill_create_channel_rule(tokens)
                                      ELSE fill_create_object_rule(tokens))
            /\ UNCHANGED <<file, raw, strings, active_ops, rules,
                           operation_to_channel_object, enforced, next, phase>>

\* Mutant: each channel gets the whole rate.
LimitPerChannel_Whole(rate, total_channels) == rate

LimitPerChannel(rate, total_channels) == IF total_channels > 0 THEN rate \div total_channels ELSE 0

fill_enforcement_rule(pair, limit) ==
    [m_channel_id            |-> pair.channel,
     m_enforcement_object_id |-> pair.object,
     m_enforcement_operation |-> convert_enforcement_operation(convert_object_type("drl"), "rate"),
     m_property_first        |-> limit]

\* The core enforces a rate on one of its operations; CreateEnforcementRule
\* makes a rule for every channel of the operation.
CreateEnforcementRule(operation, rate) ==
    /\ phase = "LocalHandshake"
    /\ Len(stage) = Len(strings)
    /\ operation \in active_ops
    /\ LET channels == IF operation \in DOMAIN operation_to_channel_object
                       THEN operation_to_channel_object[operation] ELSE <<>>
       IN enforced' = [operation |-> operation, rate |-> rate,
                       rules |-> [i \in DOMAIN channels |->
                           fill_enforcement_rule(channels[i], LimitPerChannel(rate, Len(channels)))]]
    /\ UNCHANGED <<file, raw, strings, active_ops, rules, operation_to_channel_object,
                   stage, next, phase>>

Next ==
    \/ get_create_channel_rules
    \/ get_create_object_rules
    \/ initialize
    \/ LocalHandshake
    \/ create_housekeeping_rule
    \/ \E operation \in active_ops, rate \in Rates : CreateEnforcementRule(operation, rate)

Spec == Init /\ [][Next]_vars
-------------------------------------------------------------------------------
(* Properties.                                                                *)

\* The definitions that the printed form loses: most POSIX operations, and the
\* key-value store's delete, which is printed as delete_.
Printable(context, value) ==
    CASE context = 1 -> value = 0 \/ NameOf(POSIX, value) \in PrintedPosix
      [] context = 5 -> NameOf(KVS, value) # "delete_"
      [] OTHER       -> TRUE

Preserved(r) ==
    /\ Printable(r.m_context_definition, r.m_operation_type)
    /\ Printable(r.m_context_definition, r.m_operation_context)

\* What a data plane stage receives is what the parser read, rule by rule: two
\* conversions to text, one transfer and two conversions back change nothing.
\* (RulesFileParser, PolicyGenerator and PAIOInterface each know the format.)
RulesArriveAsRead == \A i \in DOMAIN stage : Preserved(raw[i]) => stage[i] = raw[i]

\* The same for every rule, as the comments on the conversions have it: "from
\* string to long and vice-versa".
ConversionsInverse == \A i \in DOMAIN stage : stage[i] = raw[i]

\* Both controllers take the same operations from the rules: the core never
\* sends rates for an operation that the local controller does not know.
\* (initialize and LocalHandshake each parse the strings.)
OperationsAgree ==
    phase = "LocalHandshake" /\ Len(rules) = Len(strings)
        => active_ops = DOMAIN operation_to_channel_object

\* The operation that a channel serves, as its stage knows it.
Serves(r) ==
    LET Name(value) == differentiation_string(r.m_context_definition, value) IN
    IF r.m_operation_type = 0 THEN Name(r.m_operation_context) ELSE Name(r.m_operation_type)

\* A rate reaches exactly the channels that the stage created for the operation,
\* and together they get at most the rate and at least all but a remainder.
\* (CreateEnforcementRule divides by the channels that LocalHandshake counted.)
\* The key-value store's delete is left out: its stages know it as no_op, and take
\* a channel for it as one for the operation that its context names, if any.
RateSplitAmongChannels ==
    LET operation == enforced.operation
        limits    == [i \in DOMAIN enforced.rules |-> enforced.rules[i].m_property_first]
    IN
    enforced # NoEnforcement /\ operation # "delete_" =>
        /\ {enforced.rules[i].m_channel_id : i \in DOMAIN enforced.rules}
             = {stage[i].m_channel_id : i \in {k \in DOMAIN stage :
                   /\ stage[k].m_rule_type = "create_channel"
                   /\ Serves(raw[k]) # "delete_"
                   /\ Serves(stage[k]) = operation}}
        /\ enforced.rate - SumFunction(limits) \in 0..(Len(limits) - 1)

\* The only files that make a controller read a token that is not there: those
\* with a blank line, with an object that lacks its properties, with a context
\* that is not known, or without a channel.
\* (The sizes that get_create_channel_rules and get_create_object_rules check.)
MissingTokensExplained ==
    LET Complete(line, n) == Len(line) >= n
        ContextOf(line) == IF line[2] = "create_channel" THEN line[4] ELSE line[5]
    IN
    phase = "undefined" =>
        \/ \E i \in DOMAIN file : Len(file[i]) < 2
        \/ \E i \in DOMAIN file : file[i][2] = "create_object" /\ Len(file[i]) \in {8, 9}
        \/ \E i \in DOMAIN file :
               Complete(file[i], 7) /\ ContextOf(file[i]) \notin ToSet(ContextType)
        \/ ~\E i \in DOMAIN file : file[i][2] = "create_channel" /\ Complete(file[i], 7)

===============================================================================
