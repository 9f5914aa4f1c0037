---------------------------- MODULE MCHousekeeping ----------------------------
(* Housekeeping on rules files of the shape of those in files: channels   *)
(* and objects in any order, for every definition that the parser knows, and  *)
(* files that are incomplete.                                                 *)
EXTENDS Housekeeping

Channel(id, channel, context, type, op) ==
    <<id, "create_channel", channel, context, channel, type, op>>

Object(id, channel, object, context, type, op, kind) ==
    <<id, "create_object", channel, object, context, type, op, kind, "10000", "1073741824">>

Definitions ==
    ({"general"} \X (ToSet(PAIO_GENERAL) \cup {"no_op"}))
    \cup ({"posix"} \X (ToSet(POSIX) \cup {"no_op", "mds1"}))
    \cup ({"posix_meta"} \X (ToSet(POSIX_META) \cup {"metadata"}))
    \cup ({"lsm_kvs_simple"} \X (ToSet(LSM_KVS_SIMPLE) \cup {"no_op"}))
    \cup ({"lsm_kvs_detailed"} \X (ToSet(LSM_KVS_DETAILED) \cup {"no_op"}))
    \cup ({"kvs"} \X (ToSet(KVS) \cup {"delete"}))

\* A channel for every definition, which is the operation's type or its context,
\* next to a channel of one of the shipped files.
CompleteFiles ==
    {<<Object("3", "1000", "1", d[1], d[2], "no_op", "drl"),
       Channel("1", "1000", d[1], type, op),
       Channel("2", "2000", "posix", shipped, "no_op"),
       Object("4", "2000", "1", "posix", shipped, "no_op", "noop")>> :
          <<d, type, op, shipped>> \in
              UNION {({d} \X {d[2]} \X {"no_op"} \X {"metadata", "read"})
                     \cup ({d} \X {"no_op"} \X {d[2]} \X {"metadata"}) : d \in Definitions}}

\* posix_layer_housekeeping_rules_dynamic: one operation, several channels.
DynamicFile ==
    [i \in 1..3 |-> Channel("1", <<"1000", "2000", "3000">>[i], "posix", "metadata", "no_op")]
    \o [i \in 1..3 |-> Object("5", <<"1000", "2000", "3000">>[i], "1", "posix", "metadata",
                              "no_op", "drl")]

\* The key-value store's delete, as type or as context, next to what it is taken for.
DeleteFiles ==
    {<<Channel("1", "1000", "kvs", "delete", "get"), Channel("2", "2000", "kvs", "get", "no_op")>>,
     <<Channel("1", "1000", "kvs", "no_op", "delete"), Channel("2", "2000", "kvs", "no_op", "no_op")>>}

ReadChannel == Channel("1", "1000", "posix", "read", "no_op")
ReadObject == Object("2", "1000", "1", "posix", "no_op", "no_op", "drl")

IncompleteFiles ==
    {<<ReadChannel, <<>>>>, <<ReadObject>>,
     <<Channel("1", "1000", "ceph", "read", "no_op"), ReadObject>>,
     <<ReadChannel, Object("2", "1000", "1", "ceph", "read", "no_op", "drl")>>,
     <<ReadChannel, Object("2", "1000", "2", "posix", "read", "no_op", "drl")>>,
     <<ReadChannel, <<"2", "remove_channel", "1000">>>>}
    \cup {<<ReadChannel, SubSeq(ReadObject, 1, n)>> : n \in 6..9}
    \cup {<<SubSeq(ReadChannel, 1, n), ReadChannel>> : n \in 3..6}

MCFiles == CompleteFiles \cup {DynamicFile} \cup DeleteFiles \cup IncompleteFiles
===============================================================================
