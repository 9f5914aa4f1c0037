---------------------------- MODULE RulesFileParser ----------------------------
(* The conversions between the names of a housekeeping rules file and the     *)
(* values that the controllers and the data plane stages exchange: the static *)
(* functions of RulesFileParser and the enumerations they convert to.         *)
(* An enumeration is the sequence of its enumerators, in the order of their   *)
(* values from 1 on; no_op is 0 in every one of them.                         *)
EXTENDS Integers, Sequences, SequencesExt

-------------------------------------------------------------------------------
(* context_propagation_definitions.hpp                                        *)

PAIO_GENERAL == <<"foreground", "background", "high_priority", "low_priority">>

LSM_KVS_DETAILED ==
    <<"bg_flush", "bg_compaction", "bg_compaction_L0_L0", "bg_compaction_L0_L1",
      "bg_compaction_L1_L2", "bg_compaction_L2_L3", "bg_compaction_LN", "foreground">>

LSM_KVS_SIMPLE ==
    <<"bg_flush", "bg_compaction_high_priority", "bg_compaction_low_priority",
      "foreground", "background">>

POSIX ==
    <<"read", "write", "pread", "pwrite", "pread64", "pwrite64", "fread", "fwrite",
      "open", "open64", "creat", "creat64", "openat", "close", "fsync", "fdatasync",
      "sync", "syncfs", "truncate", "truncate64", "ftruncate", "ftruncate64",
      "xstat", "xstat64", "lxstat", "lxstat64", "fxstat", "fxstat64", "fxstatat",
      "fxstatat64", "statfs", "statfs64", "fstatfs", "fstatfs64", "link", "linkat",
      "unlink", "unlinkat", "rename", "renameat", "symlink", "symlinkat", "readlink",
      "readlinkat", "fopen", "fopen64", "fdopen", "freopen", "freopen64", "fclose",
      "fflush", "access", "faccessat", "lseek", "lseek64", "fseek", "fseek64",
      "ftell", "fseeko", "fseeko64", "ftello", "ftello64", "mkdir", "mkdirat",
      "readdir", "readdir64", "opendir", "fdopendir", "closedir", "rmdir", "dirfd",
      "getxattr", "lgetxattr", "fgetxattr", "setxattr", "lsetxattr", "fsetxattr",
      "listxattr", "llistxattr", "flistxattr", "removexattr", "lremovexattr",
      "fremovexattr", "chmod", "fchmod", "fchmodat", "chown", "lchown", "fchown",
      "fchownat", "mknod", "mknodat", "mmap", "munmap", "data", "metadata", "total">>

POSIX_META ==
    <<"foreground", "background", "high_priority", "med_priority", "low_priority",
      "data_op", "meta_op", "dir_op", "ext_attr_op", "file_mod_op">>

KVS == <<"put", "get", "new_iterator", "delete_", "write", "get_snapshot",
         "get_property", "get_approximate_size", "compact_range">>

-------------------------------------------------------------------------------
(* From names to values: the names that the cases of each switch accept.      *)
(* Any other name is no_op.                                                   *)

ValueOf(enumeration, name) ==
    IF Contains(enumeration, name)
    THEN CHOOSE value \in DOMAIN enumeration : enumeration[value] = name
    ELSE 0

convert_paio_general_definitions(name) == ValueOf(PAIO_GENERAL, name)

convert_posix_lsm_simple_definitions(name) ==
    IF name = "background" THEN 0 ELSE ValueOf(LSM_KVS_SIMPLE, name)

convert_posix_lsm_detailed_definitions(name) == ValueOf(LSM_KVS_DETAILED, name)

convert_posix_definitions(name) ==
    IF name \in {"fdopen", "mknod", "mknodat", "mmap", "munmap"} THEN 0
    ELSE ValueOf(POSIX, name)

convert_posix_meta_definitions(name) == ValueOf(POSIX_META, name)

\* A C++ enumerator cannot be named delete.
convert_kvs_definitions(name) ==
    CASE name = "delete"  -> ValueOf(KVS, "delete_")
      [] name = "delete_" -> 0
      [] OTHER            -> ValueOf(KVS, name)

\* Mutant: the contexts of a key-value store are mixed up.
convert_differentiation_definitions_Swap(context_type, name) ==
    CASE context_type = "general"          -> convert_paio_general_definitions(name)
      [] context_type = "posix"            -> convert_posix_definitions(name)
      [] context_type = "posix_meta"       -> convert_posix_meta_definitions(name)
      [] context_type = "lsm_kvs_simple"   -> convert_posix_lsm_detailed_definitions(name)
      [] context_type = "lsm_kvs_detailed" -> convert_posix_lsm_detailed_definitions(name)
      [] context_type = "kvs"              -> convert_kvs_definitions(name)
      [] OTHER                             -> -1

convert_differentiation_definitions(context_type, name) ==
    CASE context_type = "general"          -> convert_paio_general_definitions(name)
      [] context_type = "posix"            -> convert_posix_definitions(name)
      [] context_type = "posix_meta"       -> convert_posix_meta_definitions(name)
      [] context_type = "lsm_kvs_simple"   -> convert_posix_lsm_simple_definitions(name)
      [] context_type = "lsm_kvs_detailed" -> convert_posix_lsm_detailed_definitions(name)
      [] context_type = "kvs"              -> convert_kvs_definitions(name)
      [] OTHER                             -> -1

\* ContextType starts at 0.
ContextType == <<"general", "posix", "posix_meta", "lsm_kvs_simple", "lsm_kvs_detailed", "kvs">>

\* ValueOf an unknown context is 0: hence -1.
convert_context_type_definition(context_type) == ValueOf(ContextType, context_type) - 1

HousekeepingOperation == {"create_channel", "create_object"}

convert_housekeeping_operation(operation) ==
    IF operation \in HousekeepingOperation THEN operation ELSE "no_op"

\* EnforcementObjectType: drl or none.
convert_object_type(object_type) == IF object_type = "drl" THEN "drl" ELSE "noop"

convert_enforcement_operation(object_type, operation) ==
    CASE object_type = "drl" /\ operation = "init"   -> 1
      [] object_type = "drl" /\ operation = "rate"   -> 2
      [] object_type = "drl" /\ operation = "refill" -> 4
      [] OTHER                                       -> 0

-------------------------------------------------------------------------------
(* From values to names: the cases of the reverse switches.                   *)

NameOf(enumeration, value) == IF value \in DOMAIN enumeration THEN enumeration[value] ELSE "no_op"

paio_general_string(value) == NameOf(PAIO_GENERAL, value)

posix_lsm_simple_string(value) == NameOf(SubSeq(LSM_KVS_SIMPLE, 1, 4), value)

posix_lsm_detailed_string(value) == NameOf(LSM_KVS_DETAILED, value)

PrintedPosix ==
    {"read", "write", "pread", "pwrite", "pread64", "pwrite64", "open", "close",
     "getxattr", "rename", "setxattr", "mkdir", "mknod", "rmdir", "statfs", "sync",
     "unlink", "data", "metadata", "total"}

posix_string(value) ==
    IF NameOf(POSIX, value) \in PrintedPosix THEN NameOf(POSIX, value) ELSE "no_op"

posix_meta_string(value) == NameOf(POSIX_META, value)

kvs_string(value) == NameOf(KVS, value)

\* context is a ContextType value; a value of no enumeration has an empty name.
differentiation_string(context, value) ==
    CASE context = 0 -> paio_general_string(value)
      [] context = 1 -> posix_string(value)
      [] context = 2 -> posix_meta_string(value)
      [] context = 3 -> posix_lsm_simple_string(value)
      [] context = 4 -> posix_lsm_detailed_string(value)
      [] context = 5 -> kvs_string(value)
      [] OTHER       -> ""

context_type_string(context) ==
    IF context + 1 \in DOMAIN ContextType THEN ContextType[context + 1] ELSE "noop"
===============================================================================
