---------------------------- MODULE TaskOpenAPI ----------------------------
(***************************************************************************)
(* pkg/generated/openapi/zz_generated.openapi.go: which models the schema  *)
(* of each model refers to, and which ones its OpenAPIDefinition lists as  *)
(* dependencies, each as its own lines of the file say.  The rest of a     *)
(* schema (types, formats, descriptions) has no part in how the documents  *)
(* are put together.                                                       *)
(*                                                                         *)
(* A model is named by its Go type.  Each table below stands for a block   *)
(* of consecutive functions of the file.                                   *)
(***************************************************************************)
EXTENDS TLC

\* The references of a schema, and the Dependencies returned with it: the file
\* writes them apart.
Schema(references, dependencies) == [refs |-> references, deps |-> dependencies]

\* Models whose schema refers to no other, and that return no Dependencies.
Plain(names) == [n \in names |-> Schema({}, {})]

TaskSchemas ==
  "Task" :> Schema({"ObjectMeta", "TaskSpec", "TaskStatus"},
                   {"TaskSpec", "TaskStatus", "ObjectMeta"}) @@
  "TaskList" :> Schema({"ListMeta", "Task"}, {"Task", "ListMeta"})

\* Slip: a reference that is not listed as a dependency.
UnlistedFieldSchemas ==
  "TaskStatus" :> Schema({"Condition"}, {}) @@
  Plain({"TaskSpec"})

TaskFieldSchemas ==
  "TaskStatus" :> Schema({"Condition"}, {"Condition"}) @@
  Plain({"TaskSpec"})

QuantitySchemas ==
  Plain({"Quantity"})

GroupSchemas ==
  "APIGroup" :> Schema({"GroupVersionForDiscovery", "ServerAddressByClientCIDR"},
                       {"GroupVersionForDiscovery", "ServerAddressByClientCIDR"}) @@
  "APIGroupList" :> Schema({"APIGroup"}, {"APIGroup"})

ResourceSchemas ==
  "APIResourceList" :> Schema({"APIResource"}, {"APIResource"}) @@
  Plain({"APIResource"})

ApplySchemas ==
  "APIVersions" :> Schema({"ServerAddressByClientCIDR"},
                          {"ServerAddressByClientCIDR"}) @@
  Plain({"ApplyOptions"})

ConditionSchemas ==
  "Condition" :> Schema({"Time"}, {"Time"}) @@
  Plain({"CreateOptions"})

DeleteSchemas ==
  "DeleteOptions" :> Schema({"Preconditions"}, {"Preconditions"}) @@
  Plain({"Duration", "FieldSelectorRequirement", "FieldsV1"})

GroupVersionSchemas ==
  Plain({"GetOptions", "GroupKind", "GroupResource", "GroupVersion"})

DiscoverySchemas ==
  Plain({"GroupVersionForDiscovery", "GroupVersionKind",
         "GroupVersionResource", "InternalEvent"})

SelectorSchemas ==
  "LabelSelector" :> Schema({"LabelSelectorRequirement"},
                            {"LabelSelectorRequirement"}) @@
  Plain({"LabelSelectorRequirement"})

ListSchemas ==
  "List" :> Schema({"ListMeta", "RawExtension"}, {"ListMeta", "RawExtension"}) @@
  "ListMeta" :> Schema({"ShardInfo"}, {"ShardInfo"})

ListOptionsSchemas ==
  Plain({"ListOptions"})

ManagedFieldsSchemas ==
  "ManagedFieldsEntry" :> Schema({"FieldsV1", "Time"}, {"FieldsV1", "Time"}) @@
  Plain({"MicroTime"})

ObjectMetaSchemas ==
  "ObjectMeta" :> Schema({"ManagedFieldsEntry", "OwnerReference", "Time"},
                         {"ManagedFieldsEntry", "OwnerReference", "Time"})

OwnerSchemas ==
  Plain({"OwnerReference"})

PartialSchemas ==
  "PartialObjectMetadata" :> Schema({"ObjectMeta"}, {"ObjectMeta"}) @@
  "PartialObjectMetadataList" :> Schema({"ListMeta", "PartialObjectMetadata"},
                                        {"ListMeta", "PartialObjectMetadata"})

PatchSchemas ==
  Plain({"Patch", "PatchOptions", "Preconditions"})

StatusSchemas ==
  "Status" :> Schema({"ListMeta", "StatusDetails"},
                     {"ListMeta", "StatusDetails"}) @@
  Plain({"RootPaths", "ServerAddressByClientCIDR", "ShardInfo"})

StatusDetailsSchemas ==
  "StatusDetails" :> Schema({"StatusCause"}, {"StatusCause"}) @@
  Plain({"StatusCause"})

TableSchemas ==
  "Table" :> Schema({"ListMeta", "TableColumnDefinition", "TableRow"},
                    {"ListMeta", "TableColumnDefinition", "TableRow"}) @@
  Plain({"TableColumnDefinition", "TableOptions"})

TableRowSchemas ==
  "TableRow" :> Schema({"RawExtension", "TableRowCondition"},
                       {"TableRowCondition", "RawExtension"}) @@
  Plain({"TableRowCondition"})

TimeSchemas ==
  Plain({"Time", "Timestamp", "TypeMeta"})

EventSchemas ==
  "WatchEvent" :> Schema({"RawExtension"}, {"RawExtension"}) @@
  Plain({"UpdateOptions", "RawExtension", "runtime.TypeMeta"})

InfoSchemas ==
  Plain({"runtime.Unknown", "version.Info"})

\* Slip: the table of an older types.go, when statuses had no conditions.
StaleDefinitions ==
  TaskSchemas @@ TaskFieldSchemas @@ QuantitySchemas @@ GroupSchemas @@
  ResourceSchemas @@ ApplySchemas @@ DeleteSchemas @@ GroupVersionSchemas @@
  DiscoverySchemas @@ SelectorSchemas @@ ListSchemas @@ ListOptionsSchemas
  @@ ManagedFieldsSchemas @@ ObjectMetaSchemas @@ OwnerSchemas @@
  PartialSchemas @@ PatchSchemas @@ StatusSchemas @@ StatusDetailsSchemas @@
  TableSchemas @@ TableRowSchemas @@ TimeSchemas @@ EventSchemas @@
  InfoSchemas

GetOpenAPIDefinitions ==
  TaskSchemas @@ TaskFieldSchemas @@ QuantitySchemas @@ GroupSchemas @@
  ResourceSchemas @@ ApplySchemas @@ ConditionSchemas @@ DeleteSchemas @@
  GroupVersionSchemas @@ DiscoverySchemas @@ SelectorSchemas @@ ListSchemas
  @@ ListOptionsSchemas @@ ManagedFieldsSchemas @@ ObjectMetaSchemas @@
  OwnerSchemas @@ PartialSchemas @@ PatchSchemas @@ StatusSchemas @@
  StatusDetailsSchemas @@ TableSchemas @@ TableRowSchemas @@ TimeSchemas @@
  EventSchemas @@ InfoSchemas
=============================================================================
