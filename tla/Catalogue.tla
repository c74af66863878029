------------------------------ MODULE Catalogue ------------------------------
(***************************************************************************)
(* Resources and their attributes, which admins edit.  That all required   *)
(* attributes are given is checked before the transaction that writes,     *)
(* that an attribute type is unused before the statement that deletes it.  *)
(***************************************************************************)
EXTENDS UserAccounts

CONSTANTS
  AttributeName,
  Quantity,       \* names that start with "quantity_"
  Form,           \* what may be entered: [name, attributes], attributes a sequence of [key, value]
  FirstTypes

VARIABLES
  attributeTypes,   \* id -> [name, required]
  resources,        \* id -> [name]
  attributes        \* rows [resource, type, value]

ASSUME CatalogueAssumption ==
  /\ \A form \in Form : form.attributes \in Seq([key : STRING, value : STRING])
  /\ IsFiniteSet(DOMAIN FirstTypes) /\ DOMAIN FirstTypes \subseteq Nat
  /\ FirstTypes \in [DOMAIN FirstTypes -> [name : AttributeName, required : BOOLEAN]]
  /\ \A t, u \in DOMAIN FirstTypes : FirstTypes[t].name = FirstTypes[u].name => t = u

catalogueVars == <<attributeTypes, resources, attributes>>

Empty == ""

AttributeTypeRow == [name : AttributeName, required : BOOLEAN]
ResourceRow == [name : {form.name : form \in Form}]
AttributeRow == [resource : DOMAIN resources, type : DOMAIN attributeTypes, value : STRING]

CatalogueInit == attributeTypes = FirstTypes /\ resources = <<>> /\ attributes = {}

IsAdmin(p) == p \in Known /\ HasRole(UserOf(p), "admin")

NewType == Max({0} \cup DOMAIN attributeTypes \cup {call[s].type : s \in {t \in Session : call[t].op = "delete_type"}}) + 1

-----------------------------------------------------------------------------
(* Attribute types.                                                        *)

CreateAttributeType(p, name, required) ==
  /\ IsAdmin(p) /\ \A t \in DOMAIN attributeTypes : attributeTypes[t].name # name
  /\ Once("catalogue")
  /\ attributeTypes' = Put(attributeTypes, NewType, [name |-> name, required |-> required])
  /\ UNCHANGED <<accountVars, resources, attributes>>

Used(t) == \E row \in attributes : row.type = t

DeleteTypeRead(s, p, t) ==
  /\ IsAdmin(p) /\ t \in DOMAIN attributeTypes
  /\ attributeTypes[t].name \notin Quantity /\ ~Used(t)
  /\ Begin("catalogue", s, [op |-> "delete_type", type |-> t])
  /\ UNCHANGED <<accountVars, catalogueVars>>

\* The foreign key refuses what is used by now.
DeleteTypeWrite(s) ==
  /\ call[s].op = "delete_type"
  /\ attributeTypes' = IF Used(call[s].type) THEN attributeTypes
                       ELSE [t \in DOMAIN attributeTypes \ {call[s].type} |-> attributeTypes[t]]
  /\ End(s)
  /\ UNCHANGED <<accountVars, resources, attributes>>

-----------------------------------------------------------------------------
(* Resources.                                                              *)

Keys(form) == {form.attributes[i].key : i \in DOMAIN form.attributes}

\* That the key is there; its value may be empty.
HasRequired(form) ==
  \A t \in DOMAIN attributeTypes : attributeTypes[t].required => attributeTypes[t].name \in Keys(form)

\* Of a key given twice the first value; unknown keys and empty values are dropped.
FirstValue(form, key) ==
  form.attributes[Min({i \in DOMAIN form.attributes : form.attributes[i].key = key})].value

AttributesOf(r, form) ==
  {[resource |-> r, type |-> t, value |-> FirstValue(form, attributeTypes[t].name)] :
     t \in {u \in DOMAIN attributeTypes : /\ attributeTypes[u].name \in Keys(form)
                                          /\ FirstValue(form, attributeTypes[u].name) # Empty}}

NameTaken(r, form) == \E q \in DOMAIN resources \ {r} : resources[q].name = form.name

\* A new resource has no id yet.
SaveRead(s, p, r, form) ==
  /\ IsAdmin(p) /\ HasRequired(form)
  /\ Begin("catalogue", s, [op |-> "save", resource |-> r, form |-> form])
  /\ UNCHANGED <<accountVars, catalogueVars>>

CreateWrite(s) ==
  LET r == Cardinality(DOMAIN resources) + 1
      form == call[s].form
  IN  /\ call[s].op = "save" /\ call[s].resource = 0
      /\ IF NameTaken(r, form) THEN UNCHANGED <<resources, attributes>>
         ELSE /\ resources' = Put(resources, r, [name |-> form.name])
              /\ attributes' = attributes \cup AttributesOf(r, form)
      /\ End(s)
      /\ UNCHANGED <<accountVars, attributeTypes>>

\* The old values are deleted in the same transaction.
UpdateResourceWrite(s) ==
  LET r == call[s].resource
      form == call[s].form
  IN  /\ call[s].op = "save" /\ r # 0
      /\ IF r \notin DOMAIN resources \/ NameTaken(r, form) THEN UNCHANGED <<resources, attributes>>
         ELSE /\ resources' = [resources EXCEPT ![r].name = form.name]
              /\ attributes' = {row \in attributes : row.resource # r} \cup AttributesOf(r, form)
      /\ End(s)
      /\ UNCHANGED <<accountVars, attributeTypes>>

-----------------------------------------------------------------------------
(* Properties.                                                             *)

\* No index promises that an attribute of a resource has one value only.
CatalogueTypeOK ==
  /\ \A t \in DOMAIN attributeTypes : attributeTypes[t] \in AttributeTypeRow
  /\ \A r \in DOMAIN resources : resources[r] \in ResourceRow
  /\ \A row \in attributes : row \in AttributeRow /\ row.value # Empty
  /\ \A t, u \in DOMAIN attributeTypes : attributeTypes[t].name = attributeTypes[u].name => t = u
  /\ \A q, r \in DOMAIN resources : resources[q].name = resources[r].name => q = r
  /\ \A one, two \in attributes :
       one.resource = two.resource /\ one.type = two.type => one = two
=============================================================================
