-------------------------- MODULE OpenstackDocument --------------------------
(***************************************************************************)
(* What an OpenStack request asks for, what is checked of it and the YAML  *)
(* document built from it: the constraints, tags, Terraform and YAML       *)
(* services, all of them functions of their inputs.                        *)
(*                                                                         *)
(* A slug is the sequence of words that dashes join, so joining slugs is   *)
(* concatenation.  E-mail addresses that differ in case or blanks are one  *)
(* value.  The YAML layout, anchors and comments are left out.             *)
(***************************************************************************)
EXTENDS Integers, Sequences, FiniteSets, FiniteSetsExt

CONSTANTS
  ConfiguredDomains,  \* OPENSTACK_ALLOWED_DOMAINS, {} if it is not set
  FallbackDomain,
  QuotaKeys,
  SlugWords,          \* a text -> the words of its slug, <<>> if none is left
  CustomerRows,       \* rows of the catalogue: [key, label]
  OrganizationRows,
  WorkplaceRows,      \* [organization, key, label]
  ProjectRow,         \* a project -> [title, pi, members]
  EmailOf,            \* a user -> an address, or NoEmail
  NoEmail,
  NoName

\* Disable dates are day numbers; these are the other values there may be.
\* A date like 99.99.2026 has the right form and is no day.
Undated == -1
Unlimited == -2
NoSuchDay == -3

-----------------------------------------------------------------------------
(* Terraform files: a sequence of [resource, name, flag], the flag being   *)
(* is_public of a flavor and shared of a network.                          *)

Parsed(file) == file.resource /\ file.name # NoName

\* Public, or shared, unless the file says false.
IsOpen(file) == file.flag # "false"

NamesIn(files) == {files[i].name : i \in {j \in DOMAIN files : Parsed(files[j])}}

\* The first file that defines a name counts.
Loaded(files) ==
  [n \in NamesIn(files) |->
     IsOpen(files[Min({i \in DOMAIN files : Parsed(files[i]) /\ files[i].name = n})])]

Assignable(cache) == {n \in DOMAIN cache : ~cache[n]}

-----------------------------------------------------------------------------
(* What may be asked for.  A payload is                                    *)
(* [domain, disableDate, customer, organization, workplace, quota, tags,   *)
(*  flavors, external, shared]; lists are sequences, tags a set.           *)

AllowedDomains ==
  IF ConfiguredDomains = {} THEN {FallbackDomain} ELSE ConfiguredDomains

QuotaKeysAllowed(quota) == DOMAIN quota \subseteq QuotaKeys

FlavorsAllowed(flavors, assignable) ==
  \A i \in DOMAIN flavors : flavors[i] \in assignable

NoDuplicates(names) ==
  \A i, j \in DOMAIN names : names[i] = names[j] => i = j

NetworksAssignable(payload, assignable) ==
  /\ \A i \in DOMAIN payload.external : payload.external[i] \in assignable
  /\ \A i \in DOMAIN payload.shared : payload.shared[i] \in assignable

NetworksAllowed(payload, assignable) ==
  /\ NetworksAssignable(payload, assignable)
  /\ NoDuplicates(payload.external)
  /\ NoDuplicates(payload.shared)

\* A date that is no day compares as false: it passes.
DisableDateAllowed(date, today) == date >= 0 => date >= today

\* cat is the server's catalogue, [flavors, networks].
ValidPayload(payload, cat, today) ==
  /\ payload.domain \in AllowedDomains
  /\ QuotaKeysAllowed(payload.quota)
  /\ FlavorsAllowed(payload.flavors, Assignable(cat.flavors))
  /\ NetworksAllowed(payload, Assignable(cat.networks))
  /\ DisableDateAllowed(payload.disableDate, today)

\* OpenstackTagsController.getCatalog: what a user is offered to choose from.
Catalog(cat) ==
  [domains |-> AllowedDomains, quotaKeys |-> QuotaKeys,
   flavors |-> Assignable(cat.flavors), networks |-> Assignable(cat.networks)]

NormalQuotaAboveOne(quota) == QuotaKeysAllowed(quota) /\ \A k \in DOMAIN quota : quota[k] > 1

\* Checked only when the approved request is processed.
NormalQuota(quota) == QuotaKeysAllowed(quota) /\ \A k \in DOMAIN quota : quota[k] >= 1

-----------------------------------------------------------------------------
(* The tag catalogue.  A row without a label takes its key for one; a      *)
(* label that is there and empty makes the key unknown.                    *)

LastLabel(rows, hits) == IF hits = {} THEN "missing" ELSE rows[Max(hits)].label

Known(label) == label \notin {"missing", "empty"}

LabelsResolve(payload) ==
  LET customers == {i \in DOMAIN CustomerRows : CustomerRows[i].key = payload.customer}
      organizations == {i \in DOMAIN OrganizationRows : OrganizationRows[i].key = payload.organization}
      workplaces == {i \in DOMAIN WorkplaceRows :
                       /\ WorkplaceRows[i].organization = payload.organization
                       /\ WorkplaceRows[i].key = payload.workplace /\ payload.workplace # NoName}
      customer == LastLabel(CustomerRows, customers)
  IN  /\ Known(customer) \/ (payload.customer = "meta" /\ customer = "missing")
      /\ Known(LastLabel(OrganizationRows, organizations))
      /\ Known(LastLabel(WorkplaceRows, workplaces))

-----------------------------------------------------------------------------
(* The document.                                                           *)

SlugOr(text, fallback) == IF SlugWords[text] = <<>> THEN fallback ELSE SlugWords[text]

ProjectName(customer, title) ==
  SlugOr(customer, <<>>) \o SlugOr(title, <<"project">>)

Reachable(p) ==
  {ProjectRow[p].pi} \cup
  {m.user : m \in {n \in ProjectRow[p].members : n.status = "active"}}

\* One contact for each address.
Contacts(p) == {EmailOf[u] : u \in Reachable(p)} \ {NoEmail}

Tags(payload) ==
  {<<"customer", payload.customer>>, <<"organization", payload.organization>>,
   <<"workplace", payload.workplace>>} \cup (payload.tags \ {NoName})

\* requestors: who asked for the allocation, {} if that user has no external id.
BuildYaml(payload, p, requestors) ==
  LET name == ProjectName(payload.customer, ProjectRow[p].title)
  IN  [contacts |-> Contacts(p), investigators |-> requestors,
       disableDate |-> payload.disableDate,
       name |-> name, domain |-> payload.domain, tags |-> Tags(payload),
       quota |-> payload.quota, flavors |-> payload.flavors,
       external |-> payload.external, shared |-> payload.shared,
       entitledTo |-> name]

FilePath(document) == <<document.domain, document.name>>
=============================================================================
