---------------------------- MODULE MCOpenstackGit ----------------------------
(* A finite instance of OpenstackGit for TLC.                              *)
EXTENDS OpenstackGit, TLC

\* Two projects; the title of the second leaves no slug.  Two of the users
\* share an address, one has none.
MCSlugWords == [app |-> <<"app">>, symbols |-> <<>>, meta |-> <<"meta">>]
MCProjectRow ==
  [p1 |-> [title |-> "app", pi |-> "ann",
           members |-> {[user |-> "bob", status |-> "active"], [user |-> "eve", status |-> "pending"]}],
   p2 |-> [title |-> "symbols", pi |-> "bob", members |-> {}]]
MCEmailOf == [ann |-> "a@", bob |-> "a@", eve |-> "none"]

MCCustomerRows == <<[key |-> "vo", label |-> "empty"]>>
MCOrganizationRows == <<[key |-> "uni", label |-> "full"]>>
MCWorkplaceRows == <<[organization |-> "uni", key |-> "lab", label |-> "full"]>>

\* The second version of the Terraform files makes the flavor public.
MCTerraformAt ==
  LET file(name, flag) == [resource |-> TRUE, name |-> name, flag |-> flag]
      nets == <<file("dmz", "false"), file("lan", "unset")>>
  IN  << [flavors |-> <<file("gpu", "false"), file("gpu", "true")>>, networks |-> nets],
         [flavors |-> <<file("gpu", "true"), file("gpu", "false")>>, networks |-> nets] >>

Payload(customer, quota, date, flavors, external) ==
  [domain |-> "einfra", disableDate |-> date, customer |-> customer, organization |-> "uni",
   workplace |-> "lab", quota |-> [cores |-> quota], tags |-> {"none"},
   flavors |-> flavors, external |-> external, shared |-> <<>>]

Filed(p, payload) == [project |-> p, payload |-> payload, requestors |-> {}]

\* A flavor that may stop being restricted; a date that may pass; a quota that is
\* no use; a network asked for twice.
MCFiling ==
  {Filed("p1", Payload("meta", 2, Undated, <<"gpu">>, <<"dmz">>)),
   Filed("p2", Payload("meta", 1, 0, <<>>, <<>>)),
   Filed("p2", Payload("meta", 0, NoSuchDay, <<>>, <<>>)),
   Filed("p2", Payload("meta", 1, Unlimited, <<>>, <<"dmz", "dmz">>))}

MCPath == {<<"einfra", <<"meta", "app">>>>, <<"einfra", <<"meta", "project">>>>}
MCSymmetry == Permutations(Handler)
=============================================================================
