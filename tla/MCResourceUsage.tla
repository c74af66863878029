---------------------------- MODULE MCResourceUsage ----------------------------
(* A finite instance of ResourceUsage for TLC.                             *)
EXTENDS ResourceUsage, TLC

Ann == << <<"perun_username", "ann">>, <<"oidc_sub", "a1">> >>
MCAccount == [ann |-> [oidc_sub |-> "a1", perun_username |-> "ann", user_email |-> "none"]]
MCCustomers == << <<"meta">> >>
MCPersonalId == [ann |-> 9]
MCPersonalSlug == [ann |-> <<"personal", "ann">>]
Alpha == <<"alpha">>
MetaAlpha == <<"meta", "alpha">>
MCSlug == {Alpha, MetaAlpha}

Report(source, slug, day, instance, used) ==
  [source |-> source, slug |-> slug, day |-> day, instance |-> instance, used |-> used,
   personal |-> FALSE, ids |-> Ann, job |-> IF source = "pbsAcct" THEN "sim" ELSE "none",
   project |-> NoProject]
Personal(report) == [report EXCEPT !.personal = TRUE]

Last(reports) == [events |-> reports, last |-> TRUE]
MCBatch ==
  {Last(<<Report("pbsAcct", Alpha, 1, "none", 2)>>),
   Last(<<Report("pbsAcct", Alpha, 2, "none", 1), Report("openstack", MetaAlpha, 2, "vm2", 2)>>),
   Last(<<Report("openstack", MetaAlpha, 1, "vm1", 1)>>),
   Last(<<Personal(Report("pbs", <<"home">>, 1, "none", 1)),
          Personal(Report("pbsAcct", <<"home">>, 2, "none", 1))>>),
   Last(<<Personal(Report("pbs", <<"home">>, 1, "none", 1)), Personal(Report("pbs", <<"laptop">>, 1, "none", 2))>>),
   [events |-> <<Report("pbs", Alpha, 1, "none", 1), Report("pbs", Alpha, 1, "none", 2),
                 Report("pbs", MetaAlpha, 2, "none", 1)>>, last |-> FALSE]}

MCSymmetry == Permutations(Job)
=============================================================================
