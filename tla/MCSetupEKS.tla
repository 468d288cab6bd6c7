----------------------------- MODULE MCSetupEKS -----------------------------
EXTENDS SetupEKS

Setup(nat, zones, existing, addons, policy, quota) ==
  [nat |-> nat, zones |-> zones, existing |-> existing, addons |-> addons,
   policy |-> policy, quota |-> quota]

SomeSetups ==
  {Setup("Single", 1, "nothing", TRUE, "Delete", 18),
   Setup("None", 1, "vpc", FALSE, "Delete", 14),
   Setup("HighAvailability", 2, "nothing", FALSE, "Delete", 24),
   Setup("None", 1, "gateway", FALSE, "Delete", 8),
   Setup("Single", 1, "subnets", FALSE, "Delete", 16),
   Setup("None", 1, "nothing", FALSE, "Retain", 14)}
=============================================================================
