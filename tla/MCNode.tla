------------------------------- MODULE MCNode -------------------------------
(***************************************************************************)
(* Instances for TLC of the parts of an L2 and of its clients that keep    *)
(* disjoint state and do not call each other. Every step of one commutes   *)
(* with every step of another, so a behaviour of this module moves one of  *)
(* them, chosen at the start, and leaves the others as they began.         *)
(***************************************************************************)
EXTENDS Accounts, Credentials, GroupConsent, Bootstrap, PairSecrets, Answers,
        ActivityLog, Reflections, ClientDrain, MerkleTree, TLC

VARIABLE part

Parts == {"accounts", "credentials", "consent", "bootstrap", "secrets", "views", "presence",
          "federation", "lookup", "activity", "reflections", "client", "merkle"}

(* The part that moves begins in any of its initial states, the others in   *)
(* one.                                                                     *)
MCInit ==
    /\ part \in Parts
    /\ AccountsInit /\ (part # "accounts" => \A u \in Users \ {Founder} : persona[u] = Unassigned)
    /\ CredentialsInit /\ (part # "credentials" => keyCount = 0)
    /\ BootstrapInit
    /\ part # "bootstrap" => env = [email |-> FALSE, password |-> FALSE, liaison |-> FALSE]
    /\ LookupInit
    /\ part # "lookup" => ~look.excludes /\ \A p \in Siblings : sibling[p].bloom = "absent"
    /\ ActivityInit /\ (\E p \in Personas : home[p] = "acme")
    /\ part # "activity" \/ ownEnterprise = "" => \A p \in Personas : home[p] = "acme"
    /\ part # "activity" => ownEnterprise = ""
    /\ ConsentInit /\ SecretsInit /\ FleetInit /\ PresenceInit /\ FederationInit /\ ReflectInit /\ ClientInit
    /\ Init /\ (part # "merkle" => leaves = <<>>)

Moves(p, action, variables) == IF part = p THEN action ELSE UNCHANGED variables

MCNext ==
    /\ UNCHANGED part
    /\ Moves("accounts", AccountsNext, accountVars)
    /\ Moves("credentials", CredentialsNext, credentialVars)
    /\ Moves("consent", ConsentNext, consentVars)
    /\ Moves("bootstrap", BootstrapNext, bootVars)
    /\ Moves("secrets", SecretsNext, secretVars)
    /\ Moves("views", ViewNext /\ UNCHANGED keyVars, fleetVars)
    /\ Moves("presence", PresenceNext, presenceVars)
    /\ Moves("federation", FederationNext, federationVars)
    /\ Moves("lookup", LookupNext, lookupVars)
    /\ Moves("activity", ActivityNext, activityVars)
    /\ Moves("reflections", ReflectNext, reflectVars)
    /\ Moves("client", ClientNext, clientVars)
    /\ Moves("merkle", Next, vars)

MCSpec == MCInit /\ [][MCNext]_<<part, accountVars, credentialVars, consentVars, bootVars,
                                 secretVars, fleetVars, presenceVars, federationVars, lookupVars,
                                 activityVars, reflectVars, clientVars, vars>>

(* Approved units of this group, of a sibling, of a sibling that opened its *)
(* units to the Enterprise, and a row of another Enterprise.                *)
MCUnits == {[enterprise |-> "acme", group |-> "g1", open |-> FALSE],
            [enterprise |-> "acme", group |-> "g2", open |-> FALSE],
            [enterprise |-> "acme", group |-> "g2", open |-> TRUE],
            [enterprise |-> "zeta", group |-> "g1", open |-> FALSE]}

(* Rows of two siblings worth asking, of one that may not be called, of one *)
(* that holds none of the domains, and of one with an old key of this L2.   *)
MCSiblingRows == {[safe |-> TRUE, bloom |-> "claims", key |-> "current"],
                  [safe |-> TRUE, bloom |-> "absent", key |-> "none"],
                  [safe |-> FALSE, bloom |-> "claims", key |-> "current"],
                  [safe |-> TRUE, bloom |-> "denies", key |-> "none"],
                  [safe |-> TRUE, bloom |-> "claims", key |-> "old"]}

(* Users of two groups of an Enterprise, and of another.                    *)
MCTenants == {[enterprise |-> "acme", group |-> "g1"], [enterprise |-> "acme", group |-> "g2"],
              [enterprise |-> "zeta", group |-> "g1"]}

(* Two names, of requests or of what is only told apart by name, stand for  *)
(* something else in every part; exchanging them is a symmetry of each.     *)
MCSymmetry == Permutations(Jobs)
=============================================================================
