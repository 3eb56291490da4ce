---------------------------- MODULE MCCompanyAdmin ----------------------------
EXTENDS CompanyAdmin, TLC

MCRequests == {"p", "q"}
MCIds == 1..6
MCGrants == {{"a"}, {"a", "b"}}

\* Two companies of the partner's and one of somebody else's, and one deleted.
MCExisting ==
    [i \in {1, 3, 4, 5} |->
       [createdBy    |-> IF i = 4 THEN "other" ELSE Partner,
        integratorId |-> IF i = 5 THEN "i1" ELSE "none",
        name         |-> "old",
        caps         |-> {"a"},
        live         |-> i # 5,
        by           |-> "old"]]

W(op, actor, id, integratorId, name, caps) ==
    [op |-> op, actor |-> actor, id |-> id, integratorId |-> integratorId,
     name |-> name, caps |-> caps]

MCWorkload ==
    "p" :> {W("create", "partner", NoId, "none", "given", {"a"}),
            W("upsert", "partner", NoId, "i1", "given", {"a", "b"}),
            W("update", "partner", 3, "none", "given", {"a", "b"}),
            W("delete", "partner", 3, "none", "given", {}),
            W("delete", "partner", 4, "none", "given", {}),
            W("patch", "child", 3, "none", "given", {})}
 @@ "q" :> {W("upsert", "partner", NoId, "i1", "given", {"b"}),
            W("update", "partner", 3, "none", "given", {"b"}),
            W("delete", "partner", 3, "none", "given", {}),
            W("delete", "partner", 5, "none", "given", {}),
            W("get", "partner", 3, "none", "given", {}),
            W("get", "partner", NoId, "i1", "given", {}),
            W("create", "tenant", 3, "none", "given", {}),
            W("patch", "tenant", 3, "none", "given", {}),
            W("patch", "tenantIntegrator", NoId, "i1", "absent", {}),
            W("patch", "child", 5, "none", "null", {}),
            W("patch", "child", 3, "none", "null", {})}
===============================================================================
