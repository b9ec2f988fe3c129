------------------------------ MODULE MCProvider ------------------------------
\* Every runner, with the options that matter to it.
EXTENDS ProviderRun

MCConfigs ==
    {c \in [runner : Runners, key : {"route", "model"}, auto : BOOLEAN, ralph : BOOLEAN,
             suspend : BOOLEAN] :
        /\ c.auto => c.runner = "pty" /\ c.key = "route"
        /\ c.key = "model" => c.runner \in {"exact", "pty"}
        /\ c.ralph <=> c.key = "route"
        /\ c.suspend => c.key = "model" /\ c.runner = "pty"}
===============================================================================
