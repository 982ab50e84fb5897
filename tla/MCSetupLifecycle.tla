-------------------------- MODULE MCSetupLifecycle --------------------------
\* The setups the runs of SetupLifecycle check: every kind of entry setup with
\* and without a retest zone, and every kind as management-only.
EXTENDS SetupLifecycle

EverySetup ==
    {c \in Configs : c.management \/ c.kind \notin {"runner", "position_management"}}
EntrySetups == {c \in EverySetup : ~ c.management}
=============================================================================
