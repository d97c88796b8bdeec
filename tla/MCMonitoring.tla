---------------------------- MODULE MCMonitoring ----------------------------
\* Instances of Monitoring: machines with several cards, one with a list of
\* lspci that is too long and only a virtual card in sysfs; a CPU whose waiting
\* time may be corrected downwards, a disk with more free space than space.
EXTENDS Monitoring

TwoMachines ==
  { [lspci |-> <<"virtual", "intel", "nvidia">>, fits |-> 3, sysfs |-> <<"virtual", "other">>,
     kind |-> "container"],
    [lspci |-> <<"intel", "virtual", "nvidia">>, fits |-> 1, sysfs |-> <<"virtual">>,
     kind |-> "vm"] }
SomeLoads ==
  { [used |-> 1, idle |-> 2, wait |-> 0],
    [used |-> 2, idle |-> 0, wait |-> -1] }
AStep == {-3, 2}
SomeDisks == { [total |-> 2, free |-> 3] }
=============================================================================
