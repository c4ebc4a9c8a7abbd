-------------------------- MODULE MCUeventListener --------------------------
EXTENDS UeventListener

D(from, cred, keys) == [from |-> from, cred |-> cred, keys |-> keys]

TestDatagrams ==
    {D("kernel", "root", <<"add@", "ACTION", "DEVPATH", "MAJOR", "MINOR">>),
     D("kernel", "root", <<"add@", "ACTION", "SEQNUM">>),
     D("kernel", "root", <<"add@", "ACTION", "DEVPATH", "SUBSYSTEM", "FIRMWARE", "MODALIAS", "SEQNUM">>),
     D("kernel", "none", <<"ACTION", "MAJOR">>),
     D("kernel", "root", <<"add@", "DEVPATH">>),
     D("process", "root", <<"ACTION", "MAJOR">>),
     D("kernel", "user", <<"ACTION", "MINOR">>)}
=============================================================================
