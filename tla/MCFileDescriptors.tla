-------------------------- MODULE MCFileDescriptors --------------------------
(* Two descriptors beyond the standard ones, both devices, a file of the   *)
(* host, and a name that belongs to neither although it begins like one.     *)
EXTENDS FileDescriptors

MCNames == {DeviceName.null, DeviceName.jtag, <<"mnt", "host", "data.txt">>, <<"mnt", "hosts">>}
=============================================================================
