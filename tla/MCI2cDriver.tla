---------------------------- MODULE MCI2cDriver ----------------------------
(* The I2C driver on bytes of two bits: an address bit and the R/W bit.     *)
EXTENDS I2cDriver

MCDevices == {<<1, 0>>}
MCValues == {<<0, 1>>, <<1, 1>>}
MCSent == {<<0, 1>>, <<1, 0>>}
=============================================================================
