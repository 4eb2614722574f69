------------------------------- MODULE MCUart ------------------------------
EXTENDS Uart
MCDivisors == {<<4, 4>>, <<9, 8>>, <<8, 9>>}
=============================================================================
