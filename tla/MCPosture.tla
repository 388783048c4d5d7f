------------------------------- MODULE MCPosture -------------------------------
EXTENDS Posture
===============================================================================
