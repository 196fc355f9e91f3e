----------------------------- MODULE MCDeployment -----------------------------
EXTENDS Deployment
CONSTANT u1
=============================================================================
